SPECIFICATION FairSpec
CONSTANTS
  Tick = Tick
  Cli = Cli
  Rows = {1, 2}
  HotDays <- MCHotDays
  KeepDays <- MCKeepDays
  MaxRuns = 1
  MaxFaults = 2
INVARIANT PayloadKept
PROPERTY RetentionCompletes
CHECK_DEADLOCK FALSE
