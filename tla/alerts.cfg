SPECIFICATION FairSpec
CONSTANTS
  StreakLimit = 2
  Batch = 2
  Histories <- MCHistories
  MaxCleared = 1
  MaxDays = 2
  MaxFaults = 1
INVARIANT NothingMissed
PROPERTIES StaysDismissed EventuallyTold
CHECK_DEADLOCK FALSE
