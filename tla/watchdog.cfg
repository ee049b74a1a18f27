SPECIFICATION FairSpec
CONSTANTS
  Checkers = {sweep, gate}
  Operators = {operator}
  Boot = Boot
  None = None
  MaxEquity = 2
  MaxDay = 1
  MaxCrashes = 1
  MaxDrawdown = 60
  MaxDailyLoss = 40
INVARIANTS
  TypeOK
  SwitchAnnounced
PROPERTIES
  KeepsItsPromises
  LastingDrawdownTrips
