SPECIFICATION Spec
CONSTANTS
  Orders = {o1}
  Sweep = Sweep
  Boot = Boot
  None = None
  Qty = 2
  Faults <- OutsideFaults
  MaxCrashes = 2
INVARIANTS
  TypeOK
  DurableFirst
  OnePlacement
  LedgerMatchesLog
  BookedOnce
  ClosedBooksComplete
  BookingLegal
  MonitorFollowsLog
PROPERTY Implements
