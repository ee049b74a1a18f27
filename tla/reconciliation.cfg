SPECIFICATION Spec
CONSTANTS
  VenueAtFirst <- MCVenueAtFirst
  DriftPct = 40
  MaxSize = 3
  MaxOrders = 2
  MaxOutside = 2
  MaxCrashes = 2
INVARIANTS TypeOK CashFollowsLog FlowsOnce BooksAgree
CHECK_DEADLOCK FALSE
