SPECIFICATION FairSpec
CONSTANTS
  Baskets = {b1}
  Loops = {l1}
  Requests = {r1}
  None = None
  MaxFailures = 2
  MaxVersion = 4
  MaxCrashes = 2
  Overlap = FALSE
INVARIANTS
  QuietWhenStopped
  NoRunaway
  EditInForce
PROPERTIES
  HaltedComesToRest
  ServedAgain
