SPECIFICATION FairSpec
CONSTANTS
  Entries = {1, 2}
  EntryQty = 2
  ExitQty = 1
  MinLeg = 1
  Linked = FALSE
  Faults = {"operator", "definite"}
  Exit = Exit
  None = None
INVARIANT GuardsOwned
PROPERTIES NeverRearmed EventuallyCovered
CHECK_DEADLOCK FALSE
