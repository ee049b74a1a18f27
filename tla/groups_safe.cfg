SPECIFICATION Spec
CONSTANTS
  Entries = {1, 2}
  EntryQty = 2
  ExitQty = 1
  MinLeg = 2
  Linked = TRUE
  Faults = {"cancel", "definite", "query", "race", "gap", "partial", "expiry", "overlap"}
  Exit = Exit
  None = None
PROPERTY PollFits
CHECK_DEADLOCK FALSE
