SPECIFICATION FairSpec
CONSTANTS
  Orders = {o1}
  Sweep = Sweep
  Boot = Boot
  None = None
  Qty = 2
  Faults = {"unknown"}
  MaxCrashes = 1
INVARIANT Owned
PROPERTY EventuallyClosed
