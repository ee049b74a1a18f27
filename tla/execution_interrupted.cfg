SPECIFICATION Spec
CONSTANTS
  Orders = {o1, o2}
  Sweep = Sweep
  Boot = Boot
  None = None
  Qty = 1
  Faults <- Interruptions
  MaxCrashes = 1
SYMMETRY Symmetry
INVARIANT ExclusiveOwner
