SPECIFICATION Spec
CONSTANTS
  b1 = b1
  b2 = b2
  i1 = i1
  i2 = i2
  None = None
  Baskets = {b1, b2}
  Closers = {c1}
  Listed <- MCListed
  Bucket <- MCBucket
  Ceiling <- MCCeiling
  MinQty = 2
  MaxPerHour = 1
  MaxPerDay = 1
  Cooldown = 0
  MaxLosses = 1
  MaxHeld = 0
  MaxPlaced = 3
SYMMETRY Symmetry
INVARIANT PanelMetered
PROPERTY SoloOrdersFit
CHECK_DEADLOCK FALSE
