CONSTANTS
  StartQty = 1
  Sizes = {1, 2}
  MaxOrderQty = 2
  MaxPositionQty = 2
  MaxIntents = 2
  MaxAuths = 2
  MaxBoth = 3
SPECIFICATION Spec
INVARIANT CapHeld
