CONSTANTS
  StartQty = 1
  Sizes = {1, 2}
  MaxOrderQty = 2
  MaxPositionQty = 2
  MaxIntents = 2
  MaxAuths = 2
  MaxBoth = 3
SPECIFICATION Spec
INVARIANTS TypeOK BookTracksBroker CapWhenSeen LoneExitFits
\* The operator and the connection stop when their bounds are used up.
CHECK_DEADLOCK FALSE
