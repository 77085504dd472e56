SPECIFICATION Spec
CONSTANTS
  Symbols = {"a", "b"}
  Trades <- MCTrades
  Old <- MCOld
  Omits = {"a"}
  MaxTrades = 3
INVARIANTS
  TypeOK
  RealizedExact
CHECK_DEADLOCK FALSE
