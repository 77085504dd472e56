CONSTANTS
  Feeds = {"boats"}
  Symbols = {NVDA, AAPL}
  NoSymbol = NoSymbol
  DefaultSymbol = NVDA
  TicksPerSecond = 2
  MaxBuf = 2
  MaxTime = 2
  MaxNight = 2
  MaxSwitches = 1
  MaxDrops = 0
SPECIFICATION Spec
INVARIANTS PollerOnlyActive
\* The exchange stops after MaxTime prints.
CHECK_DEADLOCK FALSE
