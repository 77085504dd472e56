CONSTANTS
  Feeds = {"sip", "boats"}
  Symbols = {NVDA, AAPL}
  NoSymbol = NoSymbol
  DefaultSymbol = NVDA
  TicksPerSecond = 2
  MaxBuf = 2
  MaxTime = 3
  MaxNight = 2
  MaxSwitches = 1
  MaxDrops = 1
SPECIFICATION Spec
INVARIANTS TypeOK StreamOnlyActive StreamOnce PolledHolesBounded
  PolledTwiceBounded
\* The exchange stops after MaxTime prints.
CHECK_DEADLOCK FALSE
