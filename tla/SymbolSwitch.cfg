CONSTANTS
  Symbols = {NVDA, AAPL}
  NoSymbol = NoSymbol
  DefaultSymbol = NVDA
  MaxSwitches = 2
  MaxDials = 2
SPECIFICATION Spec
INVARIANTS TypeOK LoadsMatchTape TapeSubscribed HistoryMatchesTape NewestShown
PROPERTIES AtomicSpec EverySwitchAnswered
\* The system rests once the bounded requests and connections are used up.
CHECK_DEADLOCK FALSE
