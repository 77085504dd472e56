CONSTANTS
  Symbols = {NVDA, AAPL}
  NoSymbol = NoSymbol
  DefaultSymbol = NVDA
  MaxSwitches = 2
  MaxDials = 2
SPECIFICATION Spec
INVARIANT ShownIsLive
