CONSTANTS
  Days = 6
  Calendars <- MCCalendars
  Symbols = {NVDA, AAPL}
  NoSymbol = NoSymbol
  DefaultSymbol = NVDA
  Sides = {"sell"}
  OvernightOK = {NVDA}
  MaxElig = 1
  DeskHours <- MCDeskHours
  MaxIntents = 1
  MaxSwitches = 1
SPECIFICATION Spec
INVARIANTS PricedFromOwnBook
CHECK_DEADLOCK FALSE
