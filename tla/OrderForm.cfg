CONSTANTS
  Days = 14
  Calendars <- MCCalendars
  Symbols = {NVDA, AAPL}
  NoSymbol = NoSymbol
  DefaultSymbol = NVDA
  Sides = {"sell"}
  OvernightOK = {NVDA}
  MaxElig = 1
  DeskHours <- MCDeskHours
  MaxIntents = 1
  MaxSwitches = 1
SPECIFICATION Spec
INVARIANTS TypeOK NeverShutOut ClosureHeld AnchorsAtOpens OrdersFit
\* The run ends with its last day.
CHECK_DEADLOCK FALSE
