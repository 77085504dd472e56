CONSTANTS
  Terms <- SingleFills
  Overlap = 2
  Window = 3
  MaxWeeks = 0
  ColdPartial = TRUE
  Calm = FALSE
SPECIFICATION Spec
PROPERTIES DelayedFillsFound
