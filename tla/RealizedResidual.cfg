CONSTANTS
  Terms <- SingleFills
  Overlap = 2
  Window = 3
  MaxWeeks = 0
  ColdPartial = FALSE
  Calm = TRUE
SPECIFICATION Spec
INVARIANTS EveryFillCounted
