CONSTANTS
  Terms <- SingleFills
  Overlap = 2
  Window = 3
  MaxWeeks = 1
  ColdPartial = FALSE
  Calm = FALSE
SPECIFICATION Spec
INVARIANTS TypeOK CountedOnce SureFillsCounted RecomputeKeepsUp
PROPERTIES SampleKeeps
