SPECIFICATION Spec
CONSTANTS
  Stamps <- MCStamps
  PageSize = 3
  Retries = 1
  Delay = 1
  Period = 2
  Budget = 2
  BootBudget = 3
  MaxKicks = 2
INVARIANTS
  TypeOK
  WalkHasNoHole
  KicksKept
PROPERTY
  KicksServed
