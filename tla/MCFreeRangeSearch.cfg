SPECIFICATION SearchSpec
CONSTANTS
  Count = 7
  MaxRange = 8
INVARIANTS
  FoundIsLowest
  FailedMeansNone
CHECK_DEADLOCK FALSE
