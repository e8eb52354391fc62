SPECIFICATION GraphSpec
CONSTANTS
  INIT_HEAP_SIZE = 16
  HEADER = 2
  Sizes <- MCSizes
  MAX_FRAGMENTATION_VIEW_BLOCKS = 3
  TempSizes <- MCTempSizes
  MAX_TEMPS = 2
INVARIANTS
  Tiling
  NoAdjacentFree
  LiveIsUsed
  FailureIsHonest
  GraphShowsHeap
PROPERTIES
  FreedFitsAgain
  ImplementsAllocator
CHECK_DEADLOCK FALSE
