SPECIFICATION FairSpec
CONSTANTS
  MemoryMaps <- MCMemoryMaps
  PAGE_SIZE = 1
  ENTRIES = 4
  BAR_LENGTH = 5
  HEAP_PAGES = 1
  VMM_BASE = 128
  MMIO_BASE = 64
  MMIO_FRAME = 5
  MAX_PAGES = 2
  TLB_SLOTS = 1
  StrayFrames = {1}
INVARIANTS
  ReportAddsUp
  FrameExclusive
  LeakOnlyAfterRefusal
  OwnedIsBacked
  TlbCoherent
PROPERTIES
  OwnedStaysMapped
  EveryCallReturns
CHECK_DEADLOCK FALSE
