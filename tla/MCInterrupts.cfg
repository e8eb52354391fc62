SPECIFICATION FairSpec
CONSTANTS
  PIT_TICK_HZ = 100
  Faults <- MCFaults
  MAX_SLEEPS = 1
  MAX_TICKS = 2
  MAX_KEYS = 2
  MAX_DEPTH = 4
INVARIANTS
  HandlersAlone
  KeyNotStuck
  FrameMatches
PROPERTIES
  KeysAreHandled
CHECK_DEADLOCK FALSE
