SPECIFICATION Spec
CONSTANTS
  Kinds <- SomeKinds
  Sata <- SomeSata
  SLOTS = 3
  MAX_PLUGS = 2
  HEAP_ROOM = 4
  TABLE = 2
  DEVICE = 1
  STACK = 3
INVARIANTS TableIsBus AllOkIsUsable
PROPERTIES BootSurvives FaultIsReported
CHECK_DEADLOCK FALSE
