SPECIFICATION AhciSpec
CONSTANTS
  Data = {a, b}
  TIMEOUT = 2
  PAGES = 9
INVARIANTS
  IssuedIsComplete
  ReadSeesLastWrite
PROPERTIES
  PortOrder
  EveryCallReturns
CHECK_DEADLOCK FALSE
