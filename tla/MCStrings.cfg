SPECIFICATION Spec
CONSTANTS
  Names = {s, t}
  Literals <- SomeLiterals
  Numbers <- SomeNumbers
  WIDTH = 5
  MAX_TEXT = 4
  MAX_LEAKS = 1
INVARIANTS StringsOwned TextFunctionsRight
