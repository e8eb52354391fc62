SPECIFICATION Spec
CONSTANTS
  Keymap <- Keys
  Commands <- Names
  Space = "space"
  LF = "lf"
  NoChar = "nul"
  Prompts = {2}
  MAX_CHARS = 3
  TERMINAL_BUFFER_SIZE = 3
  MAX_COMMAND_HISTORY = 2
  Entered <- Lines
INVARIANTS
  LineFitsBuffer
CHECK_DEADLOCK FALSE
