SPECIFICATION Spec
CONSTANTS
  Chars = {a, b}
  MAX_CHARS = 2
  MAX_LINES = 2
  FONT_W = 2
  ADJUSTED_WIDTH = 5
  SCROLL_HISTORY_LINES = 1
  MAX_INPUT = 2
  MAX_TRANSCRIPT = 4
SYMMETRY Symmetry
INVARIANTS
  ScreenShowsBuffer
  OneCursor
  BufferIsTranscript
