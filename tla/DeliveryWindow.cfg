CONSTANTS
  None = None
  Window = 2
  MaxTime = 5
  CaptionLimit = 1
  TextSizes = {0, 1, 2}
SPECIFICATION SendSpec
INVARIANT FreeFormInsideWindow
