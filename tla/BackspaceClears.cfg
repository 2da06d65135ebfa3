SPECIFICATION Spec
CONSTANTS
  NumCols = 2
  NumRows = 2
  Letters <- OneLetter
  ReadSizes <- OneSize
  BufferLimit = 4
  Keys <- EditKeys
  Outputs <- SomeOutput
  Cleared <- ClearedScreen
  Unwritten <- UnknownScreen
  putc <- Putc
  newline_keyboard <- NewlineKeyboard
  backspace_keyboard <- BackspaceKeyboard
  clearscreen <- Clearscreen
INVARIANT BackspaceClears
