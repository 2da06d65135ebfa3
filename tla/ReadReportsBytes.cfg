SPECIFICATION Spec
CONSTANTS
  BufferLimit = 3
  Letters <- OneLetter
  Keys <- SwitchKeys
  ReadSizes <- SomeSizes
  Outputs <- NoOutput
  Cleared = 0
  Unwritten = 0
  putc <- Written
  newline_keyboard <- Blanked
  backspace_keyboard <- Blanked
  clearscreen <- Blanked
INVARIANT ReadReportsBytes
