SPECIFICATION FairSpec
CHECK_DEADLOCK FALSE
CONSTANTS
  BUFFER_WIDTH = 2
  BUFFER_HEIGHT = 2
  Bytes <- MCBytes
  Styles = {1, 2, 3}
  DEFAULT_STYLE = 1
  HEAD_STYLE = 2
  PANIC_STYLE = 3
  Texts <- MCTexts
  Numbers <- MCNumbers
  EchoedBytes = {"a", "LF"}
  SPIN_LIMIT = 1
  Exceptions = FALSE
  MaxRoutines = 1
  MaxKeys = 1
PROPERTIES
  KeysHandled
