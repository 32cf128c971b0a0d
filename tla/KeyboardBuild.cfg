SPECIFICATION FairSpec
CONSTANTS
  KBUF_CAP = 3
  LINE_LEN = 1
  Scancodes <- MCScancodes
  Builds = {"memory", "folded"}
PROPERTIES
  ImplementsInputQueue
CHECK_DEADLOCK FALSE
