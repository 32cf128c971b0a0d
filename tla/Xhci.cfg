SPECIFICATION FairSpec
CONSTANTS
  EVENT_RING_TRBS = 4
  Events <- XhciEvents
  NoEvent <- MCNoEvent
  ITERATIONS = 2
  CMD_USABLE = 5
  EP0_USABLE = 8
  INTR_USABLE = 3
  SlotIds = {1}
  MaxProbes = 2
  MaxPortChanges = 1
INVARIANTS
  TypeOK
  
  
PROPERTIES
  ImplementsEventQueue
  CompletionsMatch
  RingsNotOverrun
  ProbesEnd
