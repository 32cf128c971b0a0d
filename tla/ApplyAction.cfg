SPECIFICATION FairSpec
CONSTANTS
  Actions <- MCActions
  U32 = 33554432
  SPINS = 2
  MaxSeq = 3
  MaxTicks = 2
INVARIANTS
  QuantumInRange
  
  JournalWellFormed
  IntentsTestable
PROPERTIES
  CommitTested
  ProposalsSettle
  ImplementsAtomicSetting
CHECK_DEADLOCK FALSE
