SPECIFICATION AgentFairSpec
CONSTANTS
  LEN = 3
  TaskFns <- MCTaskFns
  Archives <- MCArchives
  Bases <- MCBases
  TRAILER <- MCTRAILER
  MODEL = "ai.mod"
  U32 = 33554432
  QUANTUM_BASE_US = 1000
  QUANTUM_SCALE = 20
  MEM_LOW_KB = 8192
  TRIM_BYTES = 1048576
  FreeKbs <- MCFreeKbs
  Neurons <- MCNeurons
  MaxElapsed = 2
  ManyTicks <- MCManyTicks
  Sleeps <- MCSleeps
INVARIANTS
  AgentTypeOK
  BoundedWaiting
  WalksAgree
  WeightsInside
PROPERTIES
  RegistrationsKept
  AgentNeverRefused
  
  
