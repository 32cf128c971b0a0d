SPECIFICATION FairSpec
CONSTANTS
  PAGE_SIZE = 4
  U64 = 64
  Callers = {c1, c2}
  Requests <- MCRequests
  MemoryMaps <- MCMemoryMaps
  MaxBlocks = 3
INVARIANTS
  TypeOK
  BlocksDisjoint
  BlocksWellPlaced
  LargestRegion
PROPERTIES
  FreeSpaceShrinks
  CallsReturn
  ImplementsBlockAllocator
CHECK_DEADLOCK FALSE
