SPECIFICATION Spec
CONSTANTS
  PAGE_SIZE = 4096
  U64 = 1073741824
  Callers = {c1}
  Requests <- MCRequests
  MemoryMaps <- MCMemoryMaps
  MaxBlocks = 3
INVARIANTS
  KernelImageIntact
CHECK_DEADLOCK FALSE
