SPECIFICATION FairSpec
CONSTANTS
  AddrMod = 64
  ucHeap = 8
  HEAP_SIZE = 34
  xStart = 44
  xEnd = 48
  Request <- Requests
INVARIANTS
  BlocksTileHeap
  FreeListCoalesced
  FreeBytesExact
PROPERTIES
  FailureJustified
  ImplementsAllocator
  CallsReturn
