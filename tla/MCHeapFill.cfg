SPECIFICATION ProgramFairSpec
CONSTANTS
  AddrMod = 16
  HeapStart = 3
  HeapEnd = 9
  Request <- MCRequest
  Bits = {0, 1}
  Untouched = Untouched
  SignBit = 8
  DestFirst = FALSE
  FillInt <- MCFillInt
INVARIANTS
  BlocksKeepTheirFill
  NothingElseIsWritten
PROPERTIES
  ImplementsAllocator
  FillReturns
