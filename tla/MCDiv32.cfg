SPECIFICATION FairSpec
CONSTANTS
  WordBits = 3
  SignBit = 4
  DestFirst = TRUE
INVARIANTS
  LoopInvariant
  DivisionCorrect
PROPERTY
  Terminates
