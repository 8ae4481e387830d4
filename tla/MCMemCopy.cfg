SPECIFICATION FairSpec
CONSTANTS
  SignBit = 8
  DestFirst = TRUE
INVARIANTS
  IInv
  CopyCorrect
  WritesStayInside
PROPERTY
  Terminates
