SPECIFICATION Spec
CONSTANTS
  SignBit = 4
  DestFirst = FALSE
INVARIANT
  OutputIsQuotientOrRemainder
