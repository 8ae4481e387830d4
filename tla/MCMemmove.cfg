SPECIFICATION Spec
CONSTANTS
  SignBit = 8
  DestFirst = TRUE
INVARIANT
  OverlapSafe
