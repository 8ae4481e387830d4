SPECIFICATION FairSpec
CONSTANTS
  n_uword_bits = 3
  UIntMod = 65536
INVARIANTS
  LoopInvariant
  DivisionCorrect
PROPERTY
  Returns
