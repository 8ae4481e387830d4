----------------------------- MODULE MCHeapFill -----------------------------
EXTENDS HeapFill

\* Every request that cannot wrap, the largest included.
MCRequest == {size \in 0..(AddrMod - 1) : Safe(size)}

\* A char zero-extended and -1 sign-extended.
MCFillInt == {<<{}, {0}>>, <<Bits, Bits>>}
=============================================================================
