------------------------------- MODULE MCHeap4 ------------------------------
(* Instances of Heap4 for TLC: a heap of a few minimal blocks, and requests *)
(* of every size up to the largest that does not wrap.                      *)
EXTENDS Heap4

Requests == {0, 1, 2, 3, 4, 7, 8, 13, 20, 22, 24, AddrMod - HEADER_SIZE - ALIGNMENT}

=============================================================================
