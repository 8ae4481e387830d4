------------------------------ MODULE MCMemCopy -----------------------------
(* memcpy and memmove on every pair of blocks of a small memory.           *)
EXTENDS MemCopy

=============================================================================
