------------------------------ MODULE Allocator -----------------------------
(***************************************************************************)
(* What a caller of heap_malloc and heap_free relies on: the bytes it gets *)
(* lie inside the heap and are nobody else's until it frees them.          *)
(***************************************************************************)
EXTENDS Integers, PartialMap

CONSTANTS
  ucHeap,     \* first address of the heap
  HeapLimit,  \* first address past its usable part
  Request     \* sizes asked for

VARIABLE live  \* for each pointer handed out, the size asked for

Bytes(p, n) == p..(p + n - 1)

Init == live = << >>

Malloc(p, n) ==
  /\ n > 0
  /\ Bytes(p, n) \subseteq ucHeap..(HeapLimit - 1)
  /\ \A q \in DOMAIN live : Bytes(p, n) \cap Bytes(q, live[q]) = {}
  /\ live' = With(live, p, n)

Free(p) == live' = WithoutKey(live, p)

Next ==
  \/ \E p \in ucHeap..(HeapLimit - 1), n \in Request : Malloc(p, n)
  \/ \E p \in DOMAIN live : Free(p)

Spec == Init /\ [][Next]_live

=============================================================================
