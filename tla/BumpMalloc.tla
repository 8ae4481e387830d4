----------------------------- MODULE BumpMalloc -----------------------------
(***************************************************************************)
(* libtms9900/builtins/malloc.c: the bump allocator linked into programs   *)
(* that use the C or C++ library.  malloc moves one pointer up; free does  *)
(* nothing.  Sizes and pointers are 16-bit and wrap at AddrMod.            *)
(***************************************************************************)
EXTENDS Integers, PartialMap

CONSTANTS
  AddrMod,      \* 2^16 in the code
  HeapStart,    \* __heap_start and __heap_end, from the linker script
  HeapEnd,
  Request       \* sizes the program asks for

ASSUME BumpMallocAssumption ==
  /\ AddrMod \in Nat /\ AddrMod % 2 = 0
  /\ HeapStart \in Nat /\ HeapEnd \in Nat
  /\ 0 < HeapStart /\ HeapStart <= HeapEnd /\ HeapEnd < AddrMod
  /\ Request \subseteq 0..(AddrMod - 1)

VARIABLES
  heap_ptr,
  live       \* pointers the program holds -> size it asked for

vars == <<heap_ptr, live>>

Init ==
  /\ heap_ptr = HeapStart
  /\ live = << >>

\* Mutant: rounded down.
AlignUpDown(size) == 2 * (size \div 2)

\* (size + 1u) & ~1u
AlignUp(size) == 2 * (((size + 1) % AddrMod) \div 2)

Bumped(size) == (heap_ptr + AlignUp(size)) % AddrMod

\* A zero-byte block is not kept in live: the program may not touch it.
Malloc(size) ==
  /\ Bumped(size) <= HeapEnd
  /\ heap_ptr' = Bumped(size)
  /\ live' = IF size = 0 THEN live ELSE With(live, heap_ptr, size)

\* NULL is returned and nothing moves.
MallocRefused(size) ==
  /\ Bumped(size) > HeapEnd
  /\ UNCHANGED vars

\* No-op: the bytes are not used again.
Free(p) ==
  /\ live' = WithoutKey(live, p)
  /\ UNCHANGED heap_ptr

Next ==
  \/ \E size \in Request : Malloc(size) \/ MallocRefused(size)
  \/ \E p \in DOMAIN live : Free(p)

Spec == Init /\ [][Next]_vars

-----------------------------------------------------------------------------
(* Properties                                                              *)

\* A request so small that neither rounding it up nor adding it to a pointer
\* into the heap can wrap.
Safe(size) == HeapEnd + size + 1 < AddrMod

\* malloc implements Allocator: what it returns lies in the heap and is not
\* handed out again while it is held.  True for safe requests only.
Promise == INSTANCE Allocator WITH ucHeap <- HeapStart, HeapLimit <- HeapEnd
ImplementsAllocator == Promise!Spec

=============================================================================
