-------------------------------- MODULE Heap4 -------------------------------
(***************************************************************************)
(* The allocator of tests/benchmarks/heap4.c, a first-fit heap with an     *)
(* address-ordered free list that coalesces neighbours.  Each iteration of *)
(* the two list walks is a step of its own.                                *)
(*                                                                         *)
(* hdr maps the address of every block, free or allocated, and of the      *)
(* sentinels xStart and xEnd to its BlockLink_t; a header that was         *)
(* absorbed by a neighbour leaves its domain.  Addresses and sizes are     *)
(* unsigned int and wrap at AddrMod.                                       *)
(***************************************************************************)
EXTENDS Integers, FiniteSets, FiniteSetsExt, PartialMap

CONSTANTS
  AddrMod,    \* 2^16 in the code
  ucHeap,     \* address of the heap, 2-byte aligned by its attribute
  HEAP_SIZE,
  xStart,     \* addresses of the sentinels
  xEnd,
  Request     \* sizes the program asks for

HEADER_SIZE == 4
ALIGNMENT == 2
MIN_BLOCK_SIZE == HEADER_SIZE + ALIGNMENT

\* The walk of prvInsertBlockIntoFreeList stops at xEnd only if that static lies
\* above the heap; and the header and padding added to a request must not wrap.
ASSUME Heap4Assumption ==
  /\ \A x \in {AddrMod, ucHeap, HEAP_SIZE, xStart, xEnd} : x \in Nat /\ x % 2 = 0
  /\ HEAP_SIZE >= HEADER_SIZE + MIN_BLOCK_SIZE
  /\ 0 < ucHeap /\ ucHeap + HEAP_SIZE <= xEnd
  /\ xEnd + HEADER_SIZE <= AddrMod
  /\ 0 < xStart /\ xStart # xEnd /\ xStart + HEADER_SIZE <= AddrMod
  /\ xStart \notin ucHeap..(ucHeap + HEAP_SIZE - 1)
  /\ Request \subseteq 0..(AddrMod - HEADER_SIZE - ALIGNMENT)

NULL == 0

\* uxAddress of heap_init: the last header's worth of bytes stays unused.
HeapLimit == ucHeap + HEAP_SIZE - HEADER_SIZE

VARIABLES
  hdr,                  \* address -> [next, size]
  xFreeBytesRemaining,
  live,                 \* pointers the program holds -> size it asked for
  pc,                   \* "idle", "search", "insert", "taken"
  request,              \* heap_malloc's argument, and as adjusted
  xWantedSize,
  pxPreviousBlock,
  pxBlock,              \* the block heap_malloc has found; NULL outside it
  pxIterator,
  pxBlockToInsert

locals == <<request, xWantedSize, pxPreviousBlock, pxBlock>>
walk == <<pxIterator, pxBlockToInsert>>
vars == <<hdr, xFreeBytesRemaining, live, pc, locals, walk>>

Plus(x, y) == (x + y) % AddrMod
Minus(x, y) == (x - y) % AddrMod

\* heap_init.
Init ==
  /\ hdr = [a \in {xStart, ucHeap, xEnd} |->
              CASE a = xStart -> [next |-> ucHeap, size |-> 0]
                [] a = ucHeap -> [next |-> xEnd, size |-> Minus(HeapLimit, ucHeap)]
                [] a = xEnd -> [next |-> NULL, size |-> 0]]
  /\ xFreeBytesRemaining = hdr[ucHeap].size
  /\ live = << >>
  /\ pc = "idle"
  /\ request = 0 /\ xWantedSize = 0 /\ pxPreviousBlock = NULL /\ pxBlock = NULL
  /\ pxIterator = NULL /\ pxBlockToInsert = NULL

-----------------------------------------------------------------------------
(* prvInsertBlockIntoFreeList                                              *)

\* The list walk looks for the last free block below the one to insert.
InsertWalk ==
  /\ pc = "insert"
  /\ hdr[pxIterator].next < pxBlockToInsert
  /\ pxIterator' = hdr[pxIterator].next
  /\ UNCHANGED <<hdr, xFreeBytesRemaining, live, pc, locals, pxBlockToInsert>>

\* Mutant: a freed block is not merged with the one before it.
AdjoinsNever(a, b) == FALSE

\* Whether block a ends where b starts.
Adjoins(a, b) == Plus(a, hdr[a].size) = b

\* Whether a block that ends at end takes in the free block after, and its
\* successor in the list then.
Absorbs(end, after) == end = after /\ after # xEnd

Successor(absorbs, after) == IF absorbs THEN hdr[after].next ELSE after

\* The headers once pxBlockToInsert is merged with its neighbours and linked.
Inserted ==
  LET before == Adjoins(pxIterator, pxBlockToInsert)
      start == IF before THEN pxIterator ELSE pxBlockToInsert
      grown == IF before
                 THEN Plus(hdr[pxIterator].size, hdr[pxBlockToInsert].size)
                 ELSE hdr[pxBlockToInsert].size
      after == hdr[pxIterator].next
      absorbs == Absorbs(Plus(start, grown), after)
      merged == [next |-> Successor(absorbs, after),
                 size |-> IF absorbs THEN Plus(grown, hdr[after].size) ELSE grown]
      gone == (IF before THEN {pxBlockToInsert} ELSE {})
                \cup (IF absorbs THEN {after} ELSE {})
  IN [a \in DOMAIN hdr \ gone |->
        CASE a = start -> merged
          [] a = pxIterator /\ ~before -> [hdr[a] EXCEPT !.next = start]
          [] OTHER -> hdr[a]]

\* Back to the caller: heap_malloc goes on, heap_free returns.
InsertLink ==
  /\ pc = "insert"
  /\ ~(hdr[pxIterator].next < pxBlockToInsert)
  /\ hdr' = Inserted
  /\ pc' = IF pxBlock = NULL THEN "idle" ELSE "taken"
  /\ pxIterator' = NULL /\ pxBlockToInsert' = NULL
  /\ UNCHANGED <<xFreeBytesRemaining, live, locals>>

-----------------------------------------------------------------------------
(* heap_malloc                                                             *)

\* Mutant: the header forgotten.
AdjustedSizeNoHeader(n) == 2 * (Plus(n, 1) \div 2)

\* Header added, rounded up to the alignment.
AdjustedSize(n) ==
  LET s == Plus(n, HEADER_SIZE)
  IN IF s % ALIGNMENT = 0 THEN s ELSE Plus(s, ALIGNMENT) - 1

\* A zero request, or more than is free in total, is refused at once.
MallocRefused(n) ==
  /\ pc = "idle"
  /\ n = 0 \/ AdjustedSize(n) > xFreeBytesRemaining
  /\ UNCHANGED vars

MallocCall(n) ==
  /\ pc = "idle"
  /\ n # 0
  /\ AdjustedSize(n) <= xFreeBytesRemaining
  /\ pc' = "search"
  /\ request' = n
  /\ xWantedSize' = AdjustedSize(n)
  /\ pxPreviousBlock' = xStart
  /\ pxBlock' = hdr[xStart].next
  /\ UNCHANGED <<hdr, xFreeBytesRemaining, live, walk>>

\* Mutant: a block that fits exactly is passed over.
TooSmallOffByOne == hdr[pxBlock].size <= xWantedSize /\ hdr[pxBlock].next # NULL

\* First fit.
TooSmall == hdr[pxBlock].size < xWantedSize /\ hdr[pxBlock].next # NULL

\* Mutant: the search does not move on.
SearchStuck ==
  /\ pc = "search"
  /\ TooSmall
  /\ pxPreviousBlock' = pxBlock
  /\ UNCHANGED <<hdr, xFreeBytesRemaining, live, pc, request, xWantedSize, pxBlock, walk>>

Search ==
  /\ pc = "search"
  /\ TooSmall
  /\ pxPreviousBlock' = pxBlock
  /\ pxBlock' = hdr[pxBlock].next
  /\ UNCHANGED <<hdr, xFreeBytesRemaining, live, pc, request, xWantedSize, walk>>

ClearLocals ==
  /\ pc' = "idle"
  /\ request' = 0 /\ xWantedSize' = 0 /\ pxPreviousBlock' = NULL /\ pxBlock' = NULL

\* Enough is free, but not in one piece: NULL is returned.
MallocFails ==
  /\ pc = "search"
  /\ ~TooSmall
  /\ pxBlock = xEnd
  /\ ClearLocals
  /\ UNCHANGED <<hdr, xFreeBytesRemaining, live, walk>>

Unlinked == [hdr EXCEPT ![pxPreviousBlock].next = hdr[pxBlock].next]

\* The block cut to the size wanted.
ShrunkNot == Unlinked  \* mutant
Shrunk == [Unlinked EXCEPT ![pxBlock].size = xWantedSize]

Remainder == Minus(hdr[pxBlock].size, xWantedSize)

\* The block found is unlinked; a remainder that can stand alone is split off
\* and inserted back.
TakeBlock ==
  /\ pc = "search"
  /\ ~TooSmall
  /\ pxBlock # xEnd
  /\ IF Remainder >= MIN_BLOCK_SIZE
       THEN LET new == Plus(pxBlock, xWantedSize)
            IN /\ hdr' = With(Shrunk, new, [next |-> NULL, size |-> Remainder])
               /\ pc' = "insert"
               /\ pxIterator' = xStart
               /\ pxBlockToInsert' = new
       ELSE hdr' = Unlinked /\ pc' = "taken" /\ UNCHANGED walk
  /\ UNCHANGED <<xFreeBytesRemaining, live, locals>>

\* What an allocation takes from the free bytes: the whole block.
ChargeWanted == xWantedSize  \* mutant
Charge == hdr[pxBlock].size

MallocReturns ==
  /\ pc = "taken"
  /\ xFreeBytesRemaining' = Minus(xFreeBytesRemaining, Charge)
  /\ hdr' = [hdr EXCEPT ![pxBlock].next = NULL]
  /\ live' = With(live, Plus(pxBlock, HEADER_SIZE), request)
  /\ ClearLocals
  /\ UNCHANGED walk

-----------------------------------------------------------------------------
\* heap_free, called with a pointer the program holds.
FreeCall(pv) ==
  /\ pc = "idle"
  /\ LET pxLink == Minus(pv, HEADER_SIZE)
     IN /\ xFreeBytesRemaining' = Plus(xFreeBytesRemaining, hdr[pxLink].size)
        /\ pxBlockToInsert' = pxLink
  /\ pxIterator' = xStart
  /\ pc' = "insert"
  /\ live' = WithoutKey(live, pv)
  /\ UNCHANGED <<hdr, locals>>

Next ==
  \/ InsertWalk \/ InsertLink
  \/ \E n \in Request : MallocRefused(n) \/ MallocCall(n)
  \/ Search \/ MallocFails \/ TakeBlock \/ MallocReturns
  \/ \E pv \in DOMAIN live : FreeCall(pv)

Spec == Init /\ [][Next]_vars

\* A call, once made, runs on.
FairSpec ==
  /\ Spec
  /\ WF_vars(InsertWalk \/ InsertLink \/ Search \/ MallocFails
              \/ TakeBlock \/ MallocReturns)

-----------------------------------------------------------------------------
(* Properties                                                              *)

Blocks == DOMAIN hdr \ {xStart, xEnd}
Allocated == {p - HEADER_SIZE : p \in DOMAIN live}
FreeBlocks == Blocks \ (Allocated \cup {pxBlock, pxBlockToInsert})

TypeOK ==
  /\ \A a \in DOMAIN hdr :
       /\ a \in 0..(AddrMod - 1)
       /\ hdr[a].next \in DOMAIN hdr \cup {NULL}
       /\ hdr[a].size \in 0..(AddrMod - 1)
  /\ xFreeBytesRemaining \in 0..(AddrMod - 1)
  /\ DOMAIN live \subseteq ucHeap..(HeapLimit - 1)
  /\ pc \in {"idle", "search", "insert", "taken"}

\* Between calls the blocks tile the heap: each ends where another starts or at
\* the limit, so splitting and merging neither lose nor double a byte.
BlocksTileHeap ==
  pc = "idle" =>
    /\ ucHeap \in Blocks
    /\ \A b \in Blocks :
         /\ b \in ucHeap..(HeapLimit - 1)
         /\ LET end == b + hdr[b].size
            IN /\ end \in Blocks \cup {HeapLimit}
               /\ ~\E c \in Blocks : b < c /\ c < end

\* The free list holds every free block in address order and ends at xEnd, and
\* no two free blocks touch: coalescing is complete after every call.
FreeListCoalesced ==
  pc = "idle" =>
    \A b \in FreeBlocks \cup {xStart} :
      LET above == {c \in FreeBlocks : b = xStart \/ c > b}
      IN /\ hdr[b].next = IF above = {} THEN xEnd ELSE Min(above)
         /\ b + hdr[b].size \notin FreeBlocks

\* The bytes of the heap in the blocks of S.
BytesOf(S) ==
  {a \in ucHeap..(HeapLimit - 1) : \E b \in S : b <= a /\ a < b + hdr[b].size}

\* heap_get_free tells the truth: the counter is the number of bytes in the free
\* blocks.
FreeBytesExact ==
  pc = "idle" => xFreeBytesRemaining = Cardinality(BytesOf(FreeBlocks))

\* heap_malloc gives up only when no free block could hold the request.
FailureJustified ==
  [][MallocFails => \A b \in FreeBlocks : hdr[b].size < xWantedSize]_vars

\* The program's bytes are its own: heap_malloc and heap_free implement
\* Allocator.
Promise == INSTANCE Allocator
ImplementsAllocator == Promise!Spec

\* Both list walks come to an end: every call returns.
CallsReturn == pc # "idle" ~> pc = "idle"

=============================================================================
