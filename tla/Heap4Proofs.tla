----------------------------- MODULE Heap4Proofs ----------------------------
(***************************************************************************)
(* Theorems about Heap4, for every heap size, every placement of heap and  *)
(* sentinels and every set of requests that do not wrap.  The blocks tile  *)
(* the heap and the free list is sorted and coalesced at every step of     *)
(* every call, except for the blocks the call has in hand.                 *)
(***************************************************************************)
EXTENDS Heap4, FiniteSetTheorems, Arithmetic

USE DEF HEADER_SIZE, ALIGNMENT, MIN_BLOCK_SIZE, NULL

-----------------------------------------------------------------------------
(* The inductive invariant                                                 *)

\* Blocks that are neither allocated nor in the free list: in hand of a call.
InHand == IF pc = "search" THEN {} ELSE {pxBlock, pxBlockToInsert} \ {NULL}

\* The blocks of the free list.
Listed == Blocks \ (Allocated \cup InHand)

End(b) == b + hdr[b].size

Headers ==
  /\ {xStart, xEnd} \subseteq DOMAIN hdr
  /\ hdr \in [DOMAIN hdr -> [next : Nat, size : Nat]]
  /\ hdr[xStart].size = 0 /\ hdr[xEnd].size = 0 /\ hdr[xEnd].next = NULL

Tiled ==
  /\ ucHeap \in Blocks
  /\ \A b \in Blocks :
       /\ b \in ucHeap..(HeapLimit - 1)
       /\ hdr[b].size \in Nat \ {0}
       /\ End(b) \in Blocks \cup {HeapLimit}
  /\ \A b, c \in Blocks : b < c => End(b) <= c

\* c comes after b in the list.
After(b, c) == c \in Listed /\ (b = xStart \/ b < c)

Sorted ==
  \A b \in Listed \cup {xStart} :
    /\ hdr[b].next = xEnd \/ After(b, hdr[b].next)
    /\ \A c \in Listed : After(b, c) => hdr[b].next <= c

Coalesced == \A b \in Listed : End(b) \notin Listed

\* What the program holds.
Held ==
  /\ DOMAIN live \subseteq Nat
  /\ Allocated \subseteq Blocks
  /\ \A p \in DOMAIN live :
       /\ live[p] \in Nat \ {0}
       /\ live[p] + HEADER_SIZE <= hdr[p - HEADER_SIZE].size

\* What heap_malloc has in hand.
MallocInHand ==
  /\ request \in Request \ {0}
  /\ xWantedSize \in Nat /\ request + HEADER_SIZE <= xWantedSize
  /\ pc = "search" =>
       /\ pxPreviousBlock \in Listed \cup {xStart}
       /\ pxBlock = hdr[pxPreviousBlock].next
       /\ \A b \in Listed : b < pxBlock => hdr[b].size < xWantedSize
  /\ pc # "search" =>
       /\ pxBlock \in Blocks \ Allocated
       /\ request + HEADER_SIZE <= hdr[pxBlock].size

\* What each place of the two functions knows.
Places ==
  /\ pc \in {"idle", "search", "insert", "taken"}
  /\ pc = "idle" => pxBlock = NULL
  /\ pc \in {"search", "taken"} \/ pxBlock # NULL => MallocInHand
  /\ pc # "insert" => pxBlockToInsert = NULL
  /\ pc = "insert" =>
       /\ pxBlockToInsert \in Blocks \ Allocated
       /\ pxBlockToInsert # pxBlock
       /\ pxIterator \in Listed \cup {xStart}
       /\ pxIterator # xStart => pxIterator < pxBlockToInsert

\* The counter, in terms of what is allocated.
Counted ==
  /\ xFreeBytesRemaining \in Nat
  /\ xFreeBytesRemaining + Cardinality(BytesOf(Allocated)) = HeapLimit - ucHeap

Heap4Inv ==
  /\ Headers
  /\ Tiled
  /\ Sorted
  /\ Coalesced
  /\ Held
  /\ Places
  /\ Counted

-----------------------------------------------------------------------------
(* Addresses and sizes                                                     *)

\* What the placement of heap and sentinels means.
LEMMA Placement ==
  /\ AddrMod \in Nat \ {0} /\ ucHeap \in Nat \ {0} /\ HeapLimit \in Nat
  /\ xStart \in Nat \ {0} /\ xEnd \in Nat \ {0} /\ xStart # xEnd
  /\ ucHeap < HeapLimit /\ HeapLimit < xEnd /\ xEnd < AddrMod /\ xStart < AddrMod
  /\ xStart \notin ucHeap..HeapLimit
  BY Heap4Assumption DEF HeapLimit

\* Sums and differences that do not wrap.
LEMMA PlusIs == \A x, y \in Nat : x + y < AddrMod => Plus(x, y) = x + y
  BY Placement DEF Plus

\* The same for differences.
LEMMA MinusIs == \A x, y \in Nat : y <= x /\ x < AddrMod => Minus(x, y) = x - y
  BY Placement DEF Minus

\* The adjusted size has room for the header and the request.
LEMMA AdjustedIs ==
  ASSUME NEW n \in Request
  PROVE  AdjustedSize(n) \in Nat /\ n \in Nat /\ n + HEADER_SIZE <= AdjustedSize(n)
  <1>1. n \in Nat /\ n + 6 <= AddrMod /\ AddrMod \in Nat /\ AddrMod % 2 = 0
    BY Heap4Assumption
  <1>2. Plus(n, 4) = n + 4
    BY <1>1, PlusIs
  <1>3. CASE (n + 4) % 2 = 0
    BY <1>1, <1>2, <1>3 DEF AdjustedSize
  <1>4. CASE (n + 4) % 2 # 0
    <2>1. n + 6 < AddrMod
      BY <1>1, <1>4
    <2>2. Plus(n + 4, 2) = n + 6
      BY <1>1, <2>1, PlusIs
    <2> QED
      BY <1>1, <1>2, <1>4, <2>2 DEF AdjustedSize
  <1> QED
    BY <1>3, <1>4

-----------------------------------------------------------------------------
(* What the invariant says of a block                                      *)

\* A block lies in the heap, apart from the sentinels.
LEMMA BlockFacts ==
  ASSUME Tiled, NEW b \in Blocks
  PROVE  /\ b \in Nat \ {0} /\ b \in DOMAIN hdr /\ b # xStart /\ b # xEnd
         /\ ucHeap <= b /\ b < HeapLimit /\ b < xEnd
         /\ hdr[b].size \in Nat \ {0} /\ End(b) \in Nat /\ End(b) = b + hdr[b].size
         /\ b < End(b) /\ End(b) <= HeapLimit /\ End(b) < AddrMod
  <1>1. b \in ucHeap..(HeapLimit - 1) /\ hdr[b].size \in Nat \ {0} /\ End(b) \in Blocks \cup {HeapLimit}
    BY DEF Tiled
  <1>2. End(b) <= HeapLimit
    <2>1. \A c \in Blocks : c \in ucHeap..(HeapLimit - 1)
      BY DEF Tiled
    <2>2. CASE End(b) \in Blocks
      BY <2>1, <2>2, Placement
    <2>3. CASE End(b) = HeapLimit
      BY <2>3, Placement
    <2> QED
      BY <1>1, <2>2, <2>3
  <1> QED
    BY <1>1, <1>2, Placement DEF Blocks, End

\* The free list goes up from block to block and ends at xEnd.
LEMMA ListFacts ==
  ASSUME Tiled, Sorted, NEW b \in Listed \cup {xStart}
  PROVE  /\ hdr[b].next \in Listed \cup {xEnd} /\ hdr[b].next # NULL /\ hdr[b].next \in Nat
         /\ b # xStart => b < hdr[b].next
         /\ \A c \in Listed : After(b, c) => hdr[b].next <= c
  <1>1. \A c \in Listed : c \in Blocks
    BY DEF Listed
  <1>2. hdr[b].next = xEnd \/ After(b, hdr[b].next)
    BY DEF Sorted
  <1>3. hdr[b].next \in Listed \cup {xEnd}
    BY <1>2 DEF After
  <1>4. hdr[b].next \in Nat /\ hdr[b].next # 0
    BY <1>1, <1>3, BlockFacts, Placement
  <1>5. b # xStart => b < hdr[b].next
    BY <1>1, <1>2, BlockFacts, Placement DEF After
  <1> QED
    BY <1>3, <1>4, <1>5 DEF Sorted

\* Steps that touch neither the headers nor the list.
LEMMA SameHeap ==
  ASSUME Heap4Inv, UNCHANGED <<hdr, live, xFreeBytesRemaining>>, InHand' = InHand
  PROVE  Headers' /\ Tiled' /\ Sorted' /\ Coalesced' /\ Held' /\ Counted' /\ Listed' = Listed
         /\ Blocks' = Blocks /\ Allocated' = Allocated
  <1>1. Blocks' = Blocks /\ Allocated' = Allocated
    BY DEF Blocks, Allocated
  <1>2. Listed' = Listed
    BY <1>1 DEF Listed
  <1>3. Headers'
    BY DEF Heap4Inv, Headers
  <1>4. Tiled'
    BY <1>1 DEF Heap4Inv, Tiled, End
  <1>5. Sorted'
    BY <1>2 DEF Heap4Inv, Sorted, After
  <1>6. Coalesced'
    BY <1>2 DEF Heap4Inv, Coalesced, End
  <1>7. Held'
    BY <1>1 DEF Heap4Inv, Held
  <1>8. Counted'
    BY <1>1 DEF Heap4Inv, Counted, BytesOf
  <1> QED
    BY <1>1, <1>2, <1>3, <1>4, <1>5, <1>6, <1>7, <1>8

-----------------------------------------------------------------------------
(* The walks                                                               *)

\* The insertion walk moves to the next block of the list below its block.
LEMMA InsertWalkStep == ASSUME Heap4Inv, InsertWalk PROVE Heap4Inv'
  <1>1. /\ pc = "insert" /\ pc' = pc /\ pxBlock' = pxBlock /\ pxBlockToInsert' = pxBlockToInsert
        /\ request' = request /\ xWantedSize' = xWantedSize /\ hdr' = hdr
        /\ UNCHANGED <<hdr, live, xFreeBytesRemaining>>
        /\ pxIterator' = hdr[pxIterator].next /\ hdr[pxIterator].next < pxBlockToInsert
    BY DEF InsertWalk, locals
  <1>2. InHand' = InHand
    BY <1>1 DEF InHand
  <1>3. Listed' = Listed /\ Blocks' = Blocks /\ Allocated' = Allocated
    BY <1>1, <1>2, SameHeap
  <1>4. pxBlockToInsert \in Blocks /\ pxIterator \in Listed \cup {xStart}
    BY <1>1 DEF Heap4Inv, Places
  <1>5. pxIterator' \in Listed
    <2>1. hdr[pxIterator].next \in Listed \cup {xEnd}
      BY <1>4, ListFacts DEF Heap4Inv
    <2>2. pxBlockToInsert \in Nat /\ pxBlockToInsert < xEnd
      BY <1>4, BlockFacts DEF Heap4Inv
    <2> QED
      BY <1>1, <2>1, <2>2, Placement
  <1>6. MallocInHand => MallocInHand'
    BY <1>1, <1>3 DEF MallocInHand
  <1>7. Places'
    BY <1>1, <1>3, <1>5, <1>6 DEF Heap4Inv, Places
  <1> QED
    BY <1>1, <1>2, <1>7, SameHeap DEF Heap4Inv

\* The search starts at the head of the list.
LEMMA MallocCallStep ==
  ASSUME Heap4Inv, NEW n \in Request, MallocCall(n) PROVE Heap4Inv'
  <1>1. /\ pc = "idle" /\ pc' = "search" /\ request' = n /\ n # 0 /\ xWantedSize' = AdjustedSize(n)
        /\ pxPreviousBlock' = xStart /\ pxBlock' = hdr[xStart].next /\ pxBlockToInsert' = pxBlockToInsert
        /\ hdr' = hdr /\ UNCHANGED <<hdr, live, xFreeBytesRemaining>>
    BY DEF MallocCall, walk
  <1>2. pxBlock = NULL /\ pxBlockToInsert = NULL
    BY <1>1 DEF Heap4Inv, Places
  <1>3. InHand' = InHand
    BY <1>1, <1>2 DEF InHand
  <1>4. Listed' = Listed
    BY <1>1, <1>3, SameHeap
  <1>5. \A b \in Listed : hdr[xStart].next <= b /\ b \in Nat /\ hdr[xStart].next \in Nat
    BY ListFacts, BlockFacts DEF Heap4Inv, After, Listed
  <1>6. MallocInHand'
    BY <1>1, <1>4, <1>5, AdjustedIs DEF MallocInHand
  <1>7. Places'
    BY <1>1, <1>2, <1>6 DEF Places
  <1> QED
    BY <1>1, <1>3, <1>7, SameHeap DEF Heap4Inv

\* The search passes a block that is too small.
LEMMA SearchStep == ASSUME Heap4Inv, Search PROVE Heap4Inv'
  <1>1. /\ pc = "search" /\ pc' = "search" /\ request' = request /\ xWantedSize' = xWantedSize
        /\ pxPreviousBlock' = pxBlock /\ pxBlock' = hdr[pxBlock].next /\ pxBlockToInsert' = pxBlockToInsert
        /\ hdr[pxBlock].size < xWantedSize /\ hdr[pxBlock].next # NULL
        /\ hdr' = hdr /\ UNCHANGED <<hdr, live, xFreeBytesRemaining>>
    BY DEF Search, TooSmall, walk
  <1>2. MallocInHand /\ pxBlockToInsert = NULL
    BY <1>1 DEF Heap4Inv, Places
  <1>3. InHand' = InHand
    BY <1>1 DEF InHand
  <1>4. Listed' = Listed
    BY <1>1, <1>3, SameHeap
  <1>5. pxBlock \in Listed
    <2>1. pxBlock \in Listed \cup {xEnd}
      BY <1>1, <1>2, ListFacts DEF MallocInHand, Heap4Inv
    <2> QED
      BY <1>1, <2>1 DEF Heap4Inv, Headers
  <1>6. ASSUME NEW b \in Listed, b < hdr[pxBlock].next PROVE hdr[b].size < xWantedSize
    <2>1. b \in Nat /\ pxBlock \in Nat /\ hdr[pxBlock].next \in Nat /\ pxBlock # xStart
      BY <1>5, ListFacts, BlockFacts DEF Heap4Inv, Listed
    <2>2. ~After(pxBlock, b)
      BY <1>5, <1>6, <2>1, ListFacts DEF Heap4Inv
    <2>3. b < pxBlock \/ b = pxBlock
      BY <2>1, <2>2 DEF After
    <2> QED
      BY <1>1, <1>2, <2>3 DEF MallocInHand
  <1>7. MallocInHand'
    BY <1>1, <1>2, <1>4, <1>5, <1>6 DEF MallocInHand
  <1>8. Places'
    BY <1>1, <1>2, <1>7 DEF Places
  <1> QED
    BY <1>1, <1>3, <1>8, SameHeap DEF Heap4Inv

\* The search ends without a block.
LEMMA MallocFailsStep == ASSUME Heap4Inv, MallocFails PROVE Heap4Inv'
  <1>1. /\ pc = "search" /\ pc' = "idle" /\ pxBlock' = NULL /\ pxBlockToInsert' = pxBlockToInsert
        /\ UNCHANGED <<hdr, live, xFreeBytesRemaining>>
    BY DEF MallocFails, ClearLocals, walk
  <1>2. pxBlockToInsert = NULL
    BY <1>1 DEF Heap4Inv, Places
  <1>3. InHand' = InHand
    BY <1>1, <1>2 DEF InHand
  <1>4. Places'
    BY <1>1, <1>2 DEF Places
  <1> QED
    BY <1>1, <1>3, <1>4, SameHeap DEF Heap4Inv

-----------------------------------------------------------------------------
(* Taking a block                                                          *)

\* A new link from the block before the one found.
LEMMA UnlinkedIs ==
  ASSUME Heap4Inv, pc = "search", pxBlock \in Listed
  PROVE  /\ DOMAIN Unlinked = DOMAIN hdr
         /\ Unlinked \in [DOMAIN hdr -> [next : Nat, size : Nat]]
         /\ \A a \in DOMAIN hdr :
              /\ Unlinked[a].size = hdr[a].size
              /\ Unlinked[a].next = IF a = pxPreviousBlock THEN hdr[pxBlock].next ELSE hdr[a].next
  <1>1. pxPreviousBlock \in DOMAIN hdr /\ pxBlock \in DOMAIN hdr
    BY DEF Heap4Inv, Places, MallocInHand, Headers, Listed, Blocks
  <1>2. hdr \in [DOMAIN hdr -> [next : Nat, size : Nat]]
    BY DEF Heap4Inv, Headers
  <1>3. hdr[pxBlock].next \in Nat
    BY <1>1, <1>2
  <1> QED
    BY <1>1, <1>2, <1>3 DEF Unlinked

\* The block the search has found is in the list and large enough.
LEMMA FoundIs ==
  ASSUME Heap4Inv, TakeBlock
  PROVE  /\ pc = "search" /\ MallocInHand /\ pxBlockToInsert = NULL
         /\ pxBlock \in Listed /\ pxBlock # pxPreviousBlock
         /\ xWantedSize \in Nat \ {0} /\ xWantedSize <= hdr[pxBlock].size
         /\ Remainder = hdr[pxBlock].size - xWantedSize
         /\ Plus(pxBlock, xWantedSize) = pxBlock + xWantedSize
  <1>1. pc = "search" /\ MallocInHand /\ pxBlockToInsert = NULL
    BY DEF TakeBlock, Heap4Inv, Places
  <1>2. pxBlock \in Listed
    BY <1>1, ListFacts DEF TakeBlock, MallocInHand, Heap4Inv
  <1>3. pxBlock # pxPreviousBlock
    <2>1. pxPreviousBlock # xStart => pxPreviousBlock < pxBlock /\ pxBlock \in Nat
      BY <1>1, ListFacts DEF MallocInHand, Heap4Inv
    <2>2. pxBlock # xStart
      BY <1>2, BlockFacts DEF Listed, Heap4Inv
    <2> QED
      BY <2>1, <2>2
  <1>4. hdr[pxBlock].next # NULL
    BY <1>2, ListFacts DEF Heap4Inv
  <1>5. hdr[pxBlock].size \in Nat /\ pxBlock \in Nat /\ pxBlock + hdr[pxBlock].size < AddrMod
    BY <1>2, BlockFacts DEF Listed, Heap4Inv
  <1>6. xWantedSize \in Nat \ {0}
    BY <1>1, AdjustedIs DEF MallocInHand
  <1>7. xWantedSize <= hdr[pxBlock].size
    BY <1>4, <1>5, <1>6 DEF TakeBlock, TooSmall
  <1>8. Remainder = hdr[pxBlock].size - xWantedSize
    <2>1. hdr[pxBlock].size < AddrMod
      BY <1>5, Placement
    <2> QED
      BY <1>5, <1>6, <1>7, <2>1, MinusIs DEF Remainder
  <1>9. Plus(pxBlock, xWantedSize) = pxBlock + xWantedSize
    <2>1. pxBlock + xWantedSize < AddrMod
      BY <1>5, <1>6, <1>7, Placement
    <2> QED
      BY <1>5, <1>6, <2>1, PlusIs
  <1> QED
    BY <1>1, <1>2, <1>3, <1>6, <1>7, <1>8, <1>9

\* Once the block found is out of the list, the others are still in order.
LEMMA UnlinkKeepsOrder ==
  ASSUME Heap4Inv, pc = "search", pxBlock \in Listed,
         Listed' = Listed \ {pxBlock},
         \A a \in Listed \cup {xStart} :
            a # pxBlock => hdr'[a].next = IF a = pxPreviousBlock THEN hdr[pxBlock].next ELSE hdr[a].next,
         \A a \in Listed : a # pxBlock => hdr'[a].size = hdr[a].size
  PROVE  Sorted' /\ Coalesced'
  <1>0. MallocInHand /\ \A b \in Listed : b \in Nat /\ b # xStart
    BY BlockFacts DEF Heap4Inv, Places, Listed
  <1>1. pxBlock \in Nat /\ pxBlock # xStart /\ pxBlock # xEnd /\ xEnd \in Nat /\ pxBlock = hdr[pxPreviousBlock].next
    BY <1>0, Placement, BlockFacts DEF Heap4Inv, MallocInHand, Listed
  <1>2. pxPreviousBlock \in Listed \cup {xStart}
    BY <1>0 DEF MallocInHand
  <1>3. ASSUME NEW b \in (Listed \ {pxBlock}) \cup {xStart}
        PROVE  /\ (hdr[b].next = xEnd \/ After(b, hdr[b].next))'
               /\ \A c \in Listed' : After(b, c)' => hdr'[b].next <= c
    <2>0. b \in Listed \cup {xStart} /\ b # pxBlock
      BY <1>1, <1>3
    <2>1. CASE b = pxPreviousBlock
      <3>1. hdr'[b].next = hdr[pxBlock].next
        BY <2>0, <2>1
      <3>2. /\ hdr[pxBlock].next \in Listed \cup {xEnd} /\ pxBlock < hdr[pxBlock].next
            /\ hdr[pxBlock].next \in Nat
            /\ \A c \in Listed : After(pxBlock, c) => hdr[pxBlock].next <= c
        BY <1>1, ListFacts DEF Heap4Inv
      <3>3. b # xStart => b < pxBlock
        BY <1>1, <1>2, <2>1, ListFacts DEF Heap4Inv
      <3>4. (hdr[b].next = xEnd \/ After(b, hdr[b].next))'
        BY <1>0, <1>1, <2>0, <3>1, <3>2, <3>3 DEF After
      <3>5. ASSUME NEW c \in Listed', After(b, c)' PROVE hdr'[b].next <= c
        <4>1. c \in Listed /\ c # pxBlock /\ After(b, c) /\ c \in Nat
          BY <1>0, <3>5 DEF After
        <4>2. pxBlock <= c
          BY <1>1, <1>2, <2>1, <4>1, ListFacts DEF Heap4Inv
        <4>3. After(pxBlock, c)
          BY <1>1, <4>1, <4>2 DEF After
        <4> QED
          BY <3>1, <3>2, <4>1, <4>3
      <3> QED
        BY <3>4, <3>5
    <2>2. CASE b # pxPreviousBlock
      <3>1. hdr'[b].next = hdr[b].next
        BY <2>0, <2>2
      <3>2. hdr[b].next # pxBlock
        <4> SUFFICES ASSUME hdr[b].next = pxBlock PROVE FALSE
          OBVIOUS
        <4>1. /\ \A c \in Listed : After(b, c) => pxBlock <= c
              /\ \A c \in Listed : After(pxPreviousBlock, c) => pxBlock <= c
              /\ b # xStart => b < pxBlock
              /\ pxPreviousBlock # xStart => pxPreviousBlock < pxBlock
          BY <1>1, <1>2, <2>0, ListFacts DEF Heap4Inv
        <4>2. After(b, pxPreviousBlock) \/ After(pxPreviousBlock, b)
          BY <1>0, <1>2, <2>0, <2>2 DEF After
        <4> QED
          BY <1>0, <1>1, <1>2, <2>0, <4>1, <4>2 DEF After
      <3>3. hdr[b].next = xEnd \/ After(b, hdr[b].next)
        BY <2>0 DEF Heap4Inv, Sorted
      <3>4. \A c \in Listed : After(b, c) => hdr[b].next <= c
        BY <2>0 DEF Heap4Inv, Sorted
      <3> QED
        BY <3>1, <3>2, <3>3, <3>4 DEF After
    <2> QED
      BY <2>1, <2>2
  <1>4. Sorted'
    BY <1>3 DEF Sorted
  <1>5. Coalesced'
    BY DEF Heap4Inv, Coalesced, End
  <1> QED
    BY <1>4, <1>5

\* Steps that leave the allocated blocks alone.
LEMMA SameHeld ==
  ASSUME Heap4Inv, live' = live, xFreeBytesRemaining' = xFreeBytesRemaining,
         \A b \in Allocated : b \in Blocks' /\ hdr'[b].size = hdr[b].size
  PROVE  Held' /\ Counted' /\ Allocated' = Allocated
  <1>1. Allocated' = Allocated
    BY DEF Allocated
  <1>2. \A p \in DOMAIN live : p - HEADER_SIZE \in Allocated
    BY DEF Allocated
  <1>3. Held'
    BY <1>1, <1>2 DEF Heap4Inv, Held
  <1>4. BytesOf(Allocated)' = BytesOf(Allocated)
    BY <1>1 DEF BytesOf
  <1>5. Counted'
    BY <1>4 DEF Heap4Inv, Counted
  <1> QED
    BY <1>1, <1>3, <1>5

\* The block is taken whole.
LEMMA TakeWholeStep ==
  ASSUME Heap4Inv, TakeBlock, Remainder < MIN_BLOCK_SIZE PROVE Heap4Inv'
  <1>0. /\ pc = "search" /\ MallocInHand /\ pxBlockToInsert = NULL
        /\ pxBlock \in Listed /\ pxBlock # pxPreviousBlock
        /\ xWantedSize \in Nat \ {0} /\ xWantedSize <= hdr[pxBlock].size
        /\ Remainder = hdr[pxBlock].size - xWantedSize
    BY FoundIs
  <1>1. hdr[pxBlock].size \in Nat /\ pxBlock # NULL /\ pxBlock \in Blocks
    BY <1>0, BlockFacts DEF Listed, Heap4Inv
  <1>2. ~(Remainder >= MIN_BLOCK_SIZE)
    BY <1>0, <1>1
  <1>3. /\ hdr' = Unlinked /\ pc' = "taken" /\ pxBlock' = pxBlock /\ pxBlockToInsert' = pxBlockToInsert
        /\ request' = request /\ xWantedSize' = xWantedSize
        /\ live' = live /\ xFreeBytesRemaining' = xFreeBytesRemaining
    BY <1>2 DEF TakeBlock, walk, locals
  <1>4. /\ DOMAIN hdr' = DOMAIN hdr
        /\ hdr' \in [DOMAIN hdr -> [next : Nat, size : Nat]]
        /\ \A a \in DOMAIN hdr :
             /\ hdr'[a].size = hdr[a].size
             /\ hdr'[a].next = IF a = pxPreviousBlock THEN hdr[pxBlock].next ELSE hdr[a].next
    BY <1>0, <1>3, UnlinkedIs
  <1>5. Blocks' = Blocks /\ \A b \in Blocks : b \in DOMAIN hdr /\ b # xStart /\ b # xEnd
    BY <1>4 DEF Blocks
  <1>6. Held' /\ Counted' /\ Allocated' = Allocated
    <2>1. \A b \in Allocated : b \in Blocks' /\ hdr'[b].size = hdr[b].size
      BY <1>4, <1>5 DEF Heap4Inv, Held
    <2> QED
      BY <1>3, <2>1, SameHeld
  <1>7. Headers'
    <2>1. pxPreviousBlock # xEnd
      BY <1>0, Placement DEF MallocInHand, Listed, Blocks
    <2> QED
      BY <1>4, <2>1 DEF Heap4Inv, Headers
  <1>8. Tiled'
    BY <1>4, <1>5 DEF Heap4Inv, Tiled, End
  <1>9. Listed' = Listed \ {pxBlock}
    BY <1>0, <1>1, <1>3, <1>5, <1>6 DEF Listed, InHand
  <1>10. Sorted' /\ Coalesced'
    <2>1. \A a \in Listed \cup {xStart} : a \in DOMAIN hdr
      BY DEF Listed, Blocks, Heap4Inv, Headers
    <2> QED
      BY <1>0, <1>4, <1>9, <2>1, UnlinkKeepsOrder
  <1>11. Places'
    <2>1. request \in Nat /\ request + HEADER_SIZE <= hdr[pxBlock].size
      BY <1>0, <1>1, AdjustedIs DEF MallocInHand
    <2>2. pxBlock \in Blocks' \ Allocated'
      BY <1>0, <1>1, <1>5, <1>6 DEF Listed
    <2>3. MallocInHand'
      BY <1>0, <1>3, <1>4, <1>5, <1>1, <2>1, <2>2 DEF MallocInHand
    <2> QED
      BY <1>0, <1>3, <2>3 DEF Places
  <1> QED
    BY <1>6, <1>7, <1>8, <1>10, <1>11 DEF Heap4Inv

\* The block is split and the remainder in hand, to be inserted.
LEMMA TakeSplitStep ==
  ASSUME Heap4Inv, TakeBlock, Remainder >= MIN_BLOCK_SIZE PROVE Heap4Inv'
  <1> DEFINE new == pxBlock + xWantedSize
  <1>0. /\ pc = "search" /\ MallocInHand /\ pxBlockToInsert = NULL
        /\ pxBlock \in Listed /\ pxBlock # pxPreviousBlock
        /\ xWantedSize \in Nat \ {0} /\ xWantedSize <= hdr[pxBlock].size
        /\ Remainder = hdr[pxBlock].size - xWantedSize
        /\ Plus(pxBlock, xWantedSize) = new
    BY FoundIs
  <1>1. /\ hdr[pxBlock].size \in Nat /\ pxBlock \in Nat \ {0} /\ pxBlock \in Blocks /\ pxBlock \in DOMAIN hdr
        /\ ucHeap <= pxBlock /\ End(pxBlock) <= HeapLimit /\ End(pxBlock) = pxBlock + hdr[pxBlock].size
        /\ pxBlock # xStart /\ pxBlock # xEnd
    BY <1>0, BlockFacts DEF Listed, Heap4Inv, Blocks
  <1>2. /\ hdr' = With(Shrunk, new, [next |-> NULL, size |-> Remainder])
        /\ pc' = "insert" /\ pxBlock' = pxBlock /\ pxBlockToInsert' = new /\ pxIterator' = xStart
        /\ request' = request /\ xWantedSize' = xWantedSize
        /\ live' = live /\ xFreeBytesRemaining' = xFreeBytesRemaining
    BY <1>0 DEF TakeBlock, locals
  <1>3. /\ new \in Nat /\ pxBlock < new /\ new < End(pxBlock) /\ new + Remainder = End(pxBlock)
        /\ Remainder \in Nat \ {0} /\ new # NULL /\ ucHeap <= new /\ new < HeapLimit
        /\ new # xStart /\ new # xEnd
    BY <1>0, <1>1, Placement
  <1> HIDE DEF new
  <1>4. new \notin Blocks /\ new \notin DOMAIN hdr
    <2>1. new \notin Blocks
      BY <1>1, <1>3, BlockFacts DEF Heap4Inv, Tiled
    <2> QED
      BY <1>3, <2>1 DEF Blocks
  <1>5. /\ DOMAIN hdr' = DOMAIN hdr \cup {new}
        /\ hdr' \in [DOMAIN hdr \cup {new} -> [next : Nat, size : Nat]]
        /\ hdr'[new].size = Remainder /\ hdr'[pxBlock].size = xWantedSize
        /\ \A a \in DOMAIN hdr : a # pxBlock => hdr'[a].size = hdr[a].size
        /\ \A a \in DOMAIN hdr :
             hdr'[a].next = IF a = pxPreviousBlock THEN hdr[pxBlock].next ELSE hdr[a].next
    <2>1. /\ DOMAIN Unlinked = DOMAIN hdr
          /\ Unlinked \in [DOMAIN hdr -> [next : Nat, size : Nat]]
          /\ \A a \in DOMAIN hdr :
               /\ Unlinked[a].size = hdr[a].size
               /\ Unlinked[a].next = IF a = pxPreviousBlock THEN hdr[pxBlock].next ELSE hdr[a].next
      BY <1>0, UnlinkedIs
    <2>2. /\ DOMAIN Shrunk = DOMAIN hdr
          /\ Shrunk \in [DOMAIN hdr -> [next : Nat, size : Nat]]
          /\ \A a \in DOMAIN hdr :
               /\ Shrunk[a].size = IF a = pxBlock THEN xWantedSize ELSE Unlinked[a].size
               /\ Shrunk[a].next = Unlinked[a].next
      BY <1>0, <1>1, <2>1 DEF Shrunk
    <2>3. [next |-> NULL, size |-> Remainder] \in [next : Nat, size : Nat]
      BY <1>3
    <2> HIDE DEF NULL
    <2>4. /\ DOMAIN hdr' = DOMAIN hdr \cup {new}
          /\ hdr' \in [DOMAIN hdr \cup {new} -> [next : Nat, size : Nat]]
          /\ hdr'[new].size = Remainder
          /\ \A a \in DOMAIN hdr : hdr'[a] = Shrunk[a]
      BY <1>2, <1>4, <2>2, <2>3 DEF With
    <2> QED
      BY <1>1, <2>1, <2>2, <2>4
  <1>6. Blocks' = Blocks \cup {new} /\ \A b \in Blocks : b \in DOMAIN hdr /\ b # xStart /\ b # xEnd
    BY <1>3, <1>5 DEF Blocks
  <1>7. Held' /\ Counted' /\ Allocated' = Allocated
    <2>1. \A b \in Allocated : b \in Blocks' /\ hdr'[b].size = hdr[b].size
      BY <1>0, <1>5, <1>6 DEF Heap4Inv, Held, Listed
    <2> QED
      BY <1>2, <2>1, SameHeld
  <1>8. Headers'
    <2>1. pxPreviousBlock # xEnd
      BY <1>0, Placement DEF MallocInHand, Listed, Blocks
    <2> QED
      BY <1>1, <1>5, <2>1 DEF Heap4Inv, Headers
  <1>9. Tiled'
    <2> DEFINE EndAfter(b) == b + hdr'[b].size
    <2>1. /\ EndAfter(new) = End(pxBlock) /\ EndAfter(pxBlock) = new
          /\ \A b \in Blocks : b # pxBlock => EndAfter(b) = End(b)
      BY <1>3, <1>5, <1>6 DEF End, new
    <2> HIDE DEF EndAfter
    <2>2. \A b \in Blocks' : b \in ucHeap..(HeapLimit - 1) /\ hdr'[b].size \in Nat \ {0}
      BY <1>0, <1>3, <1>5, <1>6, Placement DEF Heap4Inv, Tiled
    <2>3. \A b \in Blocks' : EndAfter(b) \in Blocks' \cup {HeapLimit}
      BY <1>1, <1>6, <2>1 DEF Heap4Inv, Tiled
    <2>4. ASSUME NEW b \in Blocks', NEW c \in Blocks', b < c PROVE EndAfter(b) <= c
      <3>1. \A x \in Blocks : x \in Nat /\ End(x) \in Nat /\ x < End(x)
        BY BlockFacts DEF Heap4Inv
      <3>2. \A x, y \in Blocks : x < y => End(x) <= y
        BY DEF Heap4Inv, Tiled
      <3>3. CASE b = new
        <4>1. c \in Blocks /\ pxBlock < c
          BY <1>1, <1>3, <1>6, <2>4, <3>1, <3>3
        <4> QED
          BY <1>1, <2>1, <3>2, <3>3, <4>1
      <3>4. CASE b # new /\ c = new
        <4>1. b \in Blocks
          BY <1>6, <3>4
        <4>2. CASE b = pxBlock
          BY <1>3, <2>1, <3>4, <4>2
        <4>3. CASE b # pxBlock
          <5>1. b < pxBlock
            BY <1>1, <1>3, <2>4, <3>1, <3>2, <3>4, <4>1, <4>3
          <5> QED
            BY <1>1, <1>3, <2>1, <3>1, <3>2, <3>4, <4>1, <4>3, <5>1
        <4> QED
          BY <4>2, <4>3
      <3>5. CASE b # new /\ c # new
        <4>1. b \in Blocks /\ c \in Blocks
          BY <1>6, <3>5
        <4>2. End(b) <= c
          BY <2>4, <3>2, <4>1
        <4> QED
          BY <1>1, <1>3, <2>1, <3>1, <4>1, <4>2
      <3> QED
        BY <3>3, <3>4, <3>5
    <2>5. ucHeap \in Blocks'
      BY <1>6 DEF Heap4Inv, Tiled
    <2> QED
      BY <2>2, <2>3, <2>4, <2>5 DEF Tiled, End, EndAfter
  <1>10. Listed' = Listed \ {pxBlock}
    BY <1>0, <1>1, <1>2, <1>3, <1>4, <1>6, <1>7 DEF Listed, InHand
  <1>11. Sorted' /\ Coalesced'
    <2>1. \A a \in Listed \cup {xStart} : a \in DOMAIN hdr
      BY DEF Listed, Blocks, Heap4Inv, Headers
    <2> QED
      BY <1>0, <1>5, <1>10, <2>1, UnlinkKeepsOrder
  <1>12. Places'
    <2>1. pxBlock \in Blocks' \ Allocated' /\ new \in Blocks' \ Allocated'
      BY <1>0, <1>1, <1>4, <1>6, <1>7 DEF Listed, Heap4Inv, Held
    <2>2. MallocInHand'
      BY <1>0, <1>2, <1>5, <2>1 DEF MallocInHand
    <2> QED
      BY <1>1, <1>2, <1>3, <2>1, <2>2 DEF Places
  <1> QED
    BY <1>7, <1>8, <1>9, <1>11, <1>12 DEF Heap4Inv

-----------------------------------------------------------------------------
(* Allocating and freeing                                                  *)

\* Blocks have their bytes to themselves.
LEMMA BytesAdd ==
  ASSUME Tiled, NEW S \in SUBSET Blocks, NEW b \in Blocks \ S
  PROVE  /\ IsFiniteSet(BytesOf(S)) /\ Cardinality(BytesOf(S)) \in Nat
         /\ Cardinality(BytesOf(S \cup {b})) = Cardinality(BytesOf(S)) + hdr[b].size
         /\ Cardinality(BytesOf(S \cup {b})) <= HeapLimit - ucHeap
  <1> DEFINE own == b..(End(b) - 1)
             heap == ucHeap..(HeapLimit - 1)
  <1>1. /\ b \in Nat /\ End(b) \in Nat /\ b < End(b) /\ ucHeap <= b /\ End(b) <= HeapLimit
        /\ hdr[b].size \in Nat /\ End(b) = b + hdr[b].size
    BY BlockFacts
  <1>2. IsFiniteSet(heap) /\ Cardinality(heap) = HeapLimit - ucHeap
    BY Placement, FS_Interval
  <1>3. IsFiniteSet(own) /\ Cardinality(own) = hdr[b].size
    <2>1. b \in Int /\ End(b) - 1 \in Int /\ ~(b > End(b) - 1) /\ End(b) - 1 - b + 1 = hdr[b].size
      BY <1>1
    <2> QED
      BY <2>1, FS_Interval
  <1>4. BytesOf(S) \in SUBSET heap /\ BytesOf(S \cup {b}) \in SUBSET heap
    BY DEF BytesOf
  <1>5. BytesOf(S \cup {b}) = BytesOf(S) \cup own
    <2>1. \A a \in heap : a \in own <=> b <= a /\ a < b + hdr[b].size
      BY <1>1, Placement
    <2>2. \A a \in own : a \in heap
      BY <1>1, Placement
    <2> HIDE DEF own
    <2> QED
      BY <2>1, <2>2 DEF BytesOf
  <1>6. BytesOf(S) \cap own = {}
    <2> SUFFICES ASSUME NEW a \in own, NEW c \in S, c <= a, a < c + hdr[c].size PROVE FALSE
      BY DEF BytesOf
    <2>1. c \in Blocks /\ c # b
      OBVIOUS
    <2>2. c \in Nat /\ End(c) \in Nat /\ End(c) = c + hdr[c].size
      BY <2>1, BlockFacts
    <2>3. (b < c => End(b) <= c) /\ (c < b => End(c) <= b)
      BY <2>1 DEF Tiled
    <2> QED
      BY <1>1, <2>1, <2>2, <2>3
  <1> HIDE DEF own, heap
  <1>7. IsFiniteSet(BytesOf(S)) /\ Cardinality(BytesOf(S)) \in Nat
    BY <1>2, <1>4, FS_Subset, FS_CardinalityType
  <1>8. Cardinality(BytesOf(S) \cap own) = 0
    BY <1>6, FS_EmptySet
  <1>9. Cardinality(BytesOf(S) \cup own) = Cardinality(BytesOf(S)) + Cardinality(own)
    <2>1. Cardinality(BytesOf(S) \cup own) = Cardinality(BytesOf(S)) + Cardinality(own) - Cardinality(BytesOf(S) \cap own)
      BY <1>3, <1>7, FS_Union
    <2> QED
      BY <1>1, <1>3, <1>7, <1>8, <2>1
  <1>10. Cardinality(BytesOf(S \cup {b})) <= HeapLimit - ucHeap
    BY <1>2, <1>4, FS_Subset
  <1> QED
    BY <1>3, <1>5, <1>7, <1>9, <1>10

\* The block found becomes the program's.
LEMMA MallocReturnsStep == ASSUME Heap4Inv, MallocReturns PROVE Heap4Inv'
  <1>1. /\ pc = "taken" /\ pc' = "idle" /\ pxBlock' = NULL /\ pxBlockToInsert' = pxBlockToInsert
        /\ xFreeBytesRemaining' = Minus(xFreeBytesRemaining, hdr[pxBlock].size)
        /\ hdr' = [hdr EXCEPT ![pxBlock].next = NULL]
        /\ live' = With(live, Plus(pxBlock, HEADER_SIZE), request)
    BY DEF MallocReturns, ClearLocals, walk, Charge
  <1>2. /\ pxBlockToInsert = NULL /\ MallocInHand /\ pxBlock \in Blocks \ Allocated
        /\ request \in Request \ {0} /\ request + HEADER_SIZE <= hdr[pxBlock].size
    BY <1>1 DEF Heap4Inv, Places, MallocInHand
  <1>3. /\ pxBlock \in Nat \ {0} /\ pxBlock \in DOMAIN hdr /\ pxBlock # xStart /\ pxBlock # xEnd
        /\ hdr[pxBlock].size \in Nat /\ End(pxBlock) < AddrMod /\ End(pxBlock) = pxBlock + hdr[pxBlock].size
        /\ request \in Nat \ {0}
    BY <1>2, BlockFacts, AdjustedIs DEF Heap4Inv
  <1>4. Plus(pxBlock, HEADER_SIZE) = pxBlock + HEADER_SIZE
    <2>1. pxBlock + HEADER_SIZE < AddrMod
      BY <1>2, <1>3, Placement
    <2> QED
      BY <1>3, <2>1, PlusIs
  <1>5. /\ DOMAIN hdr' = DOMAIN hdr /\ hdr' \in [DOMAIN hdr -> [next : Nat, size : Nat]]
        /\ \A a \in DOMAIN hdr : hdr'[a].size = hdr[a].size /\ (a # pxBlock => hdr'[a].next = hdr[a].next)
    <2>1. hdr \in [DOMAIN hdr -> [next : Nat, size : Nat]]
      BY DEF Heap4Inv, Headers
    <2> QED
      BY <1>1, <1>3, <2>1
  <1>6. Blocks' = Blocks /\ \A b \in Blocks : b \in DOMAIN hdr
    BY <1>5 DEF Blocks
  <1> DEFINE pv == pxBlock + HEADER_SIZE
  <1>7. /\ DOMAIN live' = DOMAIN live \cup {pv} /\ live'[pv] = request /\ pv - HEADER_SIZE = pxBlock /\ pv \in Nat
        /\ \A p \in DOMAIN live : p # pv => live'[p] = live[p]
    BY <1>1, <1>3, <1>4 DEF With
  <1>8. Allocated' = Allocated \cup {pxBlock}
    <2> HIDE DEF pv
    <2> QED
      BY <1>7 DEF Allocated
  <1>9. Listed' = Listed
    BY <1>1, <1>2, <1>3, <1>6, <1>8 DEF Listed, InHand
  <1>10. \A b \in Listed : b # pxBlock /\ b \in DOMAIN hdr
    BY <1>1, <1>2, <1>3 DEF Listed, InHand, Blocks
  <1>11. Headers'
    BY <1>3, <1>5 DEF Heap4Inv, Headers
  <1>12. Tiled'
    BY <1>5, <1>6 DEF Heap4Inv, Tiled, End
  <1>13. Sorted'
    <2>1. \A b \in Listed \cup {xStart} : hdr'[b].next = hdr[b].next
      BY <1>3, <1>5, <1>10 DEF Heap4Inv, Headers
    <2> QED
      BY <1>9, <2>1 DEF Heap4Inv, Sorted, After
  <1>14. Coalesced'
    BY <1>5, <1>9, <1>10 DEF Heap4Inv, Coalesced, End
  <1>15. Held'
    <2>1. ASSUME NEW p \in DOMAIN live'
          PROVE  live'[p] \in Nat \ {0} /\ live'[p] + HEADER_SIZE <= hdr'[p - HEADER_SIZE].size
      <3>1. CASE p = pv
        BY <1>2, <1>3, <1>5, <1>7, <3>1
      <3>2. CASE p # pv
        <4>1. p \in DOMAIN live /\ live'[p] = live[p]
          BY <1>7, <2>1, <3>2
        <4>2. p - HEADER_SIZE \in Blocks
          BY <4>1 DEF Heap4Inv, Held, Allocated
        <4>3. hdr'[p - HEADER_SIZE].size = hdr[p - HEADER_SIZE].size
          BY <1>5, <1>6, <4>2
        <4> QED
          BY <4>1, <4>3 DEF Heap4Inv, Held
      <3> QED
        BY <3>1, <3>2
    <2>2. DOMAIN live' \subseteq Nat /\ Allocated' \subseteq Blocks'
      BY <1>2, <1>6, <1>7, <1>8 DEF Heap4Inv, Held
    <2> QED
      BY <2>1, <2>2 DEF Held
  <1>16. Places'
    BY <1>1, <1>2 DEF Places
  <1>17. Counted'
    <2>1. BytesOf(Allocated)' = BytesOf(Allocated \cup {pxBlock})
      <3>1. \A b \in Allocated \cup {pxBlock} : hdr'[b].size = hdr[b].size
        BY <1>2, <1>5, <1>6 DEF Heap4Inv, Held
      <3> QED
        BY <1>8, <3>1 DEF BytesOf
    <2>2. /\ Cardinality(BytesOf(Allocated)) \in Nat
          /\ Cardinality(BytesOf(Allocated \cup {pxBlock})) = Cardinality(BytesOf(Allocated)) + hdr[pxBlock].size
          /\ Cardinality(BytesOf(Allocated \cup {pxBlock})) <= HeapLimit - ucHeap
      <3>1. Allocated \in SUBSET Blocks
        BY DEF Heap4Inv, Held
      <3> QED
        BY <1>2, <3>1, BytesAdd DEF Heap4Inv
    <2>3. /\ xFreeBytesRemaining \in Nat
          /\ xFreeBytesRemaining + Cardinality(BytesOf(Allocated)) = HeapLimit - ucHeap
      BY DEF Heap4Inv, Counted
    <2>4. hdr[pxBlock].size <= xFreeBytesRemaining /\ xFreeBytesRemaining < AddrMod
      BY <1>3, <2>2, <2>3, Placement
    <2>5. xFreeBytesRemaining' = xFreeBytesRemaining - hdr[pxBlock].size
      BY <1>1, <1>3, <2>3, <2>4, MinusIs
    <2> QED
      BY <1>3, <2>1, <2>2, <2>3, <2>4, <2>5, Placement DEF Counted
  <1> QED
    BY <1>11, <1>12, <1>13, <1>14, <1>15, <1>16, <1>17 DEF Heap4Inv

\* A block the program gives back is in hand until it is inserted.
LEMMA FreeCallStep ==
  ASSUME Heap4Inv, NEW pv \in DOMAIN live, FreeCall(pv) PROVE Heap4Inv'
  <1> DEFINE b == pv - HEADER_SIZE
  <1>0. /\ pv \in Nat /\ b \in Allocated /\ b \in Blocks /\ Allocated \in SUBSET Blocks
        /\ \A p \in DOMAIN live : p \in Nat
    BY DEF Heap4Inv, Held, Allocated
  <1>1. /\ b \in Nat \ {0} /\ b + HEADER_SIZE = pv /\ hdr[b].size \in Nat
        /\ ucHeap <= b /\ b < HeapLimit
    BY <1>0, BlockFacts DEF Heap4Inv
  <1>2. Minus(pv, HEADER_SIZE) = b
    <2>1. pv < AddrMod
      BY <1>1, Placement, Heap4Assumption DEF HeapLimit
    <2> QED
      BY <1>0, <1>1, <2>1, MinusIs
  <1>3. /\ pc = "idle" /\ pc' = "insert" /\ pxBlock' = pxBlock /\ hdr' = hdr
        /\ xFreeBytesRemaining' = Plus(xFreeBytesRemaining, hdr[b].size)
        /\ pxBlockToInsert' = b /\ pxIterator' = xStart /\ live' = WithoutKey(live, pv)
    BY <1>2 DEF FreeCall, locals
  <1> HIDE DEF b
  <1>4. pxBlock = NULL /\ pxBlockToInsert = NULL
    BY <1>3 DEF Heap4Inv, Places
  <1>5. DOMAIN live' = DOMAIN live \ {pv} /\ \A p \in DOMAIN live' : live'[p] = live[p]
    BY <1>3 DEF WithoutKey
  <1>6. Allocated' = Allocated \ {b}
    <2>1. \A p \in DOMAIN live : p - HEADER_SIZE = b <=> p = pv
      BY <1>0, <1>1 DEF b
    <2> QED
      BY <1>5, <2>1 DEF Allocated
  <1>7. Blocks' = Blocks
    BY <1>3 DEF Blocks
  <1>8. Listed' = Listed
    BY <1>0, <1>1, <1>3, <1>4, <1>6, <1>7 DEF Listed, InHand
  <1>9. Headers' /\ Tiled'
    BY <1>3, <1>7 DEF Heap4Inv, Headers, Tiled, End
  <1>10. Sorted' /\ Coalesced'
    BY <1>3, <1>8 DEF Heap4Inv, Sorted, After, Coalesced, End
  <1>11. Held'
    BY <1>0, <1>3, <1>5, <1>6, <1>7 DEF Heap4Inv, Held
  <1>12. Places'
    BY <1>0, <1>1, <1>3, <1>4, <1>6, <1>7 DEF Places
  <1>13. Counted'
    <2> DEFINE S == Allocated \ {b}
    <2>1. BytesOf(Allocated)' = BytesOf(S)
      BY <1>3, <1>6 DEF BytesOf
    <2>2. S \cup {b} = Allocated /\ S \in SUBSET Blocks /\ b \in Blocks \ S
      BY <1>0
    <2> HIDE DEF S
    <2>3. /\ Cardinality(BytesOf(S)) \in Nat
          /\ Cardinality(BytesOf(Allocated)) = Cardinality(BytesOf(S)) + hdr[b].size
      BY <2>2, BytesAdd DEF Heap4Inv
    <2>4. /\ xFreeBytesRemaining \in Nat
          /\ xFreeBytesRemaining + Cardinality(BytesOf(Allocated)) = HeapLimit - ucHeap
      BY DEF Heap4Inv, Counted
    <2>5. xFreeBytesRemaining + hdr[b].size < AddrMod
      BY <1>1, <2>3, <2>4, Placement
    <2>6. xFreeBytesRemaining' = xFreeBytesRemaining + hdr[b].size
      BY <1>1, <1>3, <2>4, <2>5, PlusIs
    <2> QED
      BY <1>1, <2>1, <2>3, <2>4, <2>6, Placement DEF Counted
  <1> QED
    BY <1>9, <1>10, <1>11, <1>12, <1>13 DEF Heap4Inv

-----------------------------------------------------------------------------
(* Inserting a block                                                       *)

\* The block to insert, its place in the list and what it is merged with.
MergedBefore == pxIterator \in Listed /\ End(pxIterator) = pxBlockToInsert
MergedAfter == End(pxBlockToInsert) = hdr[pxIterator].next
MergedStart == IF MergedBefore THEN pxIterator ELSE pxBlockToInsert
MergedEnd == IF MergedAfter THEN End(hdr[pxIterator].next) ELSE End(pxBlockToInsert)
MergedNext == IF MergedAfter THEN hdr[hdr[pxIterator].next].next ELSE hdr[pxIterator].next
MergedGone ==
  {a \in {pxBlockToInsert} : MergedBefore} \cup {a \in {hdr[pxIterator].next} : MergedAfter}

\* Where the walk has ended.
LEMMA WalkEnds ==
  ASSUME Heap4Inv, InsertLink
  PROVE  /\ pc = "insert" /\ pxBlockToInsert \in Blocks \ Allocated /\ pxBlockToInsert \notin Listed
         /\ pxBlockToInsert # pxBlock
         /\ pxIterator \in Listed \cup {xStart} /\ (pxIterator # xStart => pxIterator < pxBlockToInsert)
         /\ hdr[pxIterator].next \in Listed \cup {xEnd} /\ hdr[pxIterator].next \in Nat
         /\ pxBlockToInsert < hdr[pxIterator].next
         /\ \A c \in Listed : After(pxIterator, c) => hdr[pxIterator].next <= c
         /\ \A c \in Listed : c < pxBlockToInsert => pxIterator # xStart /\ c <= pxIterator
         /\ \A c \in Listed : pxBlockToInsert < c => hdr[pxIterator].next <= c
  <1>1. /\ pc = "insert" /\ pxBlockToInsert \in Blocks \ Allocated /\ pxBlockToInsert # pxBlock
        /\ pxIterator \in Listed \cup {xStart} /\ (pxIterator # xStart => pxIterator < pxBlockToInsert)
        /\ ~(hdr[pxIterator].next < pxBlockToInsert)
    BY DEF Heap4Inv, Places, InsertLink
  <1>2. /\ pxBlockToInsert \in Nat \ {0} /\ pxBlockToInsert # xEnd
        /\ \A c \in Listed : c \in Nat /\ c # xStart
    BY <1>1, BlockFacts DEF Heap4Inv, Listed
  <1>3. pxBlockToInsert \notin Listed
    BY <1>1, <1>2 DEF Listed, InHand
  <1>4. /\ hdr[pxIterator].next \in Listed \cup {xEnd} /\ hdr[pxIterator].next \in Nat
        /\ \A c \in Listed : After(pxIterator, c) => hdr[pxIterator].next <= c
    BY <1>1, ListFacts DEF Heap4Inv
  <1>5. pxBlockToInsert < hdr[pxIterator].next
    BY <1>1, <1>2, <1>3, <1>4
  <1>6. ASSUME NEW c \in Listed, c < pxBlockToInsert PROVE pxIterator # xStart /\ c <= pxIterator
    <2>1. ~After(pxIterator, c)
      BY <1>2, <1>4, <1>5, <1>6
    <2> QED
      BY <1>1, <1>2, <2>1 DEF After
  <1>7. ASSUME NEW c \in Listed, pxBlockToInsert < c PROVE hdr[pxIterator].next <= c
    BY <1>1, <1>2, <1>4, <1>7 DEF After
  <1> QED
    BY <1>1, <1>3, <1>4, <1>5, <1>6, <1>7

\* What the merging computes.
LEMMA InsertedIs ==
  ASSUME Heap4Inv, InsertLink
  PROVE  /\ MergedAfter => hdr[pxIterator].next \in Listed
         /\ MergedStart \in DOMAIN hdr \ MergedGone
         /\ DOMAIN hdr' = DOMAIN hdr \ MergedGone
         /\ hdr' \in [DOMAIN hdr \ MergedGone -> [next : Nat, size : Nat]]
         /\ hdr'[MergedStart].next = MergedNext
         /\ MergedStart + hdr'[MergedStart].size = MergedEnd
         /\ \A a \in DOMAIN hdr \ MergedGone :
              a # MergedStart =>
                /\ hdr'[a].size = hdr[a].size
                /\ hdr'[a].next = IF a = pxIterator THEN MergedStart ELSE hdr[a].next
  <1> DEFINE it == pxIterator
             ins == pxBlockToInsert
             nxt == hdr[it].next
             before == Adjoins(it, ins)
             start == IF before THEN it ELSE ins
             grown == IF before THEN Plus(hdr[it].size, hdr[ins].size) ELSE hdr[ins].size
             absorbs == Absorbs(Plus(start, grown), nxt)
             size == IF absorbs THEN Plus(grown, hdr[nxt].size) ELSE grown
             next == Successor(absorbs, nxt)
             gone == (IF before THEN {ins} ELSE {}) \cup (IF absorbs THEN {nxt} ELSE {})
  <1>0. hdr' = [a \in DOMAIN hdr \ gone |->
                  CASE a = start -> [next |-> next, size |-> size]
                    [] a = it /\ ~before -> [hdr[a] EXCEPT !.next = start]
                    [] OTHER -> hdr[a]]
    BY DEF InsertLink, Inserted
  <1>1. /\ it \in Listed \cup {xStart} /\ ins \in Blocks /\ ins \notin Listed
        /\ nxt \in Listed \cup {xEnd} /\ ins < nxt /\ nxt \in Nat /\ (it # xStart => it < ins)
    BY WalkEnds
  <1>2. /\ ins \in Nat /\ ins \in DOMAIN hdr /\ ins # xStart /\ ins # xEnd /\ hdr[ins].size \in Nat
        /\ End(ins) = ins + hdr[ins].size /\ End(ins) \in Nat /\ End(ins) < AddrMod /\ End(ins) < xEnd
    BY <1>1, BlockFacts, Placement DEF Heap4Inv
  <1>3. \A c \in Listed : /\ c \in Blocks /\ c \in Nat /\ c \in DOMAIN hdr /\ c # xStart /\ c # xEnd
                           /\ hdr[c].size \in Nat /\ End(c) = c + hdr[c].size /\ End(c) < AddrMod /\ End(c) \in Nat
    BY BlockFacts DEF Heap4Inv, Listed
  <1>4. hdr[xStart].size = 0 /\ xStart \in DOMAIN hdr /\ xStart \in Nat /\ xStart < AddrMod
    BY Placement DEF Heap4Inv, Headers
  <1>5. before <=> MergedBefore
    <2>1. CASE it = xStart
      <3>1. Plus(xStart, 0) = xStart
        BY <1>4, PlusIs
      <3> QED
        BY <1>2, <1>3, <1>4, <2>1, <3>1 DEF MergedBefore, Adjoins
    <2>2. CASE it \in Listed
      <3>1. Plus(it, hdr[it].size) = End(it)
        BY <1>3, <2>2, PlusIs
      <3> QED
        BY <2>2, <3>1 DEF MergedBefore, Adjoins
    <2> QED
      BY <1>1, <2>1, <2>2
  <1> HIDE DEF before
  <1>6. start = MergedStart /\ start \in Nat /\ start \in DOMAIN hdr
    BY <1>1, <1>2, <1>3, <1>5 DEF MergedStart, MergedBefore
  <1>7. grown \in Nat /\ start + grown = End(ins)
    <2>1. CASE before
      <3>1. it \in Listed /\ it + hdr[it].size = ins
        BY <1>3, <1>5, <2>1 DEF MergedBefore
      <3>2. hdr[it].size \in Nat /\ it \in Nat
        BY <1>3, <3>1
      <3>3. hdr[it].size + hdr[ins].size < AddrMod
        BY <1>2, <3>1, <3>2, Placement
      <3>4. Plus(hdr[it].size, hdr[ins].size) = hdr[it].size + hdr[ins].size
        BY <1>2, <3>2, <3>3, PlusIs
      <3> QED
        BY <1>2, <2>1, <3>1, <3>2, <3>4
    <2>2. CASE ~before
      BY <1>2, <2>2
    <2> QED
      BY <2>1, <2>2
  <1> HIDE DEF grown, start
  <1>8. Plus(start, grown) = End(ins)
    BY <1>2, <1>6, <1>7, PlusIs
  <1>9. (absorbs <=> MergedAfter) /\ (absorbs => nxt \in Listed)
    BY <1>1, <1>2, <1>8 DEF MergedAfter, Absorbs
  <1> HIDE DEF absorbs
  <1>10. size \in Nat /\ start + size = MergedEnd
    <2>1. CASE absorbs
      <3>1. nxt \in Listed /\ nxt = start + grown /\ nxt + hdr[nxt].size = End(nxt)
            /\ hdr[nxt].size \in Nat /\ End(nxt) < AddrMod /\ MergedEnd = End(nxt)
        BY <1>3, <1>7, <1>9, <2>1 DEF MergedAfter, MergedEnd
      <3>2. grown + hdr[nxt].size < AddrMod
        BY <1>6, <1>7, <3>1, Placement
      <3>3. Plus(grown, hdr[nxt].size) = grown + hdr[nxt].size
        BY <1>7, <3>1, <3>2, PlusIs
      <3> QED
        BY <1>6, <1>7, <2>1, <3>1, <3>3
    <2>2. CASE ~absorbs
      BY <1>7, <1>9, <2>2 DEF MergedEnd
    <2> QED
      BY <2>1, <2>2
  <1>11. next = MergedNext /\ next \in Nat
    <2>1. absorbs => hdr[nxt].next \in Nat
      BY <1>9, ListFacts DEF Heap4Inv
    <2> QED
      BY <1>1, <1>9, <2>1 DEF MergedNext, Successor
  <1>12. gone = MergedGone
    BY <1>5, <1>9 DEF MergedGone
  <1>13. start \notin gone
    BY <1>1, <1>2, <1>3, <1>5, <1>9 DEF MergedBefore, start
  <1> HIDE DEF size, next, gone
  <1>14. hdr \in [DOMAIN hdr -> [next : Nat, size : Nat]]
    BY DEF Heap4Inv, Headers
  <1>15. [next |-> next, size |-> size] \in [next : Nat, size : Nat]
    BY <1>10, <1>11
  <1>16. ~before => start # it
    BY <1>1, <1>2 DEF start
  <1>17. before => start = it
    BY DEF start
  <1>18. /\ DOMAIN hdr' = DOMAIN hdr \ gone
         /\ hdr'[start] = [next |-> next, size |-> size]
    <2>1. DOMAIN hdr' = DOMAIN hdr \ gone
      BY <1>0
    <2>2. start \in DOMAIN hdr \ gone
      BY <1>6, <1>13
    <2>3. hdr'[start] = CASE start = start -> [next |-> next, size |-> size]
                          [] start = it /\ ~before -> [hdr[start] EXCEPT !.next = start]
                          [] OTHER -> hdr[start]
      BY <1>0, <2>2
    <2> QED
      BY <1>16, <2>1, <2>3
  <1>19. ASSUME NEW a \in DOMAIN hdr \ gone, a # start
         PROVE  /\ hdr'[a] \in [next : Nat, size : Nat]
                /\ hdr'[a].size = hdr[a].size
                /\ hdr'[a].next = IF a = it THEN start ELSE hdr[a].next
    <2>1. hdr'[a] = IF a = it THEN [hdr[a] EXCEPT !.next = start] ELSE hdr[a]
      BY <1>0, <1>17, <1>19
    <2>2. hdr[a] \in [next : Nat, size : Nat]
      BY <1>14, <1>19
    <2> QED
      BY <1>6, <2>1, <2>2
  <1>20. hdr' \in [DOMAIN hdr \ gone -> [next : Nat, size : Nat]]
    BY <1>0, <1>15, <1>18, <1>19
  <1> QED
    BY <1>6, <1>9, <1>10, <1>11, <1>12, <1>13, <1>18, <1>19, <1>20

\* The block is linked in, merged with the free blocks it touches.
LEMMA InsertLinkStep == ASSUME Heap4Inv, InsertLink PROVE Heap4Inv'
  <1> DEFINE it == pxIterator
             ins == pxBlockToInsert
             nxt == hdr[it].next
             start == MergedStart
             gone == MergedGone
             EndAfter(b) == b + hdr'[b].size
  <1>1. /\ pc = "insert" /\ ins \in Blocks \ Allocated /\ ins \notin Listed /\ ins # pxBlock
        /\ it \in Listed \cup {xStart} /\ (it # xStart => it < ins)
        /\ nxt \in Listed \cup {xEnd} /\ nxt \in Nat /\ ins < nxt
        /\ \A c \in Listed : After(it, c) => nxt <= c
        /\ \A c \in Listed : c < ins => it # xStart /\ c <= it
        /\ \A c \in Listed : ins < c => nxt <= c
    BY WalkEnds
  <1>2. /\ MergedAfter => nxt \in Listed
        /\ start \in DOMAIN hdr \ gone
        /\ DOMAIN hdr' = DOMAIN hdr \ gone
        /\ hdr' \in [DOMAIN hdr \ gone -> [next : Nat, size : Nat]]
        /\ hdr'[start].next = MergedNext
        /\ EndAfter(start) = MergedEnd
        /\ \A a \in DOMAIN hdr \ gone :
             a # start => /\ hdr'[a].size = hdr[a].size
                          /\ hdr'[a].next = IF a = it THEN start ELSE hdr[a].next
    BY InsertedIs
  <1>3. /\ \A b \in Blocks : /\ b \in Nat /\ b \in DOMAIN hdr /\ b # 0 /\ b # xStart /\ b # xEnd /\ b < xEnd
                             /\ b < HeapLimit /\ ucHeap <= b
                             /\ End(b) \in Nat /\ b < End(b) /\ End(b) <= HeapLimit
                             /\ End(b) \in Blocks \cup {HeapLimit} /\ End(b) = b + hdr[b].size
        /\ \A b, c \in Blocks : b < c => End(b) <= c
        /\ ucHeap \in Blocks
    <2>1. /\ \A b, c \in Blocks : b < c => End(b) <= c
          /\ ucHeap \in Blocks /\ \A b \in Blocks : End(b) \in Blocks \cup {HeapLimit}
      BY DEF Heap4Inv, Tiled
    <2>2. Tiled
      BY DEF Heap4Inv
    <2> QED
      BY <2>1, <2>2, BlockFacts
  <1>4. /\ \A c \in Listed : c \in Blocks /\ c \notin Allocated /\ c # pxBlock /\ End(c) \notin Listed
        /\ \A b \in Blocks : b \in Listed \/ b \in Allocated \/ b = ins \/ b = pxBlock
        /\ \A b \in Allocated : b \in Blocks
    <2>1. \A c \in Listed : c \in Blocks /\ c \notin Allocated /\ c # pxBlock
      BY <1>1, <1>3 DEF Listed, InHand
    <2>2. \A b \in Blocks : b \in Listed \/ b \in Allocated \/ b = ins \/ b = pxBlock
      BY <1>1 DEF Listed, InHand
    <2> QED
      BY <2>1, <2>2 DEF Heap4Inv, Coalesced, Held
  <1>5. /\ start = IF MergedBefore THEN it ELSE ins
        /\ MergedBefore => it \in Listed /\ End(it) = ins
        /\ it \in Listed /\ End(it) = ins => MergedBefore
        /\ MergedAfter <=> End(ins) = nxt
        /\ MergedEnd = IF MergedAfter THEN End(nxt) ELSE End(ins)
        /\ MergedNext = IF MergedAfter THEN hdr[nxt].next ELSE nxt
    BY DEF MergedBefore, MergedAfter, MergedStart, MergedEnd, MergedNext
  <1>6. \A a : a \in gone <=> (a = ins /\ MergedBefore) \/ (a = nxt /\ MergedAfter)
    BY DEF MergedGone
  <1> HIDE DEF it, ins, nxt, start, gone
  <1>7. Blocks' = Blocks \ gone /\ start \in Blocks'
    <2>1. start \in Blocks
      BY <1>1, <1>4, <1>5
    <2> QED
      BY <1>2, <2>1 DEF Blocks
  <1>8. \A b \in Blocks' : b # start => EndAfter(b) = End(b)
    BY <1>2, <1>3, <1>7
  <1> HIDE DEF EndAfter
  <1>9. MergedEnd \in Nat /\ ins < MergedEnd /\ start <= ins /\ start \in Nat /\ MergedEnd <= HeapLimit
    BY <1>1, <1>2, <1>3, <1>4, <1>5
  <1>10. Tiled'
    <2>1. ASSUME NEW b \in Blocks', NEW c \in Blocks', b < c PROVE EndAfter(b) <= c
      <3>0. b \in Blocks /\ c \in Blocks /\ c \notin gone /\ b \notin gone
        BY <1>7
      <3>1. CASE b # start
        BY <1>3, <1>8, <2>1, <3>0, <3>1
      <3>2. CASE b = start
        <4>1. ins < c
          <5>1. CASE MergedBefore
            <6>0. c # ins
              BY <1>6, <3>0, <5>1
            <6>1. it \in Blocks /\ it < c /\ End(it) = ins
              BY <1>4, <1>5, <2>1, <3>2, <5>1
            <6>2. End(it) <= c
              BY <1>3, <3>0, <6>1
            <6> QED
              BY <1>1, <1>3, <3>0, <6>0, <6>1, <6>2
          <5>2. CASE ~MergedBefore
            BY <1>5, <2>1, <3>2, <5>2
          <5> QED
            BY <5>1, <5>2
        <4>2. End(ins) <= c
          BY <1>1, <1>3, <3>0, <4>1
        <4>3. CASE MergedAfter
          <5>1. nxt \in Blocks /\ nxt < c
            <6>1. nxt \in Blocks /\ c # nxt /\ End(ins) = nxt
              BY <1>2, <1>4, <1>5, <1>6, <3>0, <4>3
            <6> QED
              BY <1>3, <3>0, <4>2, <6>1
          <5> QED
            BY <1>2, <1>3, <1>5, <3>0, <3>2, <4>3, <5>1
        <4>4. CASE ~MergedAfter
          BY <1>2, <1>5, <3>2, <4>2, <4>4
        <4> QED
          BY <4>3, <4>4
      <3> QED
        BY <3>1, <3>2
    <2>2. ASSUME NEW b \in Blocks' PROVE EndAfter(b) \in Blocks' \cup {HeapLimit}
      <3>0. b \in Blocks /\ b \notin gone
        BY <1>7
      <3>1. CASE b # start
        <4>1. End(b) \in Blocks \cup {HeapLimit} /\ EndAfter(b) = End(b)
          BY <1>3, <1>8, <3>0, <3>1
        <4>2. ASSUME End(b) = ins, MergedBefore PROVE FALSE
          <5>1. it \in Blocks /\ End(it) = ins /\ it # b
            BY <1>4, <1>5, <3>1, <4>2
          <5> QED
            BY <1>3, <3>0, <4>2, <5>1
        <4>3. ASSUME End(b) = nxt, MergedAfter PROVE FALSE
          <5>1. ins \in Blocks /\ End(ins) = nxt /\ ins # b
            BY <1>1, <1>5, <1>6, <3>0, <3>1, <4>3
          <5> QED
            BY <1>3, <3>0, <4>3, <5>1
        <4> QED
          BY <1>6, <1>7, <4>1, <4>2, <4>3
      <3>2. CASE b = start
        <4>1. MergedEnd \in Blocks \cup {HeapLimit}
          BY <1>1, <1>2, <1>3, <1>4, <1>5
        <4>2. MergedEnd # ins /\ (MergedAfter => MergedEnd # nxt)
          BY <1>1, <1>2, <1>3, <1>4, <1>5, <1>9
        <4> QED
          BY <1>2, <1>6, <1>7, <3>2, <4>1, <4>2
      <3> QED
        BY <3>1, <3>2
    <2>3. ASSUME NEW b \in Blocks' PROVE b \in ucHeap..(HeapLimit - 1) /\ hdr'[b].size \in Nat \ {0}
      <3>1. b \in Blocks /\ b \in DOMAIN hdr \ gone /\ b \in Nat
        BY <1>3, <1>7
      <3>2. hdr'[b].size \in Nat
        BY <1>2, <3>1
      <3>3. b < EndAfter(b)
        <4>1. CASE b = start
          BY <1>1, <1>2, <1>3, <1>9, <4>1
        <4>2. CASE b # start
          BY <1>3, <1>8, <3>1, <4>2
        <4> QED
          BY <4>1, <4>2
      <3> QED
        BY <1>3, <3>1, <3>2, <3>3, Placement DEF EndAfter
    <2>4. ucHeap \in Blocks'
      <3>1. ucHeap # nxt
        BY <1>1, <1>3, Placement
      <3>2. MergedBefore => ucHeap # ins
        BY <1>1, <1>3, <1>4, <1>5, Placement
      <3> QED
        BY <1>3, <1>6, <1>7, <3>1, <3>2
    <2> QED
      BY <2>1, <2>2, <2>3, <2>4 DEF Tiled, End, EndAfter
  <1>11. Headers'
    BY <1>1, <1>2, <1>3, <1>4, <1>6, <1>7, Placement DEF Heap4Inv, Headers, Blocks
  <1>12. Held' /\ Counted' /\ Allocated' = Allocated
    <2>1. live' = live /\ xFreeBytesRemaining' = xFreeBytesRemaining
      BY DEF InsertLink
    <2>2. ASSUME NEW b \in Allocated PROVE b \in Blocks' /\ b # start
      <3>1. b \in Blocks /\ b \notin Listed /\ b # ins
        BY <1>1, <1>4
      <3>2. b \notin gone
        BY <1>2, <1>6, <3>1
      <3>3. b # start
        BY <1>5, <3>1
      <3> QED
        BY <1>7, <3>1, <3>2, <3>3
    <2>3. \A b \in Allocated : b \in Blocks' /\ hdr'[b].size = hdr[b].size
      BY <1>2, <1>3, <1>4, <1>7, <2>2
    <2> QED
      BY <2>1, <2>3, SameHeld
  <1>13. /\ pc' = IF pxBlock = NULL THEN "idle" ELSE "taken"
         /\ pxBlockToInsert' = NULL /\ pxBlock' = pxBlock
         /\ request' = request /\ xWantedSize' = xWantedSize
    BY DEF InsertLink, locals
  <1>14. \A b : b \in Listed' <=> (b \in Listed /\ b \notin gone) \/ b = start
    <2>1. InHand' = {pxBlock} \ {NULL}
      BY <1>13 DEF InHand
    <2>2. \A b : b \in Listed' <=> b \in Blocks /\ b \notin gone /\ b \notin Allocated /\ b # pxBlock
      BY <1>3, <1>7, <1>12, <2>1 DEF Listed
    <2>3. start \in Blocks /\ start \notin gone /\ start \notin Allocated /\ start # pxBlock
      BY <1>1, <1>4, <1>5, <1>7
    <2>4. ins \notin gone => start = ins
      BY <1>5, <1>6
    <2> QED
      BY <1>1, <1>4, <2>2, <2>3, <2>4
  <1> DEFINE AfterNow(b, c) == c \in Listed' /\ (b = xStart \/ b < c)
  <1>15. ASSUME NEW c \in Listed', start < c
         PROVE  c \in Listed /\ nxt <= c /\ (MergedAfter => c # nxt)
    <2>1. c # start
      BY <1>9, <1>15
    <2>2. c \in Listed /\ c \notin gone /\ c \in Nat
      BY <1>3, <1>4, <1>14, <2>1
    <2>3. nxt <= c
      <3>1. CASE MergedBefore
        BY <1>1, <1>5, <1>15, <2>2, <3>1 DEF After
      <3>2. CASE ~MergedBefore
        BY <1>1, <1>5, <1>15, <2>2, <3>2
      <3> QED
        BY <3>1, <3>2
    <2> QED
      BY <1>6, <2>2, <2>3
  <1>16. \A b \in Listed \cup {xStart} :
           /\ hdr[b].next \in Listed \cup {xEnd} /\ hdr[b].next \in Nat
           /\ b # xStart => b < hdr[b].next
           /\ \A c \in Listed : After(b, c) => hdr[b].next <= c
    BY ListFacts DEF Heap4Inv
  <1>17. ASSUME NEW b \in Listed' \cup {xStart}
         PROVE  /\ hdr'[b].next = xEnd \/ AfterNow(b, hdr'[b].next)
                /\ \A c \in Listed' : AfterNow(b, c) => hdr'[b].next <= c
    <2>1. CASE b = start
      <3>0. start # xStart
        BY <1>3, <1>7
      <3>1. CASE MergedAfter
        <4>1. hdr'[b].next = hdr[nxt].next /\ nxt \in Listed /\ nxt # xStart /\ nxt \in Nat
          BY <1>2, <1>3, <1>4, <1>5, <2>1, <3>1
        <4>2. /\ hdr[nxt].next \in Listed \cup {xEnd} /\ nxt < hdr[nxt].next /\ hdr[nxt].next \in Nat
              /\ \A c \in Listed : After(nxt, c) => hdr[nxt].next <= c
          BY <1>16, <4>1
        <4>3. hdr[nxt].next \in Listed => hdr[nxt].next \notin gone
          BY <1>1, <1>6, <4>1, <4>2
        <4>4. start < hdr[nxt].next
          BY <1>1, <1>3, <1>9, <4>1, <4>2
        <4>5. ASSUME NEW c \in Listed', AfterNow(b, c) PROVE hdr[nxt].next <= c
          <5>1. c \in Listed /\ nxt <= c /\ c # nxt
            BY <1>15, <2>1, <3>0, <3>1, <4>5
          <5>2. nxt < c
            BY <1>3, <1>4, <4>1, <5>1
          <5> QED
            BY <4>2, <5>1, <5>2 DEF After
        <4> QED
          BY <1>14, <2>1, <4>1, <4>2, <4>3, <4>4, <4>5
      <3>2. CASE ~MergedAfter
        <4>1. hdr'[b].next = nxt
          BY <1>2, <1>5, <2>1, <3>2
        <4>2. nxt \in Listed => nxt \notin gone
          BY <1>1, <1>6, <3>2
        <4>3. start < nxt
          BY <1>1, <1>3, <1>9
        <4>4. \A c \in Listed' : AfterNow(b, c) => nxt <= c
          BY <1>15, <2>1, <3>0
        <4> QED
          BY <1>1, <1>14, <2>1, <4>1, <4>2, <4>3, <4>4
      <3> QED
        BY <3>1, <3>2
    <2>2. CASE b # start /\ b = it
      <3>1. ~MergedBefore /\ start = ins
        BY <1>5, <2>2
      <3>2. it \in DOMAIN hdr \ gone
        <4>1. it \in DOMAIN hdr
          BY <1>1, <1>3, <1>4 DEF Heap4Inv, Headers
        <4>2. it # nxt
          BY <1>1, <1>3, <1>4, <1>16, Placement
        <4> QED
          BY <1>6, <3>1, <4>1, <4>2
      <3>3. hdr'[b].next = start
        BY <1>2, <2>2, <3>2
      <3>4. AfterNow(b, start)
        BY <1>1, <1>14, <2>2, <3>1
      <3>5. ASSUME NEW c \in Listed', AfterNow(b, c) PROVE start <= c
        <4>1. CASE c = start
          BY <1>9, <4>1
        <4>2. CASE c # start
          <5>1. c \in Listed /\ After(it, c) /\ c \in Nat
            BY <1>3, <1>4, <1>14, <2>2, <3>5, <4>2 DEF After
          <5> QED
            BY <1>1, <1>3, <3>1, <5>1
        <4> QED
          BY <4>1, <4>2
      <3> QED
        BY <3>3, <3>4, <3>5
    <2>3. CASE b # start /\ b # it
      <3>1. b \in Listed \cup {xStart} /\ b \in DOMAIN hdr \ gone
        BY <1>1, <1>2, <1>3, <1>4, <1>6, <1>14, <2>3, Placement DEF Heap4Inv, Headers
      <3>2. hdr'[b].next = hdr[b].next
        BY <1>2, <2>3, <3>1
      <3>3. /\ hdr[b].next \in Listed \cup {xEnd} /\ hdr[b].next \in Nat
            /\ b # xStart => b < hdr[b].next
            /\ \A c \in Listed : After(b, c) => hdr[b].next <= c
        BY <1>16, <3>1
      <3>4. hdr[b].next # nxt
        <4> SUFFICES ASSUME hdr[b].next = nxt PROVE FALSE
          OBVIOUS
        <4>0. it # xStart => it < nxt
          BY <1>1, <1>16 DEF nxt
        <4>1. After(b, it) \/ After(it, b)
          BY <1>1, <1>3, <1>4, <2>3, <3>1 DEF After
        <4> QED
          BY <1>1, <1>3, <1>4, <3>1, <3>3, <4>0, <4>1 DEF After
      <3>5. hdr[b].next \in Listed => hdr[b].next \notin gone
        BY <1>1, <1>6, <3>4
      <3>6. ASSUME NEW c \in Listed', AfterNow(b, c) PROVE hdr[b].next <= c
        <4>1. CASE c \in Listed
          BY <3>3, <3>6, <4>1 DEF After
        <4>2. CASE c \notin Listed
          <5>1. c = ins /\ start = ins
            BY <1>5, <1>14, <4>2
          <5>2. it \in Listed /\ After(b, it)
            BY <1>1, <1>3, <1>4, <2>3, <3>1, <3>6, <5>1 DEF After
          <5>3. hdr[b].next <= it /\ it < ins /\ it \in Nat
            BY <1>1, <1>3, <1>4, <3>3, <5>2
          <5> QED
            BY <1>1, <1>3, <3>3, <5>1, <5>3
        <4> QED
          BY <4>1, <4>2
      <3> QED
        BY <1>14, <3>2, <3>3, <3>5, <3>6
    <2> QED
      BY <2>1, <2>2, <2>3
  <1>18. Sorted'
    BY <1>17 DEF Sorted, After
  <1>19. ASSUME NEW b \in Listed' PROVE EndAfter(b) \notin Listed'
    <2>1. CASE b = start
      <3>1. EndAfter(b) = MergedEnd /\ MergedEnd # start
        BY <1>1, <1>2, <1>3, <1>9, <2>1
      <3>2. ASSUME MergedEnd \in Listed, MergedEnd \notin gone PROVE FALSE
        <4>1. CASE MergedAfter
          BY <1>2, <1>4, <1>5, <3>2, <4>1
        <4>2. CASE ~MergedAfter
          <5>1. End(ins) \in Listed /\ ins < End(ins) /\ End(ins) \in Nat /\ End(ins) < xEnd
            BY <1>1, <1>3, <1>5, <3>2, <4>2, Placement
          <5>2. nxt <= End(ins)
            BY <1>1, <5>1
          <5>3. nxt \in Blocks
            BY <1>1, <1>4, <5>1, <5>2, Placement
          <5>4. End(ins) <= nxt
            BY <1>1, <1>3, <5>3
          <5> QED
            BY <1>1, <1>5, <4>2, <5>1, <5>2, <5>4
        <4> QED
          BY <4>1, <4>2
      <3> QED
        BY <1>14, <3>1, <3>2
    <2>2. CASE b # start
      <3>1. b \in Listed /\ b \in Blocks /\ b \in Blocks'
        BY <1>4, <1>7, <1>14, <2>2
      <3>2. EndAfter(b) = End(b) /\ End(b) \notin Listed
        BY <1>4, <1>8, <2>2, <3>1
      <3>3. End(b) # start
        <4> SUFFICES ASSUME End(b) = start PROVE FALSE
          OBVIOUS
        <4>1. start = ins /\ ~MergedBefore
          BY <1>1, <1>5, <3>2
        <4>2. b < ins
          BY <1>3, <3>1, <4>1
        <4>3. it \in Listed /\ b <= it /\ it < ins /\ it \in Blocks
          BY <1>1, <1>4, <3>1, <4>2
        <4>4. b # it
          BY <1>5, <4>1, <4>3
        <4>5. b < it
          BY <1>3, <3>1, <4>3, <4>4
        <4>6. End(b) <= it
          BY <1>3, <3>1, <4>3, <4>5
        <4> QED
          BY <1>1, <1>3, <4>1, <4>3, <4>6
      <3> QED
        BY <1>14, <3>2, <3>3
    <2> QED
      BY <2>1, <2>2
  <1>20. Coalesced'
    BY <1>19 DEF Coalesced, End, EndAfter
  <1>21. Places'
    <2>1. ASSUME pxBlock # NULL PROVE MallocInHand'
      <3>1. MallocInHand
        BY <2>1 DEF Heap4Inv, Places
      <3>2. /\ pxBlock \in Blocks \ Allocated /\ request + HEADER_SIZE <= hdr[pxBlock].size
            /\ request \in Request \ {0} /\ xWantedSize \in Nat /\ request + HEADER_SIZE <= xWantedSize
        BY <1>1, <3>1 DEF MallocInHand
      <3>3. pxBlock \notin Listed /\ pxBlock # ins
        BY <1>1, <1>4
      <3>4. pxBlock \notin gone /\ pxBlock # start
        BY <1>2, <1>5, <1>6, <3>3
      <3>5. hdr'[pxBlock].size = hdr[pxBlock].size
        BY <1>2, <1>3, <3>2, <3>4
      <3>6. pxBlock' \in Blocks' \ Allocated' /\ hdr'[pxBlock'].size = hdr[pxBlock].size
        BY <1>7, <1>12, <1>13, <3>2, <3>4, <3>5
      <3> QED
        BY <1>13, <2>1, <3>2, <3>6 DEF MallocInHand
    <2> QED
      BY <1>13, <2>1 DEF Places
  <1> QED
    BY <1>10, <1>11, <1>12, <1>18, <1>20, <1>21 DEF Heap4Inv

-----------------------------------------------------------------------------
(* The invariant holds                                                     *)

\* heap_init leaves one free block, and the program holds nothing.
LEMMA InitHeap4Inv == Init => Heap4Inv
  <1> SUFFICES ASSUME Init PROVE Heap4Inv
    OBVIOUS
  <1>1. /\ pc = "idle" /\ pxBlock = NULL /\ pxBlockToInsert = NULL
        /\ DOMAIN live = {} /\ xFreeBytesRemaining = hdr[ucHeap].size
    BY DEF Init
  <1>2. ucHeap # xStart /\ ucHeap # xEnd /\ xStart # xEnd
    BY Placement
  <1>3. Minus(HeapLimit, ucHeap) = HeapLimit - ucHeap
    BY Placement, MinusIs
  <1>4. /\ DOMAIN hdr = {xStart, ucHeap, xEnd}
        /\ hdr[xStart] = [next |-> ucHeap, size |-> 0]
        /\ hdr[ucHeap] = [next |-> xEnd, size |-> HeapLimit - ucHeap]
        /\ hdr[xEnd] = [next |-> NULL, size |-> 0]
    <2> DEFINE H(a) == CASE a = xStart -> [next |-> ucHeap, size |-> 0]
                         [] a = ucHeap -> [next |-> xEnd, size |-> Minus(HeapLimit, ucHeap)]
                         [] a = xEnd -> [next |-> NULL, size |-> 0]
    <2>1. H(xStart) = [next |-> ucHeap, size |-> 0]
      BY <1>2
    <2>2. H(ucHeap) = [next |-> xEnd, size |-> HeapLimit - ucHeap]
      BY <1>2, <1>3
    <2>3. H(xEnd) = [next |-> NULL, size |-> 0]
      BY <1>2
    <2>4. hdr = [a \in {xStart, ucHeap, xEnd} |-> H(a)]
      BY DEF Init
    <2> HIDE DEF H
    <2> QED
      BY <2>1, <2>2, <2>3, <2>4
  <1>5. Blocks = {ucHeap} /\ Allocated = {} /\ InHand = {} /\ Listed = {ucHeap}
    BY <1>1, <1>2, <1>4 DEF Blocks, Allocated, InHand, Listed
  <1>6. Headers
    <2>1. ASSUME NEW a \in DOMAIN hdr PROVE hdr[a] \in [next : Nat, size : Nat]
      BY <1>4, Placement
    <2>2. hdr = [a \in DOMAIN hdr |-> hdr[a]]
      BY DEF Init
    <2>3. hdr \in [DOMAIN hdr -> [next : Nat, size : Nat]]
      BY <2>1, <2>2
    <2> QED
      BY <1>4, <2>3 DEF Headers
  <1>7. Tiled
    BY <1>4, <1>5, Placement DEF Tiled, End
  <1>8. Sorted
    BY <1>4, <1>5, Placement DEF Sorted, After
  <1>9. Coalesced
    BY <1>4, <1>5, Placement DEF Coalesced, End
  <1>10. Held
    BY <1>1, <1>5 DEF Held
  <1>11. Places
    BY <1>1 DEF Places
  <1>12. Counted
    <2>1. Cardinality(BytesOf(Allocated)) = 0
      BY <1>5, FS_EmptySet DEF BytesOf
    <2> QED
      BY <1>1, <1>4, <2>1, Placement DEF Counted
  <1> QED
    BY <1>6, <1>7, <1>8, <1>9, <1>10, <1>11, <1>12 DEF Heap4Inv

\* Every step of heap_malloc and heap_free keeps the invariant.
LEMMA NextHeap4Inv == Heap4Inv /\ [Next]_vars => Heap4Inv'
  <1> SUFFICES ASSUME Heap4Inv, [Next]_vars PROVE Heap4Inv'
    OBVIOUS
  <1>1. CASE UNCHANGED vars
    <2>1. UNCHANGED <<hdr, live, xFreeBytesRemaining>> /\ InHand' = InHand
      BY <1>1 DEF vars, locals, walk, InHand
    <2>2. Listed' = Listed /\ Blocks' = Blocks /\ Allocated' = Allocated
      BY <2>1, SameHeap
    <2>3. MallocInHand => MallocInHand'
      BY <1>1, <2>2 DEF vars, locals, walk, MallocInHand
    <2>4. Places'
      BY <1>1, <2>2, <2>3 DEF vars, locals, walk, Heap4Inv, Places
    <2> QED
      BY <2>1, <2>4, SameHeap DEF Heap4Inv
  <1>2. CASE \E n \in Request : MallocRefused(n)
    BY <1>1, <1>2 DEF MallocRefused
  <1>3. CASE TakeBlock
    <2>1. Remainder >= MIN_BLOCK_SIZE \/ Remainder < MIN_BLOCK_SIZE
      <3>1. hdr[pxBlock].size \in Nat
        BY <1>3, FoundIs, BlockFacts DEF Heap4Inv, Listed
      <3> QED
        BY <1>3, <3>1, FoundIs
    <2> QED
      BY <1>3, <2>1, TakeWholeStep, TakeSplitStep
  <1> QED
    BY <1>1, <1>2, <1>3, InsertWalkStep, InsertLinkStep, MallocCallStep, SearchStep,
       MallocFailsStep, MallocReturnsStep, FreeCallStep DEF Next

\* The headers, the free list, the allocations and the counter agree at every
\* step of every call.
THEOREM Heap4Invariance == Spec => []Heap4Inv
  BY InitHeap4Inv, NextHeap4Inv, PTL DEF Spec

-----------------------------------------------------------------------------
(* What follows for the program                                            *)

\* Between calls nothing is in hand.
LEMMA IdleBlocks ==
  ASSUME Heap4Inv, pc = "idle" PROVE FreeBlocks = Listed /\ InHand = {}
  <1>1. pxBlock = NULL /\ pxBlockToInsert = NULL
    BY DEF Heap4Inv, Places
  <1>2. NULL \notin Blocks
    BY BlockFacts DEF Heap4Inv
  <1> QED
    BY <1>1, <1>2 DEF FreeBlocks, Listed, InHand

\* heap_malloc's splitting and heap_free's merging neither lose nor double a
\* byte of the heap.
THEOREM BlocksTile == Spec => []BlocksTileHeap
  <1>1. Heap4Inv => BlocksTileHeap
    <2> SUFFICES ASSUME Heap4Inv, pc = "idle"
                 PROVE  /\ ucHeap \in Blocks
                        /\ \A b \in Blocks :
                             /\ b \in ucHeap..(HeapLimit - 1)
                             /\ End(b) \in Blocks \cup {HeapLimit}
                             /\ ~\E c \in Blocks : b < c /\ c < End(b)
      BY DEF BlocksTileHeap, End
    <2>1. /\ ucHeap \in Blocks
          /\ \A b \in Blocks : b \in ucHeap..(HeapLimit - 1) /\ End(b) \in Blocks \cup {HeapLimit}
          /\ \A b, c \in Blocks : b < c => End(b) <= c
      BY DEF Heap4Inv, Tiled
    <2>2. \A b \in Blocks : b \in Nat /\ End(b) \in Nat
      BY BlockFacts DEF Heap4Inv
    <2> QED
      BY <2>1, <2>2
  <1> QED
    BY <1>1, Heap4Invariance, PTL

\* After every call the free list is in address order, holds every free block,
\* ends at xEnd, and no two free blocks touch.
THEOREM FreeListIsCoalesced == Spec => []FreeListCoalesced
  <1>1. Heap4Inv => FreeListCoalesced
    <2> SUFFICES ASSUME Heap4Inv, pc = "idle", NEW b \in FreeBlocks \cup {xStart}
                 PROVE  /\ hdr[b].next = IF {c \in FreeBlocks : b = xStart \/ c > b} = {} THEN xEnd
                                         ELSE Min({c \in FreeBlocks : b = xStart \/ c > b})
                        /\ b + hdr[b].size \notin FreeBlocks
      BY DEF FreeListCoalesced
    <2> DEFINE above == {c \in FreeBlocks : b = xStart \/ c > b}
    <2>1. FreeBlocks = Listed
      BY IdleBlocks
    <2>2. \A c \in Listed : c \in Blocks /\ c \in Nat /\ c < xEnd /\ c # xStart
      BY BlockFacts DEF Heap4Inv, Listed
    <2>3. /\ hdr[b].next = xEnd \/ After(b, hdr[b].next)
          /\ \A c \in Listed : After(b, c) => hdr[b].next <= c
      BY <2>1 DEF Heap4Inv, Sorted
    <2>4. \A c : c \in above <=> After(b, c)
      BY <2>1, <2>2 DEF After
    <2> HIDE DEF above
    <2>5. above = {} => hdr[b].next = xEnd
      BY <2>3, <2>4
    <2>6. ASSUME above # {} PROVE hdr[b].next = Min(above)
      <3>1. hdr[b].next \in above
        BY <2>2, <2>3, <2>4, <2>6, Placement DEF After
      <3>2. \A c \in above : c \in Nat /\ hdr[b].next <= c
        BY <2>2, <2>3, <2>4 DEF After
      <3>3. \A x \in above : (\A y \in above : x <= y) => x = hdr[b].next
        BY <3>1, <3>2
      <3>4. hdr[b].next = CHOOSE x \in above : \A y \in above : x <= y
        BY <3>1, <3>2, <3>3
      <3> QED
        BY <3>4 DEF Min
    <2>7. b + hdr[b].size \notin FreeBlocks
      <3>1. CASE b = xStart
        BY <2>1, <2>2, <3>1, Placement DEF Heap4Inv, Headers
      <3>2. CASE b \in Listed
        BY <2>1, <3>2 DEF Heap4Inv, Coalesced, End
      <3> QED
        BY <2>1, <3>1, <3>2
    <2> QED
      BY <2>5, <2>6, <2>7 DEF above
  <1> QED
    BY <1>1, Heap4Invariance, PTL

\* Every byte of the heap lies in a block: the last that starts at or below it.
LEMMA EveryByteInABlock ==
  ASSUME Tiled, NEW a \in ucHeap..(HeapLimit - 1)
  PROVE  \E b \in Blocks : b <= a /\ a < End(b)
  <1> DEFINE below == {HeapLimit - b : b \in {c \in Blocks : c <= a}}
  <1>0. \A b \in Blocks : b \in Nat /\ b < HeapLimit /\ End(b) \in Nat
    BY BlockFacts
  <1>1. below \in SUBSET Nat
    BY <1>0, Placement
  <1>2. below # {}
    BY Placement DEF Tiled
  <1>3. PICK d \in below : \A y \in below : d <= y
    BY <1>1, <1>2, LeastElement
  <1>4. PICK b \in Blocks : b <= a /\ d = HeapLimit - b
    BY <1>3
  <1>5. \A c \in Blocks : c <= a => c <= b
    <2> SUFFICES ASSUME NEW c \in Blocks, c <= a PROVE c <= b
      OBVIOUS
    <2>1. HeapLimit - b <= HeapLimit - c
      BY <1>3, <1>4
    <2> QED
      BY <1>0, <2>1, Placement
  <1>6. a < End(b)
    <2>1. End(b) \in Blocks \cup {HeapLimit} /\ b < End(b) /\ End(b) \in Nat /\ b \in Nat
      BY BlockFacts DEF Tiled
    <2>2. CASE End(b) \in Blocks
      BY <1>5, <2>1, <2>2, Placement
    <2>3. CASE End(b) = HeapLimit
      BY <2>3, Placement
    <2> QED
      BY <2>1, <2>2, <2>3
  <1> QED
    BY <1>4, <1>6

\* heap_get_free returns the number of bytes in the free blocks, after any
\* sequence of allocations and frees.
THEOREM FreeBytesAreExact == Spec => []FreeBytesExact
  <1>1. Heap4Inv => FreeBytesExact
    <2> SUFFICES ASSUME Heap4Inv, pc = "idle"
                 PROVE  xFreeBytesRemaining = Cardinality(BytesOf(FreeBlocks))
      BY DEF FreeBytesExact
    <2> DEFINE heap == ucHeap..(HeapLimit - 1)
               free == BytesOf(FreeBlocks)
               taken == BytesOf(Allocated)
    <2>1. Tiled /\ Allocated \subseteq Blocks
      BY DEF Heap4Inv, Held
    <2>2. Blocks = FreeBlocks \cup Allocated /\ FreeBlocks \cap Allocated = {}
      BY <2>1, IdleBlocks DEF Listed
    <2>3. \A a : a \in heap <=> a \in free \cup taken
      BY <2>1, <2>2, EveryByteInABlock DEF BytesOf, End
    <2>4. free \cap taken = {}
      <3> SUFFICES ASSUME NEW a \in heap, NEW b \in FreeBlocks, NEW c \in Allocated,
                          b <= a, a < b + hdr[b].size, c <= a, a < c + hdr[c].size
                   PROVE  FALSE
        BY DEF BytesOf
      <3>1. b \in Blocks /\ c \in Blocks /\ b # c
        BY <2>2
      <3>2. b \in Nat /\ c \in Nat /\ End(b) = b + hdr[b].size /\ End(c) = c + hdr[c].size
            /\ End(b) \in Nat /\ End(c) \in Nat
        BY <2>1, <3>1, BlockFacts
      <3>3. (b < c => End(b) <= c) /\ (c < b => End(c) <= b)
        BY <2>1, <3>1 DEF Tiled
      <3> QED
        BY <3>1, <3>2, <3>3, Placement
    <2>5. IsFiniteSet(heap) /\ Cardinality(heap) = HeapLimit - ucHeap
      BY Placement, FS_Interval
    <2>6. free \in SUBSET heap /\ taken \in SUBSET heap
      BY DEF BytesOf
    <2> HIDE DEF heap, free, taken
    <2>7. /\ IsFiniteSet(free) /\ IsFiniteSet(taken)
          /\ Cardinality(free) \in Nat /\ Cardinality(taken) \in Nat
      BY <2>5, <2>6, FS_Subset, FS_CardinalityType
    <2>8. heap = free \cup taken
      BY <2>3
    <2>9. Cardinality(heap) = Cardinality(free) + Cardinality(taken)
      <3>1. Cardinality(free \cap taken) = 0
        BY <2>4, FS_EmptySet
      <3>2. Cardinality(free \cup taken) = Cardinality(free) + Cardinality(taken) - Cardinality(free \cap taken)
        BY <2>7, FS_Union
      <3> QED
        BY <2>7, <2>8, <3>1, <3>2
    <2>10. xFreeBytesRemaining \in Nat /\ xFreeBytesRemaining + Cardinality(taken) = HeapLimit - ucHeap
      BY DEF Heap4Inv, Counted, taken
    <2>11. xFreeBytesRemaining = Cardinality(free)
      BY <2>5, <2>7, <2>9, <2>10, Placement
    <2> QED
      BY <2>11 DEF free
  <1> QED
    BY <1>1, Heap4Invariance, PTL

\* heap_malloc returns NULL from its search only when no free block is large
\* enough.
THEOREM FailuresAreJustified == Spec => FailureJustified
  <1>1. Heap4Inv /\ [Next]_vars => [MallocFails => \A b \in FreeBlocks : hdr[b].size < xWantedSize]_vars
    <2> SUFFICES ASSUME Heap4Inv, MallocFails, NEW b \in FreeBlocks
                 PROVE  hdr[b].size < xWantedSize
      OBVIOUS
    <2>1. pc = "search" /\ pxBlock = xEnd
      BY DEF MallocFails
    <2>2. b \in Listed /\ b < xEnd
      BY <2>1, BlockFacts DEF FreeBlocks, Listed, InHand, Heap4Inv
    <2> QED
      BY <2>1, <2>2 DEF Heap4Inv, Places, MallocInHand
  <1> QED
    BY <1>1, Heap4Invariance, PTL DEF Spec, FailureJustified

\* The program's bytes are its own: what heap_malloc returns lies in the heap,
\* apart from everything the program still holds.
THEOREM AllocatorRefinement == Spec => ImplementsAllocator
  <1>1. Init => Promise!Init
    BY DEF Init, Promise!Init
  <1>2. ASSUME Heap4Inv, MallocReturns PROVE Promise!Next
    <2>1. /\ pc = "taken" /\ live' = With(live, Plus(pxBlock, HEADER_SIZE), request)
      BY <1>2 DEF MallocReturns
    <2>2. /\ pxBlock \in Blocks \ Allocated /\ request \in Request \ {0}
          /\ request + HEADER_SIZE <= hdr[pxBlock].size
      BY <1>2, <2>1 DEF Heap4Inv, Places, MallocInHand
    <2>3. request \in Nat /\ request > 0
      BY <2>2, AdjustedIs
    <2>4. /\ pxBlock \in Nat /\ ucHeap <= pxBlock /\ hdr[pxBlock].size \in Nat
          /\ End(pxBlock) = pxBlock + hdr[pxBlock].size /\ End(pxBlock) <= HeapLimit /\ End(pxBlock) \in Nat
      BY <1>2, <2>2, BlockFacts DEF Heap4Inv
    <2> DEFINE p == pxBlock + 4
    <2>5. Plus(pxBlock, HEADER_SIZE) = p
      BY <2>2, <2>3, <2>4, Placement, PlusIs
    <2>6. p \in ucHeap..(HeapLimit - 1) /\ p + request <= HeapLimit /\ p + request <= End(pxBlock)
      BY <2>2, <2>3, <2>4, Placement
    <2>7. Promise!Bytes(p, request) \subseteq ucHeap..(HeapLimit - 1)
      BY <2>3, <2>4, <2>6, Placement DEF Promise!Bytes
    <2>8. ASSUME NEW q \in DOMAIN live, NEW a \in Promise!Bytes(p, request), a \in Promise!Bytes(q, live[q])
          PROVE  FALSE
      <3> DEFINE c == q - 4
      <3>1. c \in Allocated /\ c \in Blocks /\ q \in Nat /\ live[q] \in Nat /\ live[q] + 4 <= hdr[c].size
        BY <1>2 DEF Heap4Inv, Held, Allocated
      <3>2. c # pxBlock
        BY <2>2, <3>1
      <3> HIDE DEF c
      <3>3. c \in Nat /\ End(c) \in Nat /\ End(c) = c + hdr[c].size /\ hdr[c].size \in Nat
        BY <1>2, <3>1, BlockFacts DEF Heap4Inv
      <3>4. (pxBlock < c => End(pxBlock) <= c) /\ (c < pxBlock => End(c) <= pxBlock)
        BY <1>2, <2>2, <3>1 DEF Heap4Inv, Tiled
      <3>5. q = c + 4
        BY <3>1 DEF c
      <3>6. a \in Int /\ pxBlock + 4 <= a /\ a < p + request
        BY <2>3, <2>4, <2>8 DEF Promise!Bytes
      <3>7. c + 4 <= a /\ a < End(c)
        BY <2>8, <3>1, <3>3, <3>5, <3>6 DEF Promise!Bytes
      <3> QED
        BY <2>3, <2>4, <2>6, <3>2, <3>3, <3>4, <3>6, <3>7
    <2>9. Promise!Malloc(p, request)
      BY <2>1, <2>3, <2>5, <2>7, <2>8 DEF Promise!Malloc, Promise!With, With
    <2> QED
      BY <2>2, <2>6, <2>9 DEF Promise!Next
  <1>3. ASSUME NEW pv \in DOMAIN live, FreeCall(pv) PROVE Promise!Next
    BY <1>3 DEF FreeCall, Promise!Next, Promise!Free, Promise!WithoutKey, WithoutKey
  <1>4. ASSUME Heap4Inv, [Next]_vars PROVE [Promise!Next]_live
    BY <1>2, <1>3, <1>4 DEF Next, vars, InsertWalk, InsertLink, MallocRefused, MallocCall, Search,
       MallocFails, TakeBlock
  <1> QED
    BY <1>1, <1>4, Heap4Invariance, PTL DEF Spec, ImplementsAllocator, Promise!Spec

=============================================================================
