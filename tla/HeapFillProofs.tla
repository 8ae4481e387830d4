--------------------------- MODULE HeapFillProofs ---------------------------
(***************************************************************************)
(* Theorems about HeapFill, for every placement of the heap, every set of  *)
(* requests that cannot wrap and every sequence of allocations, frees and  *)
(* fills: malloc implements Allocator, and memset writes what it was asked *)
(* to write and nothing else.                                              *)
(***************************************************************************)
EXTENDS HeapFill, TLAPS

\* The requests malloc is right for: see BumpMalloc!Safe.
SafeRequests == \A size \in Request : Safe(size)

-----------------------------------------------------------------------------
(* The inductive invariant                                                 *)

\* The first address past a block and its padding.
Room(p) == p + AlignUp(live[p])

\* Blocks follow one another up to heap_ptr.
Apart ==
  /\ heap_ptr \in HeapStart..HeapEnd
  /\ \A p \in DOMAIN live :
       /\ p \in Nat /\ HeapStart <= p /\ Room(p) <= heap_ptr
       /\ live[p] \in Request \ {0}
  /\ \A p, q \in DOMAIN live : p < q => Room(p) <= q

\* What has been filled, or is being filled, is held.
Fills ==
  /\ DOMAIN filled \subseteq DOMAIN live
  /\ \A p \in DOMAIN filled : filled[p].start \in {p, p + 1} /\ filled[p].int \in FillInt

\* The call of memset is for block p.
Filling(p) ==
  /\ dest = filled[p].start /\ c = filled[p].int
  /\ n \in Nat /\ dest + n = p + live[p]

\* What each label of memset knows.  Bytes from dest up to R3 have been written.
Registers ==
  /\ pc \in {"idle", "entry", "leadByte", "words", "wordLoop", "tail"}
  /\ pc # "idle" =>
       /\ \E p \in DOMAIN filled : Filling(p)
       /\ R3 \in Nat /\ R2 \in Nat /\ dest <= R3
  /\ pc \notin {"idle", "entry"} => R0 = <<c[1] \cup c[2], c[1] \cup c[2]>>
  /\ pc \in {"entry", "leadByte"} => R3 = dest /\ R2 = n
  /\ pc = "leadByte" => n # 0 /\ R3 % 2 = 1
  /\ pc = "words" => R3 % 2 = 0 /\ R3 + R2 = dest + n
  /\ pc = "wordLoop" => R3 % 2 = 0 /\ R5 \in Nat \ {0} /\ R3 + 2 * R5 + (R2 % 2) = dest + n
  /\ pc = "tail" => R3 + (R2 % 2) = dest + n

\* What memory holds, where a fill is complete and up to where it has come.
Stored ==
  /\ DOMAIN mem = Fill!Word
  /\ \A p \in DOMAIN filled, a \in Fill!Word :
       /\ filled[p].start <= a /\ a < p + live[p]
       /\ pc # "idle" /\ Filling(p) => a < R3
       => mem[a] = filled[p].int[1] \cup filled[p].int[2]

ProgramInv == Apart /\ Fills /\ Registers /\ Stored /\ NothingElseIsWritten

-----------------------------------------------------------------------------
(* The allocator                                                           *)

\* A safe request is rounded up to an even number without wrapping.
LEMMA AlignUpIs ==
  ASSUME SafeRequests, NEW size \in Request
  PROVE  /\ size \in Nat /\ AlignUp(size) \in Nat
         /\ size <= AlignUp(size) /\ AlignUp(size) <= size + 1
         /\ size # 0 => AlignUp(size) >= 2
         /\ AlignUp(size) + HeapEnd < AddrMod
  <1>1. size \in Nat /\ HeapEnd + size + 1 < AddrMod /\ HeapEnd \in Nat /\ AddrMod \in Nat
    BY BumpMallocAssumption DEF SafeRequests, Safe
  <1>2. (size + 1) % AddrMod = size + 1
    BY <1>1
  <1>3. AlignUp(size) = 2 * ((size + 1) \div 2)
    BY <1>2 DEF AlignUp
  <1> QED
    BY <1>1, <1>3

\* malloc moves the pointer past the block it returns.
LEMMA BumpedIs ==
  ASSUME SafeRequests, Apart, NEW size \in Request
  PROVE  Bumped(size) = heap_ptr + AlignUp(size)
  <1>1. heap_ptr \in Nat /\ heap_ptr <= HeapEnd /\ HeapEnd \in Nat /\ AddrMod \in Nat
    BY BumpMallocAssumption DEF Apart
  <1>2. AlignUp(size) \in Nat /\ AlignUp(size) + HeapEnd < AddrMod
    BY AlignUpIs
  <1>3. heap_ptr + AlignUp(size) \in 0..(AddrMod - 1)
    BY <1>1, <1>2
  <1> QED
    BY <1>1, <1>2, <1>3 DEF Bumped

\* What the invariant says of a block.
LEMMA HeldFacts ==
  ASSUME SafeRequests, Apart, NEW p \in DOMAIN live
  PROVE  /\ p \in Nat /\ HeapStart <= p /\ live[p] \in Nat \ {0} /\ live[p] \in Request
         /\ Room(p) \in Nat /\ p + live[p] <= Room(p) /\ p + 2 <= Room(p)
         /\ Room(p) <= heap_ptr /\ heap_ptr <= HeapEnd /\ HeapEnd < AddrMod
         /\ heap_ptr \in Nat /\ HeapEnd \in Nat /\ AddrMod \in Nat
  <1>1. p \in Nat /\ HeapStart <= p /\ Room(p) <= heap_ptr /\ live[p] \in Request \ {0}
    BY DEF Apart
  <1>2. /\ live[p] \in Nat /\ AlignUp(live[p]) \in Nat
        /\ live[p] <= AlignUp(live[p]) /\ AlignUp(live[p]) >= 2
    BY <1>1, AlignUpIs
  <1> QED
    BY <1>1, <1>2, BumpMallocAssumption DEF Room, Apart

\* malloc and free keep the blocks apart.
LEMMA ApartKept == ASSUME SafeRequests, Apart, Next PROVE Apart'
  <1>1. CASE \E size \in Request : MallocRefused(size)
    <2>1. heap_ptr' = heap_ptr /\ live' = live
      BY <1>1 DEF MallocRefused, vars
    <2> QED
      BY <2>1 DEF Apart, Room
  <1>2. ASSUME NEW size \in Request, Malloc(size) PROVE Apart'
    <2>1. /\ heap_ptr \in HeapStart..HeapEnd /\ heap_ptr \in Nat
          /\ heap_ptr' = heap_ptr + AlignUp(size) /\ heap_ptr' <= HeapEnd
          /\ AlignUp(size) \in Nat
      BY <1>2, BumpedIs, AlignUpIs, BumpMallocAssumption DEF Malloc, Apart
    <2>2. heap_ptr' \in HeapStart..HeapEnd /\ heap_ptr <= heap_ptr'
      BY <2>1, BumpMallocAssumption
    <2>3. CASE size = 0
      <3>1. live' = live
        BY <1>2, <2>3 DEF Malloc
      <3>2. \A p \in DOMAIN live : Room(p) \in Nat /\ Room(p) <= heap_ptr
        BY HeldFacts
      <3>3. \A p \in DOMAIN live : Room(p) <= heap_ptr'
        BY <2>1, <2>2, <3>2
      <3> QED
        BY <2>2, <3>1, <3>3 DEF Apart, Room
    <2>4. CASE size # 0
      <3>1. /\ DOMAIN live' = DOMAIN live \cup {heap_ptr} /\ live'[heap_ptr] = size
            /\ \A p \in DOMAIN live : p # heap_ptr => live'[p] = live[p]
        BY <1>2, <2>4 DEF Malloc, With
      <3> DEFINE RoomAfter(p) == p + AlignUp(live'[p])
      <3>2. RoomAfter(heap_ptr) = heap_ptr'
        BY <2>1, <3>1
      <3>3. \A p \in DOMAIN live :
              /\ p \in Nat /\ p # heap_ptr /\ p < heap_ptr /\ Room(p) <= heap_ptr /\ Room(p) \in Nat
              /\ HeapStart <= p /\ live[p] \in Request \ {0}
        BY <2>1, HeldFacts
      <3>4. \A p \in DOMAIN live : RoomAfter(p) = Room(p)
        BY <3>1, <3>3 DEF Room
      <3> HIDE DEF RoomAfter
      <3>5. ASSUME NEW p \in DOMAIN live'
            PROVE  /\ p \in Nat /\ HeapStart <= p /\ RoomAfter(p) <= heap_ptr'
                   /\ live'[p] \in Request \ {0}
        BY <2>1, <2>2, <2>4, <3>1, <3>2, <3>3, <3>4
      <3>6. ASSUME NEW p \in DOMAIN live', NEW q \in DOMAIN live', p < q PROVE RoomAfter(p) <= q
        <4>1. p \in DOMAIN live
          BY <2>1, <3>1, <3>3, <3>6
        <4>2. \A x, y \in DOMAIN live : x < y => Room(x) <= y
          BY DEF Apart
        <4> QED
          BY <3>1, <3>3, <3>4, <3>6, <4>1, <4>2
      <3> QED
        BY <2>2, <3>5, <3>6 DEF Apart, Room, RoomAfter
    <2> QED
      BY <2>3, <2>4
  <1>3. ASSUME NEW r \in DOMAIN live, Free(r) PROVE Apart'
    <2>1. /\ DOMAIN live' = DOMAIN live \ {r} /\ heap_ptr' = heap_ptr
          /\ \A p \in DOMAIN live' : live'[p] = live[p]
      BY <1>3 DEF Free, WithoutKey
    <2> QED
      BY <2>1 DEF Apart, Room
  <1> QED
    BY <1>1, <1>2, <1>3 DEF Next

\* malloc hands out bytes of the heap that nobody holds.
LEMMA NextIsPromised == ASSUME SafeRequests, Apart, Next PROVE [Promise!Next]_live
  <1>1. CASE \E size \in Request : MallocRefused(size)
    BY <1>1 DEF MallocRefused, vars
  <1>2. ASSUME NEW size \in Request, Malloc(size) PROVE [Promise!Next]_live
    <2>1. CASE size = 0
      BY <1>2, <2>1 DEF Malloc
    <2>2. CASE size # 0
      <3>1. /\ heap_ptr \in HeapStart..HeapEnd /\ heap_ptr \in Nat /\ size \in Nat
            /\ AlignUp(size) \in Nat /\ size <= AlignUp(size) /\ heap_ptr + AlignUp(size) <= HeapEnd
            /\ HeapEnd \in Nat /\ HeapStart \in Nat
        BY <1>2, BumpedIs, AlignUpIs, BumpMallocAssumption DEF Malloc, Apart
      <3>2. Promise!Bytes(heap_ptr, size) \subseteq HeapStart..(HeapEnd - 1)
        BY <3>1 DEF Promise!Bytes
      <3>3. \A q \in DOMAIN live : Promise!Bytes(heap_ptr, size) \cap Promise!Bytes(q, live[q]) = {}
        <4> SUFFICES ASSUME NEW q \in DOMAIN live, NEW a \in Promise!Bytes(heap_ptr, size),
                            a \in Promise!Bytes(q, live[q])
                     PROVE  FALSE
          OBVIOUS
        <4>1. q \in Nat /\ live[q] \in Nat /\ q + live[q] <= heap_ptr
          BY <3>1, HeldFacts
        <4> QED
          BY <3>1, <4>1 DEF Promise!Bytes
      <3>4. Promise!Malloc(heap_ptr, size)
        BY <1>2, <2>2, <3>1, <3>2, <3>3 DEF Malloc, With, Promise!Malloc, Promise!With
      <3>5. heap_ptr \in HeapStart..(HeapEnd - 1)
        BY <2>2, <3>1
      <3> QED
        BY <3>4, <3>5 DEF Promise!Next
    <2> QED
      BY <2>1, <2>2
  <1>3. ASSUME NEW r \in DOMAIN live, Free(r) PROVE Promise!Next
    BY <1>3 DEF Free, WithoutKey, Promise!Next, Promise!Free, Promise!WithoutKey
  <1> QED
    BY <1>1, <1>2, <1>3 DEF Next

-----------------------------------------------------------------------------
(* memset                                                                  *)

\* The bytes memset has been called for lie inside one block.
LEMMA FillingFacts ==
  ASSUME SafeRequests, Apart, Fills, NEW p \in DOMAIN filled, Filling(p)
  PROVE  /\ p \in Nat /\ p <= dest /\ dest \in Nat /\ n \in Nat /\ dest + n <= Room(p)
         /\ HeapStart <= dest /\ dest + n <= heap_ptr
         /\ \A a \in Int : dest <= a /\ a < dest + n => a \in Fill!Word
         /\ c = filled[p].int
  <1>1. p \in DOMAIN live /\ filled[p].start \in {p, p + 1}
    BY DEF Fills
  <1>2. /\ p \in Nat /\ HeapStart <= p /\ live[p] \in Nat /\ Room(p) \in Nat /\ p + live[p] <= Room(p)
        /\ Room(p) <= heap_ptr /\ heap_ptr <= HeapEnd /\ HeapEnd < AddrMod
        /\ heap_ptr \in Nat /\ HeapEnd \in Nat /\ AddrMod \in Nat
    BY <1>1, HeldFacts
  <1>3. dest \in {p, p + 1} /\ n \in Nat /\ dest + n = p + live[p] /\ c = filled[p].int
    BY <1>1 DEF Filling
  <1>4. HeapStart <= dest /\ dest + n <= heap_ptr
    BY <1>2, <1>3, BumpMallocAssumption
  <1>5. Fill!Word = 0..(AddrMod - 1)
    BY HeapFillAssumption DEF Fill!Word, Fill!WordMod
  <1> QED
    BY <1>2, <1>3, <1>4, <1>5

\* The bytes from low up to high have been given the value v.
Wrote(low, high, v) ==
  /\ DOMAIN mem' = Fill!Word
  /\ \A a \in Fill!Word : mem'[a] = IF low <= a /\ a < high THEN v ELSE mem[a]

\* One step of memset writes on from R3, and is done only at the end.
LEMMA FillStepIs ==
  ASSUME SafeRequests, ProgramInv, FillStep
  PROVE  \E to \in Nat :
           /\ R3 <= to /\ to <= dest + n
           /\ Wrote(R3, to, c[1] \cup c[2])
           /\ pc' = "idle" => to = dest + n
           /\ pc' # "idle" => R3' = to /\ R3' \in Nat /\ R2' \in Nat
           /\ pc' \in {"idle", "words", "wordLoop", "leadByte", "tail"}
           /\ pc' # "idle" => R0' = <<c[1] \cup c[2], c[1] \cup c[2]>>
           /\ pc' = "leadByte" => R3' = dest /\ R2' = n /\ n # 0 /\ R3' % 2 = 1
           /\ pc' = "words" => R3' % 2 = 0 /\ R3' + R2' = dest + n
           /\ pc' = "wordLoop" => R3' % 2 = 0 /\ R5' \in Nat \ {0} /\ R3' + 2 * R5' + (R2' % 2) = dest + n
           /\ pc' = "tail" => R3' + (R2' % 2) = dest + n
  <1> DEFINE v == c[1] \cup c[2]
  <1>0. pc # "idle"
    BY DEF FillStep, Fill!Step, Fill!Entry, Fill!LeadByte, Fill!Words, Fill!WordLoop, Fill!Tail
  <1>1. PICK p \in DOMAIN filled : Filling(p)
    BY <1>0 DEF ProgramInv, Registers
  <1>2. /\ dest \in Nat /\ n \in Nat /\ \A a \in Int : dest <= a /\ a < dest + n => a \in Fill!Word
        /\ dest + n <= heap_ptr /\ heap_ptr \in Nat /\ heap_ptr < AddrMod
    BY <1>1, FillingFacts, HeldFacts, BumpMallocAssumption DEF ProgramInv, Apart
  <1>3. R3 \in Nat /\ R2 \in Nat /\ dest <= R3 /\ DOMAIN mem = Fill!Word
    BY <1>0 DEF ProgramInv, Registers, Stored
  <1>4. AddrMod \in Nat /\ Fill!WordMod = AddrMod /\ Fill!Word = 0..(AddrMod - 1)
    BY HeapFillAssumption, BumpMallocAssumption DEF Fill!WordMod, Fill!Word
  <1>5. \A x, k \in Nat : x + k < AddrMod => Fill!Plus(x, k) = x + k
    BY <1>4 DEF Fill!Plus
  <1>6. ASSUME mem' = mem, R3 \in Nat PROVE Wrote(R3, R3, v)
    BY <1>3, <1>4, <1>6 DEF Wrote
  <1>7. ASSUME Fill!StoreByte, R3 < dest + n, R0 = <<v, v>> PROVE Wrote(R3, R3 + 1, v)
    <2>1. R3 \in Fill!Word
      BY <1>2, <1>3, <1>7
    <2>2. mem' = [mem EXCEPT ![R3] = v]
      BY <1>7 DEF Fill!StoreByte
    <2> QED
      BY <1>3, <1>4, <2>1, <2>2 DEF Wrote
  <1>8. ASSUME Fill!StoreWord, R3 + 2 <= dest + n, R0 = <<v, v>>, R3 % 2 = 0 PROVE Wrote(R3, R3 + 2, v)
    <2>1. R3 \in Fill!Word /\ R3 + 1 \in Fill!Word
      BY <1>2, <1>3, <1>8
    <2>2. Fill!Even(R3) = R3
      BY <1>3, <1>8 DEF Fill!Even
    <2>3. mem' = [mem EXCEPT ![R3] = v, ![R3 + 1] = v]
      BY <1>8, <2>2 DEF Fill!StoreWord
    <2>4. \A a \in Fill!Word : mem'[a] = IF a = R3 \/ a = R3 + 1 THEN v ELSE mem[a]
      BY <1>3, <2>1, <2>3
    <2>5. DOMAIN mem' = Fill!Word
      BY <1>3, <2>3
    <2>6. \A a \in Fill!Word : (a = R3 \/ a = R3 + 1) <=> (R3 <= a /\ a < R3 + 2)
      BY <1>3, <1>4
    <2> QED
      BY <2>4, <2>5, <2>6 DEF Wrote
  <1> HIDE DEF v
  <1>9. CASE Fill!Entry
    <2>1. R3 = dest /\ R2 = n /\ mem' = mem /\ R2' = R2 /\ R3' = R3
      BY <1>9 DEF Fill!Entry, ProgramInv, Registers
    <2>2. CASE n = 0
      BY <1>2, <1>3, <1>6, <1>9, <2>1, <2>2 DEF Fill!Entry, v
    <2>3. CASE n # 0
      <3>1. R0' = <<v, v>> /\ pc' = IF R3 % 2 = 1 THEN "leadByte" ELSE "words"
        BY <1>9, <2>3 DEF Fill!Entry, Fill!FillWord, Fill!Odd, v
      <3>2. R3 % 2 # 1 => R3 % 2 = 0
        BY <1>3
      <3> QED
        BY <1>2, <1>3, <1>6, <2>1, <2>3, <3>1, <3>2 DEF v
    <2> QED
      BY <2>2, <2>3
  <1>10. CASE Fill!LeadByte
    <2>1. /\ R3 = dest /\ R2 = n /\ n # 0 /\ R0 = <<v, v>> /\ R0' = R0 /\ Fill!StoreByte
          /\ R3' = Fill!Plus(R3, 1) /\ R2' = R2 - 1 /\ pc' = IF R2 = 1 THEN "idle" ELSE "words"
      BY <1>10 DEF Fill!LeadByte, ProgramInv, Registers, v
    <2>2. R3' = R3 + 1
      BY <1>2, <1>3, <1>4, <1>5, <2>1
    <2>3. Wrote(R3, R3 + 1, v)
      BY <1>2, <1>3, <1>7, <2>1
    <2>4. R3 % 2 = 1
      BY <1>10 DEF Fill!LeadByte, ProgramInv, Registers
    <2> QED
      BY <1>2, <1>3, <2>1, <2>2, <2>3, <2>4 DEF v
  <1>11. CASE Fill!Words
    <2>1. /\ R3 % 2 = 0 /\ R3 + R2 = dest + n /\ R0 = <<v, v>> /\ R0' = R0 /\ mem' = mem
          /\ R3' = R3 /\ R2' = R2 /\ R5' = R2 \div 2 /\ pc' = IF R2 \div 2 = 0 THEN "tail" ELSE "wordLoop"
      BY <1>11 DEF Fill!Words, ProgramInv, Registers, v
    <2>2. Wrote(R3, R3, v)
      BY <1>3, <1>6, <2>1
    <2>3. R5' \in Nat /\ R2 = 2 * R5' + (R2 % 2) /\ R2 % 2 \in Nat
      BY <1>3, <2>1
    <2> QED
      BY <1>2, <1>3, <2>1, <2>2, <2>3 DEF v
  <1>12. CASE Fill!WordLoop
    <2>1. /\ R3 % 2 = 0 /\ R5 \in Nat \ {0} /\ R3 + 2 * R5 + (R2 % 2) = dest + n
          /\ R0 = <<v, v>> /\ R0' = R0 /\ Fill!StoreWord /\ R2' = R2
          /\ R3' = Fill!Plus(R3, 2) /\ R5' = R5 - 1 /\ pc' = IF R5 = 1 THEN "tail" ELSE "wordLoop"
      BY <1>12 DEF Fill!WordLoop, ProgramInv, Registers, v
    <2>2. R3 + 2 <= dest + n /\ R2 % 2 \in Nat
      BY <1>2, <1>3, <2>1
    <2>3. R3' = R3 + 2
      BY <1>2, <1>3, <1>4, <1>5, <2>1, <2>2
    <2>4. Wrote(R3, R3 + 2, v)
      BY <1>8, <2>1, <2>2
    <2>5. (R3 + 2) % 2 = 0
      BY <1>3, <2>1
    <2>6. /\ R3' + 2 * R5' + (R2' % 2) = dest + n /\ R5' \in Nat
          /\ R5 = 1 => R3' + (R2' % 2) = dest + n
          /\ R5 # 1 => R5' # 0
      BY <1>2, <1>3, <2>1, <2>2, <2>3
    <2> QED
      BY <1>2, <1>3, <2>1, <2>2, <2>3, <2>4, <2>5, <2>6 DEF v
  <1>13. CASE Fill!Tail
    <2>1. /\ R3 + (R2 % 2) = dest + n /\ R0 = <<v, v>> /\ pc' = "idle"
          /\ IF R2 % 2 = 1 THEN Fill!StoreByte ELSE mem' = mem
      BY <1>13 DEF Fill!Tail, Fill!Odd, ProgramInv, Registers, v
    <2>2. R2 % 2 \in {0, 1}
      BY <1>3
    <2>3. CASE R2 % 2 = 1
      <3>1. Wrote(R3, R3 + 1, v)
        BY <1>2, <1>3, <1>7, <2>1, <2>3
      <3> QED
        BY <1>2, <1>3, <2>1, <2>3, <3>1 DEF v
    <2>4. CASE R2 % 2 = 0
      <3>1. Wrote(R3, R3, v)
        BY <1>3, <1>6, <2>1, <2>4
      <3> QED
        BY <1>2, <1>3, <2>1, <2>4, <3>1 DEF v
    <2> QED
      BY <2>2, <2>3, <2>4
  <1> QED
    BY <1>9, <1>10, <1>11, <1>12, <1>13 DEF FillStep, Fill!Step

\* Blocks have their bytes to themselves.
LEMMA OneBlock ==
  ASSUME SafeRequests, Apart, NEW p \in DOMAIN live, NEW q \in DOMAIN live, NEW a \in Int,
         p <= a, a < Room(p), q <= a, a < Room(q)
  PROVE  p = q
  <1>1. p \in Nat /\ q \in Nat /\ Room(p) \in Nat /\ Room(q) \in Nat
    BY HeldFacts
  <1>2. (p < q => Room(p) <= q) /\ (q < p => Room(q) <= p)
    BY DEF Apart
  <1> QED
    BY <1>1, <1>2

\* memset leaves everything alone but the rest of its block.
LEMMA FillStepKeeps == ASSUME SafeRequests, ProgramInv, FillStep PROVE ProgramInv'
  <1>0. /\ pc # "idle" /\ heap_ptr' = heap_ptr /\ live' = live /\ filled' = filled
        /\ dest' = dest /\ c' = c /\ n' = n
    BY DEF FillStep, Fill!Step, Fill!Entry, Fill!LeadByte, Fill!Words, Fill!WordLoop, Fill!Tail,
           Fill!args, vars
  <1>1. PICK q \in DOMAIN filled : Filling(q)
    BY <1>0 DEF ProgramInv, Registers
  <1>2. /\ q \in Nat /\ q <= dest /\ dest \in Nat /\ n \in Nat /\ dest + n <= Room(q)
        /\ HeapStart <= dest /\ dest + n <= heap_ptr /\ c = filled[q].int
        /\ dest = filled[q].start /\ dest + n = q + live[q] /\ q \in DOMAIN live
    BY <1>1, FillingFacts DEF ProgramInv, Filling, Fills
  <1>3. R3 \in Nat /\ R2 \in Nat /\ dest <= R3
    BY <1>0 DEF ProgramInv, Registers
  <1>4. PICK to \in Nat :
           /\ R3 <= to /\ to <= dest + n
           /\ Wrote(R3, to, c[1] \cup c[2])
           /\ pc' = "idle" => to = dest + n
           /\ pc' # "idle" => R3' = to /\ R3' \in Nat /\ R2' \in Nat
           /\ pc' \in {"idle", "words", "wordLoop", "leadByte", "tail"}
           /\ pc' # "idle" => R0' = <<c[1] \cup c[2], c[1] \cup c[2]>>
           /\ pc' = "leadByte" => R3' = dest /\ R2' = n /\ n # 0 /\ R3' % 2 = 1
           /\ pc' = "words" => R3' % 2 = 0 /\ R3' + R2' = dest + n
           /\ pc' = "wordLoop" => R3' % 2 = 0 /\ R5' \in Nat \ {0} /\ R3' + 2 * R5' + (R2' % 2) = dest + n
           /\ pc' = "tail" => R3' + (R2' % 2) = dest + n
    BY FillStepIs
  <1>5. Apart' /\ Fills'
    BY <1>0 DEF ProgramInv, Apart, Room, Fills
  <1>6. \A p \in DOMAIN filled : Filling(p)' = Filling(p)
    BY <1>0 DEF Filling
  <1>7. Registers'
    <2>1. pc' # "idle" => dest' <= R3'
      BY <1>0, <1>2, <1>3, <1>4
    <2>2. \E p \in DOMAIN filled' : Filling(p)'
      BY <1>0, <1>1, <1>6
    <2> QED
      BY <1>0, <1>4, <2>1, <2>2 DEF Registers
  <1>8. DOMAIN mem' = Fill!Word
        /\ \A a \in Fill!Word : mem'[a] = IF R3 <= a /\ a < to THEN c[1] \cup c[2] ELSE mem[a]
    BY <1>4 DEF Wrote
  <1>9. Fill!Word \subseteq Int
    BY HeapFillAssumption DEF Fill!Word, Fill!WordMod
  <1>10. ASSUME NEW p \in DOMAIN live, NEW a \in Fill!Word, p <= a, a < Room(p), R3 <= a, a < to
         PROVE  p = q /\ filled[q].start <= a /\ a < q + live[q]
    <2>1. a \in Int /\ dest <= a /\ a < dest + n /\ q <= a /\ a < Room(q)
      <3>1. Room(q) \in Nat
        BY <1>2, HeldFacts DEF ProgramInv
      <3> QED
        BY <1>2, <1>3, <1>4, <1>9, <1>10, <3>1
    <2>2. p = q
      BY <1>2, <1>10, <2>1, OneBlock DEF ProgramInv
    <2> QED
      BY <1>2, <2>1, <2>2
  <1>11. ASSUME NEW p \in DOMAIN filled', NEW a \in Fill!Word,
                filled'[p].start <= a, a < p + live'[p], pc' # "idle" /\ Filling(p)' => a < R3'
         PROVE  mem'[a] = filled'[p].int[1] \cup filled'[p].int[2]
    <2>0. /\ p \in DOMAIN filled /\ p \in DOMAIN live /\ filled[p].start \in {p, p + 1}
          /\ filled[p].start <= a /\ a < p + live[p] /\ a \in Int
      BY <1>0, <1>9, <1>11 DEF ProgramInv, Fills
    <2>1. p <= a /\ a < Room(p)
      <3>1. p \in Nat /\ live[p] \in Nat /\ p + live[p] <= Room(p) /\ Room(p) \in Nat
        BY <2>0, HeldFacts DEF ProgramInv
      <3> QED
        BY <2>0, <3>1
    <2>2. CASE R3 <= a /\ a < to
      <3>1. p = q
        BY <1>10, <2>0, <2>1, <2>2
      <3> QED
        BY <1>0, <1>2, <1>8, <2>2, <3>1
    <2>3. CASE ~(R3 <= a /\ a < to)
      <3>1. Filling(p) => a < R3
        <4> SUFFICES ASSUME Filling(p) PROVE a < R3
          OBVIOUS
        <4>1. a < dest + n
          BY <2>0 DEF Filling
        <4>2. a < to
          BY <1>0, <1>4, <1>6, <1>11, <2>0, <4>1
        <4> QED
          BY <1>3, <2>0, <2>3, <4>2
      <3>2. mem[a] = filled[p].int[1] \cup filled[p].int[2]
        BY <2>0, <3>1 DEF ProgramInv, Stored
      <3> QED
        BY <1>0, <1>8, <2>3, <3>2
    <2> QED
      BY <2>2, <2>3
  <1>12. Stored'
    BY <1>8, <1>11 DEF Stored
  <1>13. NothingElseIsWritten'
    <2>1. ASSUME NEW p \in DOMAIN live, NEW a \in Fill!Word, p <= a, a < Room(p),
                 ~(p \in DOMAIN filled /\ filled[p].start <= a /\ a < p + live[p])
          PROVE  mem'[a] = Untouched
      <3>1. mem[a] = Untouched
        BY <2>1 DEF ProgramInv, NothingElseIsWritten, Room
      <3>2. ~(R3 <= a /\ a < to)
        BY <1>1, <1>10, <2>1
      <3> QED
        BY <1>8, <3>1, <3>2
    <2>2. ASSUME NEW a \in Fill!Word, ~(HeapStart <= a /\ a < heap_ptr) PROVE mem'[a] = Untouched
      <3>1. mem[a] = Untouched
        BY <2>2 DEF ProgramInv, NothingElseIsWritten
      <3>2. heap_ptr \in Nat /\ HeapStart \in Nat /\ a \in Int
        BY <1>9, BumpMallocAssumption DEF ProgramInv, Apart
      <3>3. ~(R3 <= a /\ a < to)
        BY <1>2, <1>3, <1>4, <2>2, <3>2
      <3> QED
        BY <1>8, <3>1, <3>3
    <2> QED
      BY <1>0, <2>1, <2>2 DEF NothingElseIsWritten, Room
  <1> QED
    BY <1>5, <1>7, <1>12, <1>13 DEF ProgramInv

\* A call of memset for a block that was not filled yet.
LEMMA FillCallKeeps == ASSUME SafeRequests, ProgramInv, FillCall PROVE ProgramInv'
  <1>1. PICK p \in DOMAIN live \ DOMAIN filled, i \in FillInt, skip \in 0..1 :
          /\ Fill!Call(p + skip, i, live[p] - skip)
          /\ filled' = With(filled, p, [start |-> p + skip, int |-> i])
          /\ UNCHANGED vars
    BY DEF FillCall
  <1>2. /\ pc = "idle" /\ pc' = "entry" /\ dest' = p + skip /\ c' = i /\ n' = live[p] - skip
        /\ R2' = live[p] - skip /\ R3' = p + skip /\ mem' = mem /\ live' = live /\ heap_ptr' = heap_ptr
    BY <1>1 DEF Fill!Call, vars
  <1>3. p \in Nat /\ live[p] \in Nat \ {0}
    BY HeldFacts DEF ProgramInv
  <1>4. /\ DOMAIN filled' = DOMAIN filled \cup {p}
        /\ filled'[p] = [start |-> p + skip, int |-> i]
        /\ \A q \in DOMAIN filled : q # p /\ filled'[q] = filled[q]
    BY <1>1 DEF With
  <1>5. Apart'
    BY <1>2 DEF ProgramInv, Apart, Room
  <1>6. Fills'
    <2>1. p + skip \in {p, p + 1}
      BY <1>3
    <2> QED
      BY <1>2, <1>4, <2>1 DEF ProgramInv, Fills
  <1>7. Filling(p)'
    BY <1>2, <1>3, <1>4 DEF Filling
  <1>8. Registers'
    BY <1>2, <1>3, <1>4, <1>7 DEF Registers
  <1>9. ASSUME NEW q \in DOMAIN filled', NEW a \in Fill!Word,
               filled'[q].start <= a, a < q + live'[q], pc' # "idle" /\ Filling(q)' => a < R3'
        PROVE  mem'[a] = filled'[q].int[1] \cup filled'[q].int[2]
    <2>1. CASE q = p
      <3>1. a < R3' /\ p + skip <= a /\ a \in Int
        BY <1>2, <1>4, <1>7, <1>9, <2>1, HeapFillAssumption DEF Fill!Word, Fill!WordMod
      <3> QED
        BY <1>2, <1>3, <3>1
    <2>2. CASE q \in DOMAIN filled
      BY <1>2, <1>4, <1>9, <2>2 DEF ProgramInv, Stored
    <2> QED
      BY <1>4, <2>1, <2>2
  <1>10. Stored'
    BY <1>2, <1>9 DEF ProgramInv, Stored
  <1>11. NothingElseIsWritten'
    BY <1>2, <1>4 DEF ProgramInv, NothingElseIsWritten
  <1> QED
    BY <1>5, <1>6, <1>8, <1>10, <1>11 DEF ProgramInv

\* What malloc and free do to the blocks held.
LEMMA HeapStepIs ==
  ASSUME SafeRequests, Apart, Next
  PROVE  /\ heap_ptr' \in Nat /\ heap_ptr <= heap_ptr'
         /\ \A p \in DOMAIN live' :
              \/ p \in DOMAIN live /\ live'[p] = live[p]
              \/ p = heap_ptr /\ p \notin DOMAIN live /\ p + AlignUp(live'[p]) = heap_ptr'
  <1>0. heap_ptr \in Nat
    BY BumpMallocAssumption DEF Apart
  <1>1. CASE \E size \in Request : MallocRefused(size)
    BY <1>0, <1>1 DEF MallocRefused, vars
  <1>2. ASSUME NEW size \in Request, Malloc(size)
        PROVE  /\ heap_ptr' \in Nat /\ heap_ptr <= heap_ptr'
               /\ \A p \in DOMAIN live' :
                    \/ p \in DOMAIN live /\ live'[p] = live[p]
                    \/ p = heap_ptr /\ p \notin DOMAIN live /\ p + AlignUp(live'[p]) = heap_ptr'
    <2>1. heap_ptr' = heap_ptr + AlignUp(size) /\ AlignUp(size) \in Nat
      BY <1>2, BumpedIs, AlignUpIs DEF Malloc
    <2>2. heap_ptr \notin DOMAIN live
      BY <1>0, HeldFacts
    <2>3. live' = live \/ live' = With(live, heap_ptr, size)
      BY <1>2 DEF Malloc
    <2> QED
      BY <1>0, <2>1, <2>2, <2>3 DEF With
  <1>3. ASSUME NEW r \in DOMAIN live, Free(r)
        PROVE  /\ heap_ptr' = heap_ptr
               /\ \A p \in DOMAIN live' : p \in DOMAIN live /\ live'[p] = live[p]
    BY <1>3 DEF Free, WithoutKey
  <1> QED
    BY <1>0, <1>1, <1>2, <1>3 DEF Next

\* malloc and free move no byte of memory, and a new block has never been written.
LEMMA HeapCallKeeps == ASSUME SafeRequests, ProgramInv, HeapCall PROVE ProgramInv'
  <1>1. /\ pc = "idle" /\ Next /\ pc' = pc /\ mem' = mem
        /\ filled' = [p \in DOMAIN filled \cap DOMAIN live' |-> filled[p]]
    BY DEF HeapCall, fillVars
  <1>2. Apart /\ Apart'
    BY <1>1, ApartKept DEF ProgramInv
  <1>3. /\ heap_ptr' \in Nat /\ heap_ptr <= heap_ptr' /\ heap_ptr \in Nat
        /\ \A p \in DOMAIN live' :
             \/ p \in DOMAIN live /\ live'[p] = live[p]
             \/ p = heap_ptr /\ p \notin DOMAIN live /\ p + AlignUp(live'[p]) = heap_ptr'
    BY <1>1, <1>2, HeapStepIs, BumpMallocAssumption DEF Apart
  <1>4. /\ DOMAIN filled' = DOMAIN filled \cap DOMAIN live'
        /\ \A p \in DOMAIN filled' : filled'[p] = filled[p]
    BY <1>1
  <1>5. \A p \in DOMAIN filled' : p \in DOMAIN filled /\ p \in DOMAIN live /\ live'[p] = live[p]
    BY <1>3, <1>4 DEF ProgramInv, Fills
  <1>6. Fills'
    BY <1>4, <1>5 DEF ProgramInv, Fills
  <1>7. Registers'
    BY <1>1 DEF Registers
  <1>8. Stored'
    BY <1>1, <1>4, <1>5 DEF ProgramInv, Stored
  <1>9. \A a \in Fill!Word : a \in Int
    BY HeapFillAssumption DEF Fill!Word, Fill!WordMod
  <1>10. \A a \in Fill!Word : ~(HeapStart <= a /\ a < heap_ptr) => mem'[a] = Untouched
    BY <1>1 DEF ProgramInv, NothingElseIsWritten
  <1>11. ASSUME NEW p \in DOMAIN live', NEW a \in Fill!Word, p <= a, a < p + AlignUp(live'[p]),
                ~(p \in DOMAIN filled' /\ filled'[p].start <= a /\ a < p + live'[p])
         PROVE  mem'[a] = Untouched
    <2>1. CASE p \in DOMAIN live /\ live'[p] = live[p]
      BY <1>1, <1>4, <1>11, <2>1 DEF ProgramInv, NothingElseIsWritten
    <2>2. CASE p = heap_ptr
      BY <1>3, <1>9, <1>10, <1>11, <2>2
    <2> QED
      BY <1>3, <2>1, <2>2
  <1>12. ASSUME NEW a \in Fill!Word, ~(HeapStart <= a /\ a < heap_ptr') PROVE mem'[a] = Untouched
    BY <1>3, <1>9, <1>10, <1>12
  <1>13. NothingElseIsWritten'
    BY <1>11, <1>12 DEF NothingElseIsWritten
  <1> QED
    BY <1>2, <1>6, <1>7, <1>8, <1>13 DEF ProgramInv

\* At the start nothing is held and nothing written.
LEMMA InitProgramInv == ProgramInit => ProgramInv
  <1> SUFFICES ASSUME ProgramInit PROVE ProgramInv
    OBVIOUS
  <1>1. /\ heap_ptr = HeapStart /\ DOMAIN live = {} /\ DOMAIN filled = {} /\ pc = "idle"
        /\ mem = [address \in Fill!Word |-> Untouched]
    BY DEF ProgramInit, Init, Fill!Init
  <1> QED
    BY <1>1, BumpMallocAssumption DEF ProgramInv, Apart, Fills, Registers, Stored, NothingElseIsWritten

\* Every step of the program keeps the invariant.
LEMMA NextProgramInv == ASSUME SafeRequests, ProgramInv, [ProgramNext]_programVars PROVE ProgramInv'
  <1>1. CASE UNCHANGED programVars
    <2>1. /\ UNCHANGED <<heap_ptr, live, filled, dest, c, n, R0, R2, R3, R5, mem, pc>>
      BY <1>1 DEF programVars, fillVars, vars
    <2>2. Apart' /\ Fills' /\ NothingElseIsWritten'
      BY <2>1 DEF ProgramInv, Apart, Room, Fills, NothingElseIsWritten
    <2>3. \A p \in DOMAIN filled : Filling(p)' = Filling(p)
      BY <2>1 DEF Filling
    <2>4. Registers'
      BY <2>1, <2>3 DEF ProgramInv, Registers
    <2>5. Stored'
      BY <2>1, <2>3 DEF ProgramInv, Stored
    <2> QED
      BY <2>2, <2>4, <2>5 DEF ProgramInv
  <1> QED
    BY <1>1, HeapCallKeeps, FillCallKeeps, FillStepKeeps DEF ProgramNext

-----------------------------------------------------------------------------
(* Theorems                                                                *)

\* The allocator, memset and the memory agree at every step.
THEOREM ProgramInvariance == ASSUME SafeRequests PROVE ProgramSpec => []ProgramInv
  BY InitProgramInv, NextProgramInv, PTL DEF ProgramSpec

\* memset's stores by words reach no byte outside the part of a block it was
\* called for, whatever the alignment and the size, and whatever the int.
THEOREM NothingElseIsEverWritten == ASSUME SafeRequests PROVE ProgramSpec => []NothingElseIsWritten
  <1>1. ProgramInv => NothingElseIsWritten
    BY DEF ProgramInv
  <1> QED
    BY <1>1, ProgramInvariance, PTL

\* Where the high byte of every int passed to memset has no bit that the low byte
\* lacks, as in a zero-extended char, every filled block holds the char and keeps
\* it through later calls.  memset.S:25 is why the condition is needed.
THEOREM FillsAreKept ==
  ASSUME SafeRequests, \A i \in FillInt : i[1] \subseteq i[2]
  PROVE  ProgramSpec => []BlocksKeepTheirFill
  <1>1. ASSUME ProgramInv PROVE BlocksKeepTheirFill
    <2> SUFFICES ASSUME pc = "idle", NEW p \in DOMAIN filled, NEW a \in Addresses(p), a >= filled[p].start
                 PROVE  mem[a] = filled[p].int[2]
      BY DEF BlocksKeepTheirFill
    <2>1. p \in DOMAIN live /\ filled[p].int \in FillInt /\ filled[p].start \in {p, p + 1}
      BY <1>1 DEF ProgramInv, Fills
    <2>2. /\ p \in Nat /\ live[p] \in Nat /\ p + live[p] <= Room(p) /\ Room(p) \in Nat
          /\ Room(p) <= heap_ptr /\ heap_ptr <= HeapEnd /\ HeapEnd < AddrMod
          /\ heap_ptr \in Nat /\ HeapEnd \in Nat /\ AddrMod \in Nat
      BY <1>1, <2>1, HeldFacts DEF ProgramInv
    <2>3. a \in Int /\ p <= a /\ a < p + live[p]
      BY <2>2 DEF Addresses
    <2>4. a \in Fill!Word
      BY <2>2, <2>3, HeapFillAssumption DEF Fill!Word, Fill!WordMod
    <2>5. filled[p].start <= a
      BY <2>1, <2>2, <2>3
    <2>6. mem[a] = filled[p].int[1] \cup filled[p].int[2]
      BY <1>1, <2>3, <2>4, <2>5 DEF ProgramInv, Stored
    <2>7. filled[p].int[1] \subseteq filled[p].int[2]
      BY <2>1
    <2> QED
      BY <2>6, <2>7
  <1> QED
    BY <1>1, ProgramInvariance, PTL

\* malloc implements Allocator: the blocks it returns lie in the heap and never
\* overlap one that is held, however many calls of malloc, free and memset came
\* before.
THEOREM MallocRefinement == ASSUME SafeRequests PROVE ProgramSpec => ImplementsAllocator
  <1>1. ProgramInit => Promise!Init
    BY DEF ProgramInit, Init, Promise!Init
  <1>2. ASSUME ProgramInv, [ProgramNext]_programVars PROVE [Promise!Next]_live
    <2>1. CASE HeapCall
      BY <1>2, <2>1, NextIsPromised DEF HeapCall, ProgramInv
    <2>2. CASE FillCall \/ FillStep \/ UNCHANGED programVars
      BY <2>2 DEF FillCall, FillStep, programVars, vars
    <2> QED
      BY <1>2, <2>1, <2>2 DEF ProgramNext
  <1> QED
    BY <1>1, <1>2, ProgramInvariance, PTL DEF ProgramSpec, ImplementsAllocator, Promise!Spec

=============================================================================
