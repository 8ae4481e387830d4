------------------------------ MODULE HeapFill ------------------------------
(***************************************************************************)
(* A program on top of the library's malloc and memset: it asks for blocks *)
(* of any size and fills each once, all of it or all but its first byte.   *)
(* The fill goes by words where it can, next to blocks that are in use.    *)
(***************************************************************************)
EXTENDS BumpMalloc

CONSTANTS
  Bits,                \* of a byte, 0..7 in the code
  Untouched,           \* not a byte
  SignBit, DestFirst,  \* the processor, see Tms9900
  FillInt              \* the ints passed to memset: <<high byte, low byte>>

ASSUME HeapFillAssumption ==
  /\ SignBit \in Nat /\ AddrMod = 2 * SignBit
  /\ \A byte \in SUBSET Bits : byte # Untouched
  /\ FillInt \subseteq (SUBSET Bits) \X (SUBSET Bits)

VARIABLES
  dest, c, n, R0, R2, R3, R5, mem, pc,  \* the state of memset
  filled  \* held blocks that were filled -> where the fill starts, and the int

Fill == INSTANCE Memset

fillVars == <<dest, c, n, R0, R2, R3, R5, mem, pc>>
programVars == <<vars, fillVars, filled>>

ProgramInit ==
  /\ Init
  /\ Fill!Init
  /\ filled = << >>

\* One thread: malloc and free are called while memset is not running.
HeapCall ==
  /\ pc = "idle"
  /\ Next
  /\ filled' = [p \in DOMAIN filled \cap DOMAIN live' |-> filled[p]]
  /\ UNCHANGED fillVars

FillCall ==
  \E p \in DOMAIN live \ DOMAIN filled, i \in FillInt, skip \in 0..1 :
    /\ Fill!Call(p + skip, i, live[p] - skip)
    /\ filled' = With(filled, p, [start |-> p + skip, int |-> i])
    /\ UNCHANGED vars

FillStep ==
  /\ Fill!Step
  /\ UNCHANGED <<vars, filled>>

ProgramNext == HeapCall \/ FillCall \/ FillStep

ProgramSpec == ProgramInit /\ [][ProgramNext]_programVars
ProgramFairSpec == ProgramSpec /\ WF_programVars(FillStep)

-----------------------------------------------------------------------------
(* Properties                                                              *)

Addresses(p) == p..(p + live[p] - 1)

\* memset.S:4, "R1 = fill char (low byte)": every byte filled in a block holds
\* the low byte of the int, and still does after any later allocation and fill.
\* True for ints whose high byte adds no bit to the low one.
BlocksKeepTheirFill ==
  pc = "idle" =>
    \A p \in DOMAIN filled : \A a \in Addresses(p) :
      a >= filled[p].start => mem[a] = filled[p].int[2]

\* A word stored by memset never reaches a byte that was not to be filled: the
\* blocks that were not filled yet, the bytes skipped, the padding of odd sizes
\* and all that lies outside the heap stay as they were.
NothingElseIsWritten ==
  /\ \A p \in DOMAIN live, a \in Fill!Word :
       /\ p <= a /\ a < p + AlignUp(live[p])
       /\ ~(p \in DOMAIN filled /\ filled[p].start <= a /\ a < p + live[p])
       => mem[a] = Untouched
  /\ \A a \in Fill!Word : ~(HeapStart <= a /\ a < heap_ptr) => mem[a] = Untouched

\* Every call of memset returns.
FillReturns == pc = "entry" ~> pc = "idle"

=============================================================================
