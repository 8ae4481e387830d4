------------------------------- MODULE Memset -------------------------------
(***************************************************************************)
(* libtms9900/builtins/memset.S: fills a block, by words where it can.     *)
(* Memory holds bytes, each the set of its bits that are 1, or Untouched   *)
(* where nothing was written.  Addresses run over 0..WordMod-1 and wrap; a *)
(* word access ignores the lowest address bit.                             *)
(***************************************************************************)
EXTENDS Tms9900

CONSTANT Untouched  \* not a byte

VARIABLES
  dest, c, n,  \* the arguments of the call; c is <<high byte, low byte>>
  R0,          \* the fill word: high byte, low byte (dest is kept in R4)
  R2,          \* byte count
  R3,          \* destination pointer
  R5,          \* word count
  mem,
  pc

args == <<dest, c, n>>
vars == <<args, R0, R2, R3, R5, mem, pc>>

Plus(x, k) == (x + k) % WordMod
Odd(x) == x % 2 = 1
Even(x) == 2 * (x \div 2)

Init ==
  /\ dest = 0 /\ c = <<{}, {}>> /\ n = 0
  /\ R0 = <<{}, {}>> /\ R2 = 0 /\ R3 = 0 /\ R5 = 0
  /\ mem = [address \in Word |-> Untouched]
  /\ pc = "idle"

\* memset(d, i, k) is called.
Call(d, i, k) ==
  /\ pc = "idle"
  /\ dest' = d /\ c' = i /\ n' = k
  /\ R2' = k /\ R3' = d
  /\ pc' = "entry"
  /\ UNCHANGED <<R0, R5, mem>>

\* Mutant: the low byte is not copied up.
FillWordUnswapped(hi, lo) == <<hi, lo>>

\* SWPB R0; SOC R1,R0: the int or'ed with itself, its bytes swapped.
FillWord(hi, lo) == <<lo \cup hi, hi \cup lo>>

\* MOVB R0,*R3 stores the high byte; MOV R0,*R3 both.
StoreByte == mem' = [mem EXCEPT ![R3] = R0[1]]
StoreWord == mem' = [mem EXCEPT ![Even(R3)] = R0[1], ![Even(R3) + 1] = R0[2]]

\* Zero length returns at once; an odd start gets one byte first.
Entry ==
  /\ pc = "entry"
  /\ IF n = 0
       THEN pc' = "idle" /\ UNCHANGED <<R0, R2, R3, mem>>
       ELSE /\ R0' = FillWord(c[1], c[2])
            /\ pc' = IF Odd(R3) THEN "leadByte" ELSE "words"
            /\ UNCHANGED <<R2, R3, mem>>
  /\ UNCHANGED <<args, R5>>

\* Mutant: the count is not adjusted for the leading byte.
LeadByteUncounted ==
  /\ pc = "leadByte"
  /\ StoreByte
  /\ R3' = Plus(R3, 1)
  /\ pc' = "words"
  /\ UNCHANGED <<args, R0, R2, R5>>

LeadByte ==
  /\ pc = "leadByte"
  /\ StoreByte
  /\ R3' = Plus(R3, 1)
  /\ R2' = R2 - 1
  /\ pc' = IF R2 = 1 THEN "idle" ELSE "words"
  /\ UNCHANGED <<args, R0, R5>>

Words ==
  /\ pc = "words"
  /\ R5' = R2 \div 2
  /\ pc' = IF R2 \div 2 = 0 THEN "tail" ELSE "wordLoop"
  /\ UNCHANGED <<args, R0, R2, R3, mem>>

\* Mutant: the word count stays.
WordLoopForever ==
  /\ pc = "wordLoop"
  /\ StoreWord
  /\ UNCHANGED <<args, R0, R2, R3, R5, pc>>

WordLoop ==
  /\ pc = "wordLoop"
  /\ StoreWord
  /\ R3' = Plus(R3, 2)
  /\ R5' = R5 - 1
  /\ pc' = IF R5 = 1 THEN "tail" ELSE "wordLoop"
  /\ UNCHANGED <<args, R0, R2>>

Tail ==
  /\ pc = "tail"
  /\ R2' = R2 % 2
  /\ IF Odd(R2) THEN StoreByte ELSE UNCHANGED mem
  /\ pc' = "idle"
  /\ UNCHANGED <<args, R0, R3, R5>>

Step == Entry \/ LeadByte \/ Words \/ WordLoop \/ Tail

=============================================================================
