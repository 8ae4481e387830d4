-------------------------------- MODULE Div32 -------------------------------
(***************************************************************************)
(* libtms9900/builtins/div32.S: the four division helpers the compiler     *)
(* calls, __udivsi3, __umodsi3, __divsi3 and __modsi3, over their shared   *)
(* core UDIV32, which divides with the hardware DIV when it can and by     *)
(* shift and subtract otherwise.  One step of the loop is one action; the  *)
(* registers are words, with the carries the code handles itself.          *)
(***************************************************************************)
EXTENDS Tms9900, Powers

CONSTANT WordBits  \* bits in a word (16)

ASSUME Div32Assumption == WordBits \in Nat /\ WordMod = Pow2[WordBits]

VARIABLES
  fn,  \* the helper called
  n,   \* the dividend it was called with (R0:R1)
  d,   \* the divisor it was called with (R2:R3)
  R,   \* registers R0 to R9
  pc   \* "entry", "udiv32", "software", "loop", "return", "done"

vars == <<fn, n, d, R, pc>>

Function == {"__udivsi3", "__umodsi3", "__divsi3", "__modsi3"}
IsSigned(f) == f \in {"__divsi3", "__modsi3"}
WantsQuotient(f) == f \in {"__udivsi3", "__divsi3"}

Init ==
  /\ fn \in Function
  /\ n \in Long
  /\ d \in Long
  /\ R = [i \in 0..9 |-> CASE i = 0 -> Hi(n) [] i = 1 -> Lo(n)
                           [] i = 2 -> Hi(d) [] i = 3 -> Lo(d) [] OTHER -> 0]
  /\ pc = "entry"

-----------------------------------------------------------------------------
\* Mutant: no carry into the high word.
NegHiNoCarry(hi, lo) == INV(hi)

\* NEG32_01 and NEG32_23: invert both words, add one, carry into the high word
\* when the low word wraps to zero.
NegHi(hi, lo) == IF INV(lo) + 1 = WordMod THEN Add(1, INV(hi)) ELSE INV(hi)
NegLo(lo) == Add(1, INV(lo))

\* The signed helpers make both operands positive and keep in R9 whether the
\* result is to be negated: the sign of the quotient for __divsi3, of the
\* dividend for __modsi3.  The unsigned ones go straight to UDIV32.
Entry ==
  /\ pc = "entry"
  /\ pc' = "udiv32"
  /\ IF IsSigned(fn)
       THEN LET negN == Negative(R[0])
                negD == Negative(R[2])
                flip == IF fn = "__divsi3" THEN negN # negD ELSE negN
            IN R' = [R EXCEPT
                 ![0] = IF negN THEN NegHi(R[0], R[1]) ELSE @,
                 ![1] = IF negN THEN NegLo(R[1]) ELSE @,
                 ![2] = IF negD THEN NegHi(R[2], R[3]) ELSE @,
                 ![3] = IF negD THEN NegLo(R[3]) ELSE @,
                 ![9] = IF flip THEN WordMod - 1 ELSE 0]
       ELSE UNCHANGED R
  /\ UNCHANGED <<fn, n, d>>

\* UDIV32 takes the hardware divide for a nonzero one-word divisor above the
\* dividend's high word: anything else would overflow DIV.
FastPath == R[2] = 0 /\ R[3] # 0 /\ ~JLE(R[0], R[3])

\* DIV src,Rd leaves Rd and Rd+1 alone when the quotient does not fit.
HardwareDiv ==
  /\ pc = "udiv32"
  /\ FastPath
  /\ LET fits == R[0] < R[3]
         q == IF fits THEN Pair(R[0], R[1]) \div R[3] ELSE R[0]
         r == IF fits THEN Pair(R[0], R[1]) % R[3] ELSE R[1]
     IN R' = [R EXCEPT ![0] = q, ![1] = r, ![4] = 0, ![5] = q, ![6] = 0, ![7] = r]
  /\ pc' = "return"
  /\ UNCHANGED <<fn, n, d>>

\* UDIV32_SW: remainder 0, quotient register = dividend, one round per bit.
SoftwareDiv ==
  /\ pc = "udiv32"
  /\ ~FastPath
  /\ R' = [R EXCEPT ![4] = R[0], ![5] = R[1], ![6] = 0, ![7] = 0,
                    ![8] = 2 * WordBits]
  /\ pc' = "loop"
  /\ UNCHANGED <<fn, n, d>>

\* SLA with a saved bit added in, and the loop count.
RolledLosesBit(x, bit) == SLA1(x)  \* mutant
Rolled(x, bit) == Add(bit, SLA1(x))
CountedNot(k) == k                 \* mutant
Counted(k) == k - 1

\* One round: shift R6:R7:R4:R5 left by one, then subtract the divisor from
\* the remainder R6:R7 and set the quotient's low bit if it fits.
DivLoop ==
  /\ pc = "loop"
  /\ LET r5 == SLA1(R[5])
         r4 == SLA1(R[4]) + Msb(R[5])
         r7 == Rolled(R[7], Msb(R[4]))
         r6 == Rolled(R[6], Msb(R[7]))
         skip == \/ JH(r6, R[2])
                 \/ ~JL(r6, R[2]) /\ JH(r7, R[3])
         borrowed == IF NoBorrow(R[3], r7) THEN r6 ELSE Sub(1, r6)
     IN R' = [R EXCEPT
          ![0] = Msb(R[4]),
          ![1] = Msb(R[7]),
          ![4] = r4,
          ![5] = IF skip THEN r5 ELSE r5 + 1,
          ![6] = IF skip THEN r6 ELSE Sub(R[2], borrowed),
          ![7] = IF skip THEN r7 ELSE Sub(R[3], r7),
          ![8] = Counted(@)]
  /\ pc' = IF Counted(R[8]) = 0 THEN "return" ELSE "loop"
  /\ UNCHANGED <<fn, n, d>>

\* Whether the helper negates the result: R9, which the unsigned ones leave alone.
Negates == IsSigned(fn) /\ R[9] # 0

\* Back in the helper: pick quotient or remainder, apply the sign.
Return ==
  /\ pc = "return"
  /\ LET hi == IF WantsQuotient(fn) THEN R[4] ELSE R[6]
         lo == IF WantsQuotient(fn) THEN R[5] ELSE R[7]
     IN R' = [R EXCEPT ![0] = IF Negates THEN NegHi(hi, lo) ELSE hi,
                       ![1] = IF Negates THEN NegLo(lo) ELSE lo]
  /\ pc' = "done"
  /\ UNCHANGED <<fn, n, d>>

Done == pc = "done" /\ UNCHANGED vars

Next == Entry \/ HardwareDiv \/ SoftwareDiv \/ DivLoop \/ Return \/ Done

Spec == Init /\ [][Next]_vars

FairSpec == Spec /\ WF_vars(Next)

-----------------------------------------------------------------------------
(* Properties                                                              *)

\* The operands UDIV32 works on: magnitudes for the signed helpers.
Abs(x) == IF SignedLong(x) < 0 THEN -SignedLong(x) ELSE SignedLong(x)
Dividend == IF IsSigned(fn) THEN Abs(n) ELSE n
Divisor == IF IsSigned(fn) THEN Abs(d) ELSE d

Remainder == Pair(R[6], R[7])
QuotientReg == Pair(R[4], R[5])

\* Shift-and-subtract, between two rounds: with k rounds to go, the bits of the
\* dividend above the lowest k have been divided - the remainder register
\* holds their remainder, the low bits of the quotient register their
\* quotient, and its upper bits the rest of the dividend.  In particular the
\* remainder never loses a bit when it is shifted, even for divisors of 2^31
\* and more.
LoopInvariant ==
  pc = "loop" /\ Divisor # 0 =>
    LET k == R[8]
        taken == Dividend \div Pow2[k]
    IN /\ Remainder = taken % Divisor
       /\ QuotientReg =
            (Dividend % Pow2[k]) * Pow2[2 * WordBits - k] + taken \div Divisor

\* C division: truncation towards zero, modulo the width.
Quotient == IF IsSigned(fn) /\ (SignedLong(n) < 0) # (SignedLong(d) < 0)
              THEN (-(Dividend \div Divisor)) % LongMod
              ELSE Dividend \div Divisor
Rest == IF IsSigned(fn) /\ SignedLong(n) < 0
          THEN (-(Dividend % Divisor)) % LongMod
          ELSE Dividend % Divisor

\* Each helper returns what C's / and % prescribe, the most negative number
\* over minus one wrapping to itself.  This is with the compare instruction as
\* div32.S:224 states it.  PROJECT_JOURNAL.md:1354 notes wrong results of the
\* software path for dividends such as 0x30000 over 3: so it is with DestFirst
\* = FALSE, and not as the file reads the instruction.
DivisionCorrect ==
  pc = "done" /\ d # 0 =>
    Pair(R[0], R[1]) = IF WantsQuotient(fn) THEN Quotient ELSE Rest

\* Every call returns.
Terminates == <>(pc = "done")

=============================================================================
