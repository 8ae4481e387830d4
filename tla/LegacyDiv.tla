------------------------------ MODULE LegacyDiv -----------------------------
(***************************************************************************)
(* The unsigned division of the older runtime library,                     *)
(* runtime/tms9900_rt.asm: __udivsi3 and __umodsi3, which take one bit of  *)
(* the dividend in each round.                                             *)
(***************************************************************************)
EXTENDS Tms9900

\* Bits in a word (16).
WordBits == CHOOSE k \in 1..SignBit : 2^k = WordMod

VARIABLES
  fn,    \* the routine called
  n, d,  \* dividend and divisor it was called with
  R,     \* registers R0 to R7
  R13,   \* rounds to go
  pc

vars == <<fn, n, d, R, R13, pc>>

Init ==
  /\ fn \in {"__udivsi3", "__umodsi3"}
  /\ n \in Long /\ d \in Long
  /\ R = [i \in 0..7 |-> CASE i = 0 -> Hi(n) [] i = 1 -> Lo(n)
                           [] i = 2 -> Hi(d) [] i = 3 -> Lo(d) [] OTHER -> 0]
  /\ R13 = 0
  /\ pc = "entry"

\* By zero: all ones, or the dividend as the remainder.
DivideByZero ==
  /\ pc = "entry"
  /\ d = 0
  /\ R' = IF fn = "__udivsi3" THEN [R EXCEPT ![0] = WordMod - 1, ![1] = WordMod - 1] ELSE R
  /\ pc' = "done"
  /\ UNCHANGED <<fn, n, d, R13>>

Start ==
  /\ pc = "entry"
  /\ d # 0
  /\ R' = [i \in 0..7 |-> IF i < 4 THEN R[i] ELSE 0]
  /\ R13' = 2 * WordBits
  /\ pc' = "loop"
  /\ UNCHANGED <<fn, n, d>>

\* The high word of hi:lo moved left: the carry out of lo is added first.
ShiftedHigh(hi, lo) == SLA1(Add(Msb(lo), hi))

\* UDIV_LOOP and UMOD_LOOP, which does without the quotient in R6 and R7.
Round ==
  /\ pc = "loop"
  /\ LET bit == Msb(R[0])
         r4 == ShiftedHigh(R[4], R[5])
         r5 == Add(bit, SLA1(R[5]))
         fits == ~JL(r4, R[2]) /\ (JH(r4, R[2]) \/ ~JL(r5, R[3]))
         borrowed == IF NoBorrow(R[3], r5) THEN r4 ELSE Sub(1, r4)
     IN R' = [R EXCEPT
          ![0] = SLA1(R[0]) + Msb(R[1]),
          ![1] = SLA1(R[1]),
          ![4] = IF fits THEN Sub(R[2], borrowed) ELSE r4,
          ![5] = IF fits THEN Sub(R[3], r5) ELSE r5,
          ![6] = IF fn = "__udivsi3" THEN ShiftedHigh(R[6], R[7]) ELSE @,
          ![7] = IF fn = "__udivsi3" THEN SLA1(R[7]) + (IF fits THEN 1 ELSE 0) ELSE @]
  /\ R13' = R13 - 1
  /\ pc' = IF R13 = 1 THEN "return" ELSE "loop"
  /\ UNCHANGED <<fn, n, d>>

Return ==
  /\ pc = "return"
  /\ R' = IF fn = "__udivsi3" THEN [R EXCEPT ![0] = R[6], ![1] = R[7]]
                              ELSE [R EXCEPT ![0] = R[4], ![1] = R[5]]
  /\ pc' = "done"
  /\ UNCHANGED <<fn, n, d, R13>>

Done == pc = "done" /\ UNCHANGED vars

Next == DivideByZero \/ Start \/ Round \/ Return \/ Done

Spec == Init /\ [][Next]_vars

-----------------------------------------------------------------------------
(* Properties                                                              *)

\* tms9900_rt.asm:74 and :256, "Output: R0:R1 = quotient (high:low)" and
\* "remainder (high:low)": the routines return what their headers say.  They do
\* not: a bit that moves from the low word into the high one lands a place too
\* far to the left.
OutputIsQuotientOrRemainder ==
  pc = "done" /\ d # 0 =>
    Pair(R[0], R[1]) = IF fn = "__udivsi3" THEN n \div d ELSE n % d

=============================================================================
