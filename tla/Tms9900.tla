------------------------------ MODULE Tms9900 -------------------------------
(***************************************************************************)
(* The part of the TMS9900 that the hand-written assembly of libtms9900    *)
(* and runtime/ relies on, for a word whose sign bit weighs SignBit (2^15  *)
(* on the chip).                                                           *)
(* External: the processor and the assembler are not in the repository;    *)
(* the meanings are those the comments in div32.S and KNOWN_PROBLEMS.md    *)
(* give.                                                                   *)
(***************************************************************************)
EXTENDS Integers

CONSTANTS
  SignBit,
  DestFirst  \* whether `C x,y` sets L> when y > x, as div32.S:224 and
             \* KNOWN_PROBLEMS.md:20 and :119 have it, or when x > y, which is
             \* what memmove.S:27 and startup.S are written for

ASSUME Tms9900Assumption ==
  /\ SignBit \in Nat \ {0}
  /\ DestFirst \in BOOLEAN

WordMod == 2 * SignBit
Word == 0..(WordMod - 1)
LongMod == WordMod * WordMod
Long == 0..(LongMod - 1)

\* A pair of registers high:low as one number, and back.
Pair(hi, lo) == hi * WordMod + lo
Hi(x) == x \div WordMod
Lo(x) == x % WordMod

\* Unsigned "higher" after C x,y.
LogicallyGreater(x, y) == IF DestFirst THEN y > x ELSE x > y

\* Jumps after C x,y.
JH(x, y) == LogicallyGreater(x, y)
JL(x, y) == ~LogicallyGreater(x, y) /\ x # y
JLE(x, y) == ~LogicallyGreater(x, y) \/ x = y

\* The bit SLA x,1 and SLC move into the carry, and what they leave.
Msb(x) == IF x >= SignBit THEN 1 ELSE 0
SLA1(x) == (2 * x) % WordMod

\* A x,y and S x,y leave the sum and the difference modulo the word; the carry
\* of S is set when there was no borrow.
Add(x, y) == (y + x) % WordMod
Sub(x, y) == (y - x) % WordMod
NoBorrow(x, y) == y >= x

INV(x) == WordMod - 1 - x
Negative(x) == Msb(x) = 1

\* A register pair read as a two's complement number.
SignedLong(x) == IF x >= LongMod \div 2 THEN x - LongMod ELSE x

=============================================================================
