------------------------------ MODULE DivMod64 ------------------------------
(***************************************************************************)
(* libtms9900/builtins/i64: 64-bit division.  __udivdi3, __umoddi3,        *)
(* __divdi3 and __moddi3 all call __udivmoddi4, which divides pairs of     *)
(* words: by the 32-bit helpers or by shifting where that will do, and     *)
(* otherwise bit by bit, starting where the first bit of the quotient can  *)
(* be.                                                                     *)
(*                                                                         *)
(* A word has n_uword_bits bits (32 in the code).  The or of two words     *)
(* that share no bit is their sum.  A caller must not divide by zero.      *)
(***************************************************************************)
EXTENDS Powers

CONSTANTS
  n_uword_bits,
  UIntMod        \* values of an unsigned int, 2^16: sr wraps

ASSUME DivMod64Assumption ==
  /\ n_uword_bits \in Nat /\ n_uword_bits > 1
  /\ UIntMod \in Nat /\ UIntMod > 4 * n_uword_bits

WordMod == Pow2[n_uword_bits]
Word == 0..(WordMod - 1)
DWordMod == WordMod * WordMod
DWord == 0..(DWordMod - 1)

VARIABLES
  routine,                 \* the entry point called
  a, b,                    \* its arguments
  q_hi, q_lo, r_hi, r_lo,
  sr,                      \* bits of the quotient still to come
  carry,
  ret,                     \* what __udivmoddi4 returns: quotient and *rem
  pc

args == <<routine, a, b>>
digits == <<q_hi, q_lo, r_hi, r_lo, sr, carry>>
vars == <<args, digits, ret, pc>>

Routine == {"__udivdi3", "__umoddi3", "__divdi3", "__moddi3"}
IsSigned == routine \in {"__divdi3", "__moddi3"}
WantsQuotient == routine \in {"__udivdi3", "__divdi3"}

hi32(x) == x \div WordMod
lo32(x) == x % WordMod
make64(hi, lo) == (hi * WordMod) + lo

\* x << k and x >> k are defined for counts below the width only.
Shl(x, k) == [j \in 0..(n_uword_bits - 1) |-> (x * Pow2[j]) % WordMod][k]
Shr(x, k) == [j \in 0..(n_uword_bits - 1) |-> x \div Pow2[j]][k]

\* (x & (x - 1)) == 0, for x # 0, and the functions of the compiler.
IsPowerOf2(x) == \E k \in 0..(n_uword_bits - 1) : x = Pow2[k]
ctzsi(x) == CHOOSE k \in 0..(n_uword_bits - 1) : x % Pow2[k] = 0 /\ (x \div Pow2[k]) % 2 = 1
clzsi(x) == CHOOSE k \in 0..(n_uword_bits - 1) : Pow2[(n_uword_bits - 1) - k] <= x /\ x < Pow2[n_uword_bits - k]

-----------------------------------------------------------------------------
(* Signs                                                                   *)

Negative(x) == 2 * x >= DWordMod

\* (x ^ s) + (-s), with s all ones or zero.
NegatedIf(x, s) == IF s THEN (DWordMod - x) % DWordMod ELSE x

\* The operands __udivmoddi4 is called with.
n == NegatedIf(a, IsSigned /\ Negative(a))
d == NegatedIf(b, IsSigned /\ Negative(b))

n_hi == hi32(n)
n_lo == lo32(n)
d_hi == hi32(d)
d_lo == lo32(d)

-----------------------------------------------------------------------------
(* Calls                                                                   *)

Init ==
  /\ routine \in Routine
  /\ a \in DWord /\ b \in DWord \ {0}
  /\ q_hi = 0 /\ q_lo = 0 /\ r_hi = 0 /\ r_lo = 0 /\ sr = 0 /\ carry = 0
  /\ ret = [quot |-> 0, rem |-> 0]
  /\ pc = "entry"

Answer(quot, rem) ==
  /\ pc = "entry"
  /\ ret' = [quot |-> quot, rem |-> rem]
  /\ pc' = "return"
  /\ UNCHANGED <<args, digits>>

\* 0 X / 0 X, by the 32-bit division, and 0 X / K X.
SmallDividend ==
  /\ n_hi = 0
  /\ IF d_hi = 0 THEN Answer(n_lo \div d_lo, n_lo % d_lo) ELSE Answer(0, n_lo)

\* K 0 / K 0
LowWordsZero ==
  /\ n_hi # 0 /\ d_lo = 0 /\ n_lo = 0
  /\ Answer(n_hi \div d_hi, make64(n_hi % d_hi, 0))

\* K K / K 0, d a power of two.
ShiftHighWord ==
  /\ n_hi # 0 /\ d_lo = 0 /\ n_lo # 0 /\ IsPowerOf2(d_hi)
  /\ Answer(Shr(n_hi, ctzsi(d_hi)), make64(n_hi % d_hi, n_lo))

\* K X / 0 K, d a power of two.
ShiftBothWords ==
  /\ n_hi # 0 /\ d_hi = 0 /\ IsPowerOf2(d_lo)
  /\ IF d_lo = 1
       THEN Answer(n, 0)
       ELSE LET s == ctzsi(d_lo)
            IN Answer(make64(Shr(n_hi, s), Shl(n_hi, n_uword_bits - s) + Shr(n_lo, s)), n_lo % d_lo)

\* The cases above return.
Special ==
  \/ n_hi = 0
  \/ d_lo = 0 /\ (n_lo = 0 \/ IsPowerOf2(d_hi))
  \/ d_hi = 0 /\ IsPowerOf2(d_lo)

\* How many places the first digit of d is to the right of that of n.
Distance == (clzsi(d_hi) - clzsi(n_hi)) % UIntMod

\* The largest distance at which there is a quotient; a larger one has wrapped.
\* Mutant: the limit for a low word of zero is used for all divisors.
MaxDistanceSame == n_uword_bits - 2
MaxDistance == IF d_lo = 0 THEN n_uword_bits - 2 ELSE n_uword_bits - 1

\* K X / K X with a dividend shorter than the divisor.
ShorterDividend ==
  /\ ~Special /\ d_hi # 0
  /\ Distance > MaxDistance
  /\ Answer(0, n)

\* q = n << (n_udword_bits - s) and r = n >> s, by words.
Start(s) ==
  /\ sr' = s
  /\ IF s = n_uword_bits
       THEN q_hi' = n_lo /\ q_lo' = 0 /\ r_hi' = 0 /\ r_lo' = n_hi
     ELSE IF s < n_uword_bits
       THEN /\ q_hi' = Shl(n_lo, n_uword_bits - s)
            /\ q_lo' = 0
            /\ r_hi' = Shr(n_hi, s)
            /\ r_lo' = Shl(n_hi, n_uword_bits - s) + Shr(n_lo, s)
       ELSE /\ q_hi' = Shl(n_hi, (2 * n_uword_bits) - s) + Shr(n_lo, s - n_uword_bits)
            /\ q_lo' = Shl(n_lo, (2 * n_uword_bits) - s)
            /\ r_hi' = 0
            /\ r_lo' = Shr(n_hi, s - n_uword_bits)
  /\ carry' = 0

StartLoop ==
  /\ pc = "entry"
  /\ ~Special
  /\ IF d_hi = 0
       THEN Start((1 + n_uword_bits + clzsi(d_lo) - clzsi(n_hi)) % UIntMod)
       ELSE Distance <= MaxDistance /\ Start(Distance + 1)
  /\ pc' = "loop"
  /\ UNCHANGED <<args, ret>>

-----------------------------------------------------------------------------
(* The loop                                                                *)

TopBit(x) == Shr(x, n_uword_bits - 1)

\* new_lo > r_lo after the subtraction of the low words.
\* Mutant: no borrow.
BorrowNever(low, new_lo) == 0
Borrow(low, new_lo) == IF new_lo > low THEN 1 ELSE 0

\* Mutant: the count stays.
CountedNot == sr
Counted == sr - 1

\* r:q moves one place to the left, and d is subtracted from r if it fits.
DivLoop ==
  /\ pc = "loop" /\ sr > 0
  /\ LET high == Shl(r_hi, 1) + TopBit(r_lo)
         low == Shl(r_lo, 1) + TopBit(q_hi)
         new_lo == (low - d_lo) % WordMod
         fits == high > d_hi \/ (high = d_hi /\ low >= d_lo)
     IN /\ r_hi' = IF fits THEN (high - d_hi - Borrow(low, new_lo)) % WordMod ELSE high
        /\ r_lo' = IF fits THEN new_lo ELSE low
        /\ carry' = IF fits THEN 1 ELSE 0
  /\ q_hi' = Shl(q_hi, 1) + TopBit(q_lo)
  /\ q_lo' = Shl(q_lo, 1) + carry
  /\ sr' = Counted
  /\ UNCHANGED <<args, ret, pc>>

LoopEnds ==
  /\ pc = "loop" /\ sr = 0
  /\ q_hi' = Shl(q_hi, 1) + TopBit(q_lo)
  /\ q_lo' = Shl(q_lo, 1) + carry
  /\ ret' = [quot |-> make64(q_hi', q_lo'), rem |-> make64(r_hi, r_lo)]
  /\ pc' = "return"
  /\ UNCHANGED <<args, r_hi, r_lo, sr, carry>>

\* What the entry point makes of it: the sign of the quotient is that of both
\* operands, that of the remainder the dividend's.
Result ==
  IF WantsQuotient
    THEN NegatedIf(ret.quot, IsSigned /\ Negative(a) # Negative(b))
    ELSE NegatedIf(ret.rem, IsSigned /\ Negative(a))

Returned == pc = "return" /\ UNCHANGED vars

Next ==
  \/ SmallDividend \/ LowWordsZero \/ ShiftHighWord \/ ShiftBothWords \/ ShorterDividend
  \/ StartLoop \/ DivLoop \/ LoopEnds
  \/ Returned

Spec == Init /\ [][Next]_vars
FairSpec == Spec /\ WF_vars(Next)

-----------------------------------------------------------------------------
(* Properties                                                              *)

\* In the loop of __udivmoddi4 the digits found so far, the remainder and the
\* digits of the dividend still in q make up the dividend, and the remainder is
\* smaller than the divisor, although the words of r shift with no room for a
\* carry out.
LoopInvariant ==
  pc = "loop" =>
    LET q == make64(q_hi, q_lo)
        r == make64(r_hi, r_lo)
        rest == q \div Pow2[(2 * n_uword_bits) - sr]
        found == (2 * (q % Pow2[(2 * n_uword_bits) - sr])) + carry
    IN /\ r < d
       /\ n = (((found * d) + r) * Pow2[sr]) + rest

Value(x) == IF IsSigned /\ Negative(x) THEN x - DWordMod ELSE x
Abs(x) == IF x < 0 THEN -x ELSE x

\* All four routines return the quotient cut off towards zero and the remainder
\* with the sign of the dividend, as C wants them.  The one quotient that is too
\* large, of the most negative number by -1, wraps around.
DivisionCorrect ==
  pc = "return" =>
    LET x == Value(a)
        y == Value(b)
        rem == IF WantsQuotient THEN x - (Value(Result) * y) ELSE Value(Result)
    IN \/ Abs(rem) < Abs(y) /\ rem * x >= 0 /\ (x - rem) % Abs(y) = 0
       \/ WantsQuotient /\ y = -1 /\ Result = a /\ 2 * a = DWordMod

\* Every call returns: sr, unsigned, comes down to zero.
Returns == <>(pc = "return")

=============================================================================
