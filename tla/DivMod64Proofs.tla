--------------------------- MODULE DivMod64Proofs ---------------------------
(***************************************************************************)
(* Theorems about DivMod64, for words of every width: the loop of          *)
(* __udivmoddi4 keeps its invariant, and all four routines return what C   *)
(* says they do.  The lemmas on numbers come first, with names for the     *)
(* powers of two; the words and the program follow.                        *)
(***************************************************************************)
EXTENDS DivMod64, Arithmetic

-----------------------------------------------------------------------------
(* Numbers                                                                 *)

\* A double word doubled, with a bit shifted in: the words of the sum, and the bit
\* that is shifted out.
Doubled(H, W, hi, lo, c) ==
  /\ hi \div H \in {0, 1}
  /\ ((2 * hi) % W) + (lo \div H) \in 0..(W - 1)
  /\ ((2 * lo) % W) + c \in 0..(W - 1)
  /\ ((((2 * hi) % W) + (lo \div H)) * W) + (((2 * lo) % W) + c)
       = ((2 * ((hi * W) + lo)) + c) - ((hi \div H) * (W * W))

\* That is what doubling comes to, H half a word.
LEMMA DoubleWords ==
  ASSUME NEW H \in Nat \ {0}, NEW W \in Nat, W = 2 * H,
         NEW hi \in 0..(W - 1), NEW lo \in 0..(W - 1), NEW c \in {0, 1}
  PROVE  Doubled(H, W, hi, lo, c)
  <1>1. ASSUME NEW x \in 0..(W - 1)
        PROVE  \E t \in {0, 1} : x \div H = t /\ (2 * x) % W = (2 * x) - (t * W) /\ (2 * x) - (t * W) \in 0..(W - 2)
    <2> DEFINE t == IF x < H THEN 0 ELSE 1
               r == x - (t * H)
               y == 2 * x
               s == y - (t * W)
    <2>1. t \in {0, 1} /\ x \in Nat /\ W \in Nat \ {0}
      OBVIOUS
    <2>2. r \in Nat /\ r < H /\ x = (t * H) + r
      OBVIOUS
    <2>3. y \in Nat /\ s \in 0..(W - 2) /\ y = (t * W) + s
      OBVIOUS
    <2> HIDE DEF t, r, y, s
    <2>4. x \div H = t
      BY <2>1, <2>2, DivModUnique
    <2>5. s \in Nat /\ s < W
      BY <2>3
    <2>6. y % W = s
      BY <2>1, <2>3, <2>5, DivModUnique
    <2> QED
      BY <2>1, <2>3, <2>4, <2>6 DEF y, s
  <1>2. PICK t \in {0, 1} : hi \div H = t /\ (2 * hi) % W = (2 * hi) - (t * W) /\ (2 * hi) - (t * W) \in 0..(W - 2)
    BY <1>1
  <1>3. PICK v \in {0, 1} : lo \div H = v /\ (2 * lo) % W = (2 * lo) - (v * W) /\ (2 * lo) - (v * W) \in 0..(W - 2)
    BY <1>1
  <1>4. ((((2 * hi) - (t * W)) + v) * W) + (((2 * lo) - (v * W)) + c)
          = ((2 * ((hi * W) + lo)) + c) - (t * (W * W))
    OBVIOUS
  <1>5. ((2 * hi) - (t * W)) + v \in 0..(W - 1) /\ ((2 * lo) - (v * W)) + c \in 0..(W - 1)
    BY <1>2, <1>3
  <1> QED
    BY <1>2, <1>3, <1>4, <1>5 DEF Doubled

\* The subtraction of double words, word by word with a borrow.
Subtraction(W, high, low, dh, dl, new, brw, fits) ==
  /\ W \in Nat \ {0}
  /\ high \in 0..(W - 1) /\ low \in 0..(W - 1) /\ dh \in 0..(W - 1) /\ dl \in 0..(W - 1)
  /\ new = (low - dl) % W
  /\ brw = IF new > low THEN 1 ELSE 0
  /\ fits \in BOOLEAN /\ (fits <=> (high > dh \/ (high = dh /\ low >= dl)))

\* What it computes: fits compares the double words, and where it does the words
\* that result are those of the difference.
Subtracted(W, high, low, dh, dl, new, brw, fits) ==
  /\ fits <=> (dh * W) + dl <= (high * W) + low
  /\ fits => /\ new \in 0..(W - 1) /\ (high - dh - brw) % W \in 0..(W - 1)
             /\ (((high - dh - brw) % W) * W) + new = ((high * W) + low) - ((dh * W) + dl)

\* The subtraction is right.
LEMMA SubtractWords ==
  ASSUME NEW W, NEW high, NEW low, NEW dh, NEW dl, NEW new, NEW brw, NEW fits,
         Subtraction(W, high, low, dh, dl, new, brw, fits)
  PROVE  Subtracted(W, high, low, dh, dl, new, brw, fits)
  <1> USE DEF Subtraction, Subtracted
  <1>1. high \in Nat /\ dh \in Nat /\ high * W \in Nat /\ dh * W \in Nat
    BY Product
  <1> DEFINE hw == high * W
             dw == dh * W
  <1>2. CASE high > dh
    <2>1. dw + W <= hw
      BY <1>1, <1>2, ProductOrder
    <2> HIDE DEF hw, dw
    <2>2. (dh * W) + dl <= (high * W) + low
      BY <1>1, <2>1 DEF hw, dw
    <2>3. CASE low >= dl
      <3>1. new = low - dl /\ brw = 0
        BY <2>3
      <3>2. (high - dh - brw) % W = high - dh
        BY <1>2, <3>1
      <3>3. (high - dh) * W = (high * W) - (dh * W)
        OBVIOUS
      <3> QED
        BY <1>1, <1>2, <2>2, <2>3, <3>1, <3>2, <3>3
    <2>4. CASE ~(low >= dl)
      <3>1. new = (low - dl) + W
        BY <2>4
      <3>2. brw = 1
        BY <3>1
      <3>3. (high - dh - brw) % W = (high - dh) - 1
        BY <1>2, <3>2
      <3>4. ((high - dh) - 1) * W = ((high * W) - (dh * W)) - W
        OBVIOUS
      <3> QED
        BY <1>1, <1>2, <2>2, <2>4, <3>1, <3>3, <3>4
    <2> QED
      BY <2>3, <2>4
  <1>3. CASE high = dh
    <2>1. CASE low >= dl
      <3>1. new = low - dl /\ brw = 0
        BY <2>1
      <3>2. (high - dh - brw) % W = 0
        BY <1>3, <3>1
      <3> QED
        BY <1>1, <1>3, <2>1, <3>1, <3>2
    <2>2. CASE ~(low >= dl)
      BY <1>1, <1>3, <2>2
    <2> QED
      BY <2>1, <2>2
  <1>4. CASE high < dh
    <2>1. hw + W <= dw
      BY <1>1, <1>4, ProductOrder
    <2> HIDE DEF hw, dw
    <2>2. ~((dh * W) + dl <= (high * W) + low)
      BY <1>1, <2>1 DEF hw, dw
    <2> QED
      BY <1>4, <2>2
  <1> QED
    BY <1>2, <1>3, <1>4

\* A word cut in two: S * T is the size of a word.
LEMMA CutWord ==
  ASSUME NEW S \in Nat \ {0}, NEW T \in Nat \ {0}, NEW W \in Nat, W = S * T, NEW x \in 0..(W - 1)
  PROVE  /\ x \div S \in 0..(T - 1) /\ x % S \in 0..(S - 1)
         /\ x = ((x \div S) * S) + (x % S)
         /\ (x * T) % W = (x % S) * T
  <1> DEFINE x1 == x \div S
             x0 == x % S
  <1>1. x \in Nat /\ x < T * S /\ T * S = S * T
    OBVIOUS
  <1>2. x1 \in Nat /\ x0 \in 0..(S - 1) /\ x = (x1 * S) + x0
    BY <1>1, DivMod
  <1>3. x1 \in 0..(T - 1)
    BY <1>1, QuotientBelow
  <1> HIDE DEF x1, x0
  <1>4. (x * T) % W = x0 * T
    <2> DEFINE y == x * T
               r == x0 * T
    <2>1. y = (x1 * W) + r
      BY <1>2
    <2>2. y \in Nat /\ r \in Nat /\ W \in Nat \ {0}
      <3>1. 1 * T <= S * T
        BY Times
      <3> QED
        BY <1>1, <1>2, <3>1
    <2>3. r < W
      <3>1. (x0 * T) + T <= S * T
        BY <1>2, ProductOrder
      <3> HIDE DEF r
      <3> QED
        BY <2>2, <3>1 DEF r
    <2> HIDE DEF y, r
    <2>4. y % W = r
      BY <1>2, <2>1, <2>2, <2>3, DivModUnique
    <2> QED
      BY <2>4 DEF y, r
  <1> QED
    BY <1>2, <1>3, <1>4 DEF x1, x0

\* Two words joined by parts of both: a word.
LEMMA JoinParts ==
  ASSUME NEW S \in Nat \ {0}, NEW T \in Nat \ {0}, NEW x0 \in 0..(S - 1), NEW y1 \in 0..(T - 1)
  PROVE  x0 * T \in Nat /\ (x0 * T) + y1 \in 0..((S * T) - 1)
  <1>1. (x0 * T) + T <= S * T /\ x0 * T \in Nat /\ S * T \in Nat
    BY ProductOrder, Product
  <1> DEFINE xt == x0 * T
             st == S * T
  <1>2. xt + T <= st /\ xt \in Nat /\ st \in Nat
    BY <1>1
  <1> HIDE DEF xt, st
  <1>3. xt \in Nat /\ xt + y1 \in 0..(st - 1)
    BY <1>2
  <1> QED
    BY <1>3 DEF xt, st

\* A double word shifted right by less than a word, S = 2^s.
FewShifted(S, T, W, hi, lo) ==
  /\ hi \div S \in 0..(W - 1) /\ ((hi * T) % W) + (lo \div S) \in 0..(W - 1)
  /\ (lo * T) % W \in 0..(W - 1) /\ lo % S \in 0..(S - 1)
  /\ (lo * T) % W = (lo % S) * T
  /\ (hi * W) + lo = ((((hi \div S) * W) + (((hi * T) % W) + (lo \div S))) * S) + (lo % S)

\* That is what such a shift comes to.
LEMMA ShiftFew ==
  ASSUME NEW S \in Nat \ {0}, NEW T \in Nat \ {0}, NEW W \in Nat, W = S * T,
         NEW hi \in 0..(W - 1), NEW lo \in 0..(W - 1)
  PROVE  FewShifted(S, T, W, hi, lo)
  <1> DEFINE x1 == hi \div S
             x0 == hi % S
             y1 == lo \div S
             y0 == lo % S
  <1>1. x1 \in 0..(T - 1) /\ x0 \in 0..(S - 1) /\ hi = (x1 * S) + x0 /\ (hi * T) % W = x0 * T
    BY CutWord, ZenonT(60)
  <1>2. y1 \in 0..(T - 1) /\ y0 \in 0..(S - 1) /\ lo = (y1 * S) + y0 /\ (lo * T) % W = y0 * T
    BY CutWord, ZenonT(60)
  <1> HIDE DEF x1, x0, y1, y0
  <1>3. (x0 * T) + y1 \in 0..(W - 1)
    BY <1>1, <1>2, JoinParts
  <1>4. (y0 * T) + 0 \in 0..(W - 1) /\ y0 * T \in Nat
    BY <1>2, JoinParts, 0 \in 0..(T - 1)
  <1>5. x1 \in 0..(W - 1)
    <2>1. 1 * T <= S * T
      BY Times
    <2> QED
      BY <1>1, <2>1
  <1>6. (((x1 * S) + x0) * W) + ((y1 * S) + y0) = (((x1 * W) + ((x0 * T) + y1)) * S) + y0
    BY <1>1, <1>2, x0 * (S * T) = (x0 * T) * S
  <1>7. y0 * T \in 0..(W - 1)
    BY <1>4
  <1>8. (hi * W) + lo = (((x1 * W) + ((x0 * T) + y1)) * S) + y0
    BY <1>1, <1>2, <1>6, Zenon
  <1> QED
    BY <1>1, <1>2, <1>3, <1>5, <1>7, <1>8, Zenon DEF FewShifted, x1, y1, y0

\* A double word shifted right by a word and more, W * S = 2^s: what is left, and
\* what is shifted out.
ManyShifted(S, T, W, hi, lo) ==
  /\ hi \div S \in 0..(W - 1) /\ ((hi * T) % W) + (lo \div S) \in 0..(W - 1)
  /\ (lo * T) % W \in 0..(W - 1)
  /\ \E rest \in Nat :
       /\ rest < W * S
       /\ (hi * W) + lo = ((hi \div S) * (W * S)) + rest
       /\ rest * T = ((((hi * T) % W) + (lo \div S)) * W) + ((lo * T) % W)

\* That is what such a shift comes to.
LEMMA ShiftMany ==
  ASSUME NEW S \in Nat \ {0}, NEW T \in Nat \ {0}, NEW W \in Nat, W = S * T,
         NEW hi \in 0..(W - 1), NEW lo \in 0..(W - 1)
  PROVE  ManyShifted(S, T, W, hi, lo)
  <1> DEFINE x1 == hi \div S
             x0 == hi % S
             y1 == lo \div S
             y0 == lo % S
  <1>1. x1 \in 0..(T - 1) /\ x0 \in 0..(S - 1) /\ hi = (x1 * S) + x0 /\ (hi * T) % W = x0 * T
    BY CutWord, ZenonT(60)
  <1>2. y1 \in 0..(T - 1) /\ y0 \in 0..(S - 1) /\ lo = (y1 * S) + y0 /\ (lo * T) % W = y0 * T
    BY CutWord, ZenonT(60)
  <1> HIDE DEF x1, x0, y1, y0
  <1>3. x1 \in 0..(W - 1) /\ (x0 * T) + y1 \in 0..(W - 1) /\ y0 * T \in 0..(W - 1)
    <2>1. hi \div S \in 0..(W - 1) /\ ((hi * T) % W) + (lo \div S) \in 0..(W - 1) /\ (lo * T) % W \in 0..(W - 1)
      BY ShiftFew DEF FewShifted
    <2> QED
      BY <1>1, <1>2, <2>1, Zenon DEF x1, y1
  <1> DEFINE rest == (x0 * W) + lo
  <1>4. rest \in Nat /\ rest < W * S
    <2>1. (x0 * W) + W <= S * W /\ x0 * W \in Nat /\ S * W = W * S
      BY <1>1, ProductOrder, Product
    <2> DEFINE xw == x0 * W
               sw == S * W
    <2>2. xw + W <= sw /\ xw \in Nat /\ sw \in Nat
      BY <2>1
    <2> HIDE DEF xw, sw
    <2>3. xw + lo \in Nat /\ xw + lo < sw
      BY <2>2
    <2> QED
      BY <2>1, <2>3 DEF xw, sw
  <1>5. (hi * W) + lo = (x1 * (W * S)) + rest
    <2>1. ((x1 * S) + x0) * W = (x1 * (W * S)) + (x0 * W)
      BY <1>1
    <2> QED
      BY <1>1, <2>1
  <1>6. rest * T = (((x0 * T) + y1) * W) + (y0 * T)
    <2>1. rest * T = ((x0 * W) * T) + (((y1 * S) + y0) * T)
      BY <1>1, <1>2
    <2>2. ((x0 * W) * T) + (((y1 * S) + y0) * T) = (((x0 * T) + y1) * W) + (y0 * T)
      BY <1>1, <1>2, (y1 * S) * T = y1 * (S * T)
    <2> QED
      BY <2>1, <2>2
  <1> HIDE DEF rest
  <1> QED
    BY <1>1, <1>2, <1>3, <1>4, <1>5, <1>6 DEF ManyShifted, x1, y1

\* The step to the next digit: the digits found so far are F, left is what remains
\* of the dividend N to be looked at, top the bit shifted out of q into r.
DigitFound(N, D, F, r, q, c, p, P, top) ==
  /\ (2 * r) + top < 2 * (p * P) /\ (2 * r) + top < 2 * D
  /\ F < 2 * P
  /\ \E left \in Nat :
       /\ left < p
       /\ ((2 * q) + c) - (top * (2 * (p * P))) = (left * (2 * P)) + F
       /\ N = ((((2 * F) * D) + ((2 * r) + top)) * p) + left

\* Before it: rest is the part of the dividend not yet looked at, and 2 * p and P
\* are the powers of two q is made of.
DigitsSoFar(N, D, F, r, rest, q, part, c, p, P, top, low) ==
  /\ N \in Nat /\ D \in Nat /\ F \in Nat /\ r \in Nat /\ rest \in Nat
  /\ q \in Nat /\ part \in Nat /\ c \in {0, 1}
  /\ p \in Nat \ {0} /\ P \in Nat \ {0} /\ top \in {0, 1} /\ low \in Nat
  /\ N < 2 * (p * P) /\ rest < 2 * p /\ part < P /\ r < D
  /\ F = (2 * part) + c
  /\ N = (((F * D) + r) * (2 * p)) + rest
  /\ q = (rest * P) + part
  /\ q = (top * (p * P)) + low /\ low < p * P

\* The invariant of the loop, on the numbers alone.
LEMMA NextDigit ==
  ASSUME NEW N, NEW D, NEW F, NEW r, NEW rest, NEW q, NEW part, NEW c,
         NEW p, NEW P, NEW top, NEW low,
         DigitsSoFar(N, D, F, r, rest, q, part, c, p, P, top, low)
  PROVE  DigitFound(N, D, F, r, q, c, p, P, top)
  <1> DEFINE t == IF rest < p THEN 0 ELSE 1
             left == rest - (t * p)
             L == p * P
             lP == left * P
  <1> USE DEF DigitsSoFar
  <1>1. t \in {0, 1} /\ left \in Nat /\ left < p /\ rest = (t * p) + left
    OBVIOUS
  <1>2. q = (t * L) + (lP + part)
    <2>1. rest * P = (t * (p * P)) + (left * P)
      BY <1>1
    <2> QED
      BY <2>1
  <1> HIDE DEF t, left
  <1>3. L \in Nat \ {0} /\ lP \in Nat /\ lP + part < L
    <2>1. (left * P) + P <= p * P /\ left * P \in Nat /\ p * P \in Nat
      BY <1>1, ProductOrder, Product
    <2> HIDE DEF L, lP
    <2> QED
      BY <2>1 DEF L, lP
  <1>4. t = top
    <2> DEFINE z == lP + part
    <2>1. z \in Nat /\ z < L /\ q = (t * L) + z /\ q = (top * L) + low /\ low < L
      BY <1>2, <1>3
    <2> HIDE DEF z, L
    <2>2. q \div L = t /\ q \div L = top
      BY <1>1, <1>3, <2>1, DivModUnique
    <2> QED
      BY <2>2
  <1>5. ((2 * q) + c) - (top * (2 * (p * P))) = (left * (2 * P)) + F
    <2>1. left * (2 * P) = 2 * lP
      BY <1>1
    <2> HIDE DEF L, lP
    <2>2. ((2 * q) + c) - (top * (2 * L)) = (2 * lP) + F
      BY <1>1, <1>2, <1>3, <1>4
    <2> QED
      BY <2>1, <2>2 DEF L
  <1> DEFINE M == ((2 * F) * D) + ((2 * r) + top)
  <1>6. N = (M * p) + left
    <2>1. ((F * D) + r) * (2 * p) = ((2 * (F * D)) + (2 * r)) * p
      OBVIOUS
    <2>2. (2 * F) * D = 2 * (F * D)
      OBVIOUS
    <2>3. M * p = (((2 * (F * D)) + (2 * r)) * p) + (top * p)
      BY <2>2
    <2> QED
      BY <1>1, <1>4, <2>1, <2>3
  <1>7. M \in Nat /\ (2 * r) + top <= M
    <2>1. (2 * F) * D \in Nat
      BY Product
    <2> QED
      BY <2>1
  <1> HIDE DEF M
  <1>8. M <= N
    <2>1. 1 * M <= p * M
      BY <1>7, Times
    <2>2. p * M = M * p /\ M * p \in Nat /\ 1 * M = M
      BY <1>7, Product
    <2> QED
      BY <1>1, <1>6, <1>7, <2>1, <2>2
  <1>9. (2 * r) + top < 2 * (p * P)
    <2> HIDE DEF L
    <2>1. N < 2 * L
      BY DEF L
    <2>2. (2 * r) + top < 2 * L
      BY <1>3, <1>7, <1>8, <2>1
    <2> QED
      BY <2>2 DEF L
  <1>10. (2 * r) + top < 2 * D /\ F < 2 * P
    OBVIOUS
  <1>11. N = ((((2 * F) * D) + ((2 * r) + top)) * p) + left
    BY <1>6 DEF M
  <1> QED
    BY <1>1, <1>5, <1>9, <1>10, <1>11 DEF DigitFound

\* A multiple leaves no remainder, a negative one neither.
LEMMA MultipleMod ==
  ASSUME NEW k \in Int, NEW D \in Nat \ {0}
  PROVE  (k * D) % D = 0
  <1> DEFINE x == k * D
             m == x \div D
             s == x % D
  <1>1. x \in Int
    OBVIOUS
  <1> HIDE DEF x
  <1>2. m \in Int /\ s \in 0..(D - 1) /\ x = (m * D) + s
    BY <1>1
  <1> HIDE DEF m, s
  <1> DEFINE e == k - m
  <1>3. e \in Int /\ e * D = s
    <2>1. e * D = (k * D) - (m * D)
      BY <1>2
    <2> QED
      BY <1>2, <2>1 DEF x
  <1> HIDE DEF e
  <1>4. ~(e > 0)
    <2> SUFFICES ASSUME e > 0 PROVE FALSE
      OBVIOUS
    <2>1. 1 * D <= e * D
      BY <1>3, Times
    <2> QED
      BY <1>2, <1>3, <2>1
  <1>5. ~(e < 0)
    <2> SUFFICES ASSUME e < 0 PROVE FALSE
      OBVIOUS
    <2> DEFINE f == 0 - e
    <2>1. f \in Nat /\ 1 <= f
      BY <1>3
    <2>2. f * D = 0 - (e * D)
      BY <1>3
    <2> HIDE DEF f
    <2>3. 1 * D <= f * D
      BY <2>1, Times
    <2> QED
      BY <1>2, <1>3, <2>2, <2>3
  <1>6. e = 0
    BY <1>3, <1>4, <1>5
  <1>7. s = 0
    BY <1>3, <1>6
  <1> QED
    BY <1>7 DEF s, x

\* Powers of two grow.
LEMMA Pow2Order ==
  ASSUME NEW i \in Nat, NEW j \in Nat, i <= j
  PROVE  Pow2[i] <= Pow2[j]
  <1> DEFINE e == j - i
  <1>1. e \in Nat /\ j = i + e
    OBVIOUS
  <1> HIDE DEF e
  <1>2. Pow2[j] = Pow2[i] * Pow2[e] /\ Pow2[e] \in Nat \ {0} /\ Pow2[i] \in Nat
    BY <1>1, Pow2Sum, Pow2Positive
  <1>3. 1 * Pow2[i] <= Pow2[e] * Pow2[i]
    BY <1>2, Times
  <1> QED
    BY <1>2, <1>3

-----------------------------------------------------------------------------
(* Words                                                                   *)

\* The sizes of words.
LEMMA WordSizes ==
  /\ n_uword_bits \in Nat /\ n_uword_bits - 1 \in Nat \ {0}
  /\ Pow2[n_uword_bits - 1] \in Nat \ {0} /\ WordMod \in Nat \ {0}
  /\ WordMod = 2 * Pow2[n_uword_bits - 1]
  /\ DWordMod = WordMod * WordMod /\ DWordMod \in Nat \ {0}
  <1> DEFINE e == n_uword_bits - 1
  <1>1. e \in Nat \ {0} /\ n_uword_bits \in Nat /\ n_uword_bits = e + 1
    BY DivMod64Assumption
  <1> HIDE DEF e
  <1>2. Pow2[e] \in Nat \ {0} /\ WordMod = 2 * Pow2[e]
    BY <1>1, Pow2Is, Pow2Positive DEF WordMod
  <1>3. WordMod \in Nat \ {0}
    BY <1>2
  <1>4. WordMod * WordMod \in Nat \ {0}
    <2>1. 1 * WordMod <= WordMod * WordMod
      BY <1>3, Times
    <2> QED
      BY <1>3, <2>1
  <1> QED
    BY <1>1, <1>2, <1>3, <1>4 DEF e, DWordMod

\* A double word and its words.
LEMMA SplitWords ==
  ASSUME NEW x \in DWord
  PROVE  hi32(x) \in Word /\ lo32(x) \in Word /\ x = (hi32(x) * WordMod) + lo32(x)
  <1>1. x \in Nat /\ x < WordMod * WordMod /\ WordMod \in Nat \ {0}
    BY WordSizes DEF DWord
  <1>2. x \div WordMod \in 0..(WordMod - 1)
    BY <1>1, QuotientBelow
  <1>3. x % WordMod \in 0..(WordMod - 1) /\ x = ((x \div WordMod) * WordMod) + (x % WordMod)
    BY <1>1, DivMod
  <1> QED
    BY <1>2, <1>3 DEF hi32, lo32, Word

\* Two words make a double word.
LEMMA JoinWords ==
  ASSUME NEW hi \in Word, NEW lo \in Word
  PROVE  make64(hi, lo) \in DWord
  <1> DEFINE W == WordMod
  <1>1. W \in Nat \ {0} /\ hi \in 0..(W - 1) /\ lo \in 0..(W - 1)
    BY WordSizes DEF Word
  <1> HIDE DEF W
  <1>2. (hi * W) + lo \in 0..((W * W) - 1)
    BY <1>1, JoinParts
  <1> QED
    BY <1>2 DEF make64, DWord, DWordMod, W

\* A number up to Pow2[k] has a first digit.
LEMMA FirstDigit ==
  ASSUME NEW k \in Nat, NEW x \in Nat \ {0}, x < Pow2[k]
  PROVE  \E j \in 0..(k - 1) : Pow2[j] <= x /\ x < Pow2[j + 1]
  <1> DEFINE above == {i \in Nat : x < Pow2[i]}
  <1>1. above \in SUBSET Nat /\ k \in above
    OBVIOUS
  <1>2. PICK i \in above : \A j \in above : i <= j
    <2> HIDE DEF above
    <2> QED
      BY <1>1, LeastElement
  <1>3. i # 0
    BY <1>2, Pow2Is
  <1> DEFINE j == i - 1
  <1>4. j \in Nat /\ j + 1 = i /\ j \notin above /\ i <= k
    BY <1>1, <1>2, <1>3
  <1>5. j \in 0..(k - 1) /\ x < Pow2[j + 1] /\ ~(x < Pow2[j]) /\ Pow2[j] \in Nat
    BY <1>2, <1>4, Pow2Is
  <1> HIDE DEF j
  <1> QED
    BY <1>5

\* The leading zeros of a word.
LEMMA ClzIs ==
  ASSUME NEW x \in Word, x # 0
  PROVE  /\ clzsi(x) \in 0..(n_uword_bits - 1)
         /\ Pow2[(n_uword_bits - 1) - clzsi(x)] <= x /\ x < Pow2[n_uword_bits - clzsi(x)]
  <1>1. n_uword_bits \in Nat /\ x \in Nat \ {0} /\ x < Pow2[n_uword_bits]
    BY WordSizes DEF Word, WordMod
  <1>2. PICK j \in 0..(n_uword_bits - 1) : Pow2[j] <= x /\ x < Pow2[j + 1]
    BY <1>1, FirstDigit
  <1> DEFINE k == (n_uword_bits - 1) - j
  <1>3. k \in 0..(n_uword_bits - 1) /\ (n_uword_bits - 1) - k = j /\ n_uword_bits - k = j + 1
    BY <1>1
  <1> HIDE DEF k
  <1>4. \E i \in 0..(n_uword_bits - 1) : Pow2[(n_uword_bits - 1) - i] <= x /\ x < Pow2[n_uword_bits - i]
    BY <1>2, <1>3
  <1> QED
    BY <1>4 DEF clzsi

\* The trailing zeros of a power of two.
LEMMA CtzIs ==
  ASSUME NEW x \in Word, IsPowerOf2(x)
  PROVE  ctzsi(x) \in 0..(n_uword_bits - 1) /\ Pow2[ctzsi(x)] = x
  <1> DEFINE B == n_uword_bits
             Fits(k) == x % Pow2[k] = 0 /\ (x \div Pow2[k]) % 2 = 1
  <1>0. B \in Nat
    BY WordSizes
  <1>1. PICK j \in 0..(B - 1) : x = Pow2[j]
    BY DEF IsPowerOf2
  <1>2. j \in Nat /\ x \in Nat \ {0}
    BY <1>0, <1>1, Pow2Positive
  <1>3. Fits(j)
    <2>1. x = (1 * x) + 0 /\ 0 < x
      BY <1>2
    <2>2. x \div x = 1 /\ x % x = 0
      BY <1>2, <2>1, DivModUnique
    <2> QED
      BY <1>1, <2>2
  <1>4. ASSUME NEW k \in 0..(B - 1), Fits(k) PROVE k = j
    <2>1. k \in Nat /\ Pow2[k] \in Nat \ {0}
      BY <1>0, Pow2Positive
    <2>2. ~(k < j)
      <3> SUFFICES ASSUME k < j PROVE FALSE
        OBVIOUS
      <3> DEFINE e == (j - k) - 1
                 f == Pow2[e]
                 p == Pow2[k]
                 h == 2 * f
      <3>1. e \in Nat /\ j = k + (e + 1)
        BY <1>2, <2>1
      <3> HIDE DEF e
      <3>2. f \in Nat /\ Pow2[e + 1] = h /\ x = p * h
        <4> DEFINE g == e + 1
        <4>1. f \in Nat /\ Pow2[g] = h
          BY <3>1, Pow2Is
        <4>2. g \in Nat /\ j = k + g
          BY <3>1
        <4> HIDE DEF g
        <4>3. Pow2[k + g] = Pow2[k] * Pow2[g]
          BY <2>1, <4>2, Pow2Sum
        <4> QED
          BY <1>1, <4>1, <4>2, <4>3 DEF g
      <3>3. p \in Nat \ {0} /\ h \in Nat
        BY <2>1, <3>2
      <3> HIDE DEF f, p
      <3>4. x = (h * p) + 0 /\ 0 < p
        BY <1>2, <3>2, <3>3
      <3> HIDE DEF h
      <3>5. x \div p = h
        BY <1>2, <3>3, <3>4, DivModUnique
      <3>6. h % 2 = 0
        BY <3>2 DEF h
      <3> QED
        BY <1>4, <3>5, <3>6 DEF p
    <2>3. ~(j < k)
      <3> SUFFICES ASSUME j < k PROVE FALSE
        OBVIOUS
      <3>1. j + 1 \in Nat /\ j + 1 <= k /\ Pow2[j + 1] = 2 * x
        BY <1>1, <1>2, <2>1, Pow2Is
      <3>2. 2 * x <= Pow2[k]
        BY <2>1, <3>1, Pow2Order
      <3>3. x % Pow2[k] = x
        BY <1>2, <2>1, <3>2
      <3> QED
        BY <1>2, <1>4, <3>3
    <2> QED
      BY <1>2, <2>1, <2>2, <2>3
  <1>5. ctzsi(x) = CHOOSE k \in 0..(B - 1) : Fits(k)
    BY DEF ctzsi
  <1> HIDE DEF Fits, B
  <1>6. ctzsi(x) = j
    BY <1>1, <1>3, <1>4, <1>5
  <1> QED
    BY <1>1, <1>6 DEF B

\* What the shifts compute, within the width.
LEMMA Shifts ==
  ASSUME NEW x \in Word, NEW k \in 0..(n_uword_bits - 1)
  PROVE  Shl(x, k) = (x * Pow2[k]) % WordMod /\ Shr(x, k) = x \div Pow2[k]
  BY DEF Shl, Shr

\* One place to the left, with the top bit of the word below.
LEMMA ShiftedWords ==
  ASSUME NEW hi \in Word, NEW lo \in Word, NEW c \in {0, 1}
  PROVE  /\ TopBit(hi) \in {0, 1}
         /\ Shl(hi, 1) + TopBit(lo) \in Word /\ Shl(lo, 1) + c \in Word
         /\ make64(Shl(hi, 1) + TopBit(lo), Shl(lo, 1) + c)
              = ((2 * make64(hi, lo)) + c) - (TopBit(hi) * DWordMod)
  <1> DEFINE H == Pow2[n_uword_bits - 1]
             W == WordMod
  <1>1. H \in Nat \ {0} /\ W \in Nat /\ W = 2 * H /\ hi \in 0..(W - 1) /\ lo \in 0..(W - 1)
    BY WordSizes DEF Word
  <1>2. 1 \in 0..(n_uword_bits - 1) /\ n_uword_bits - 1 \in 0..(n_uword_bits - 1)
    BY WordSizes
  <1>3. Pow2[1] = 2
    <2>1. Pow2[0 + 1] = 2 * Pow2[0] /\ Pow2[0] = 1 /\ 0 + 1 = 1
      BY Pow2Is
    <2> QED
      BY <2>1
  <1>4. ASSUME NEW x \in Word PROVE Shl(x, 1) = (2 * x) % W /\ TopBit(x) = x \div H
    <2>1. x * Pow2[1] = 2 * x
      BY <1>1, <1>3 DEF Word
    <2> QED
      BY <1>2, <2>1, Shifts DEF TopBit
  <1> HIDE DEF H, W
  <1>5. Doubled(H, W, hi, lo, c)
    BY <1>1, DoubleWords
  <1> QED
    BY <1>4, <1>5, Zenon DEF Doubled, make64, DWordMod, Word, W

\* The top bit of the high word is that of the double word.
LEMMA TopBitIs ==
  ASSUME NEW hi \in Word, NEW lo \in Word, NEW L \in Nat, 2 * L = DWordMod
  PROVE  \E low \in Nat : low < L /\ make64(hi, lo) = (TopBit(hi) * L) + low
  <1> DEFINE H == Pow2[n_uword_bits - 1]
             W == WordMod
             t == hi \div H
             h == hi % H
             low == (h * W) + lo
  <1>1. H \in Nat \ {0} /\ W \in Nat \ {0} /\ W = 2 * H /\ hi \in Nat /\ lo \in 0..(W - 1)
    BY WordSizes DEF Word
  <1>2. n_uword_bits - 1 \in 0..(n_uword_bits - 1)
    BY WordSizes
  <1>3. TopBit(hi) = t
    BY <1>2, Shifts DEF TopBit
  <1> HIDE DEF H
  <1>4. t \in Nat /\ h \in 0..(H - 1) /\ hi = (t * H) + h
    BY <1>1, DivMod
  <1>5. H * W = L
    <2>1. 2 * (H * W) = W * W /\ H * W \in Nat
      BY <1>1
    <2> QED
      BY <2>1 DEF DWordMod
  <1> HIDE DEF W, t, h
  <1>6. low \in 0..(L - 1)
    BY <1>1, <1>4, <1>5, JoinParts
  <1>7. make64(hi, lo) = (t * L) + low
    <2>1. ((t * H) + h) * W = (t * (H * W)) + (h * W)
      BY <1>1, <1>4
    <2>2. make64(hi, lo) = (((t * H) + h) * W) + lo
      BY <1>4 DEF make64, W
    <2>3. h * W \in Nat /\ t * L \in Nat
      BY <1>1, <1>4, Product
    <2> QED
      BY <1>1, <1>5, <2>1, <2>2, <2>3
  <1> HIDE DEF low
  <1> QED
    BY <1>3, <1>6, <1>7

\* The operands of __udivmoddi4 and their words.
LEMMA Operands ==
  ASSUME a \in DWord, b \in DWord \ {0}
  PROVE  /\ n \in DWord /\ d \in DWord \ {0}
         /\ n_hi \in Word /\ n_lo \in Word /\ d_hi \in Word /\ d_lo \in Word
         /\ n = make64(n_hi, n_lo) /\ d = make64(d_hi, d_lo)
  <1>1. \A x \in DWord, s \in BOOLEAN : NegatedIf(x, s) \in DWord /\ (x # 0 => NegatedIf(x, s) # 0)
    <2> DEFINE M == DWordMod
    <2>1. M \in Nat \ {0}
      BY WordSizes
    <2>2. ASSUME NEW x \in 0..(M - 1) PROVE (M - x) % M \in 0..(M - 1) /\ (x # 0 => (M - x) % M # 0)
      <3> HIDE DEF M
      <3>1. CASE x = 0
        <4>1. M = (1 * M) + 0
          BY <2>1
        <4>2. M % M = 0
          BY <2>1, <4>1, DivModUnique
        <4> QED
          BY <2>1, <3>1, <4>2
      <3>2. CASE x # 0
        BY <2>1, <3>2
      <3> QED
        BY <3>1, <3>2
    <2> QED
      BY <2>2 DEF NegatedIf, DWord
  <1>2. (IsSigned /\ Negative(a)) \in BOOLEAN /\ (IsSigned /\ Negative(b)) \in BOOLEAN
    BY DEF IsSigned, Negative
  <1>3. n \in DWord /\ d \in DWord /\ d # 0
    BY <1>1, <1>2 DEF n, d
  <1> QED
    BY <1>3, SplitWords DEF n_hi, n_lo, d_hi, d_lo, make64

-----------------------------------------------------------------------------
(* The start of the loop                                                   *)

\* r is n shifted right by s, and q holds what was shifted out, at its top.
Cut(s, qh, ql, rh, rl) ==
  /\ qh \in Word /\ ql \in Word /\ rh \in Word /\ rl \in Word
  /\ \E rest \in Nat :
       /\ rest < Pow2[s]
       /\ make64(qh, ql) = rest * Pow2[(2 * n_uword_bits) - s]
       /\ n = (make64(rh, rl) * Pow2[s]) + rest

\* A power of two less than a word and the one that completes it.
LEMMA Complement ==
  ASSUME NEW s \in 0..n_uword_bits
  PROVE  /\ Pow2[s] \in Nat \ {0} /\ Pow2[n_uword_bits - s] \in Nat \ {0}
         /\ WordMod = Pow2[s] * Pow2[n_uword_bits - s]
  <1> DEFINE t == n_uword_bits - s
  <1>1. s \in Nat /\ t \in Nat /\ n_uword_bits = s + t
    BY WordSizes
  <1> HIDE DEF t
  <1>2. Pow2[s] \in Nat \ {0} /\ Pow2[t] \in Nat \ {0} /\ Pow2[s + t] = Pow2[s] * Pow2[t]
    BY <1>1, Pow2Positive, Pow2Sum
  <1> QED
    BY <1>1, <1>2 DEF t, WordMod

\* The words of q and r as Start computes them, for a shift by one word.
LEMMA CutAtWord ==
  ASSUME a \in DWord, b \in DWord \ {0}
  PROVE  Cut(n_uword_bits, n_lo, 0, 0, n_hi)
  <1> DEFINE W == WordMod
  <1>1. n_hi \in Word /\ n_lo \in Word /\ n = make64(n_hi, n_lo)
    BY Operands
  <1>2. W \in Nat \ {0} /\ 0 \in Word
    BY WordSizes DEF Word
  <1>3. n_hi \in Nat /\ n_lo \in Nat /\ n_lo < W
    BY <1>1, <1>2 DEF Word
  <1>4. Pow2[n_uword_bits] = W /\ Pow2[(2 * n_uword_bits) - n_uword_bits] = W
    <2>1. (2 * n_uword_bits) - n_uword_bits = n_uword_bits
      BY WordSizes
    <2> QED
      BY <2>1 DEF WordMod
  <1>5. make64(n_lo, 0) = n_lo * W /\ make64(0, n_hi) = n_hi /\ n = (n_hi * W) + n_lo
    BY <1>1, <1>2, <1>3 DEF make64
  <1> HIDE DEF W
  <1> QED
    BY <1>1, <1>2, <1>3, <1>4, <1>5 DEF Cut

\* By less than a word.
LEMMA CutFew ==
  ASSUME a \in DWord, b \in DWord \ {0}, NEW s \in 1..(n_uword_bits - 1)
  PROVE  /\ Cut(s, Shl(n_lo, n_uword_bits - s), 0,
                   Shr(n_hi, s), Shl(n_hi, n_uword_bits - s) + Shr(n_lo, s))
         /\ n = (make64(Shr(n_hi, s), Shl(n_hi, n_uword_bits - s) + Shr(n_lo, s)) * Pow2[s]) + (n_lo % Pow2[s])
         /\ n_lo % Pow2[s] \in 0..(Pow2[s] - 1)
  <1> DEFINE W == WordMod
             S == Pow2[s]
             T == Pow2[n_uword_bits - s]
             qh == Shl(n_lo, n_uword_bits - s)
             rh == Shr(n_hi, s)
             rl == Shl(n_hi, n_uword_bits - s) + Shr(n_lo, s)
             rest == n_lo % S
  <1>1. n_hi \in Word /\ n_lo \in Word /\ n = make64(n_hi, n_lo)
    BY Operands
  <1>2. S \in Nat \ {0} /\ T \in Nat \ {0} /\ W = S * T /\ W \in Nat
    <2>1. s \in 0..n_uword_bits
      BY WordSizes
    <2> QED
      BY <2>1, Complement, WordSizes
  <1>3. s \in 0..(n_uword_bits - 1) /\ n_uword_bits - s \in 0..(n_uword_bits - 1)
    BY WordSizes
  <1>4. qh = (n_lo * T) % W /\ rh = n_hi \div S /\ rl = ((n_hi * T) % W) + (n_lo \div S)
    BY <1>1, <1>3, Shifts
  <1>5. n_hi \in 0..(W - 1) /\ n_lo \in 0..(W - 1)
    BY <1>1 DEF Word
  <1>6. Pow2[(2 * n_uword_bits) - s] = W * T
    <2> DEFINE t == n_uword_bits - s
    <2>1. t \in Nat /\ n_uword_bits \in Nat /\ (2 * n_uword_bits) - s = n_uword_bits + t
      BY <1>3, WordSizes
    <2> HIDE DEF t
    <2>2. Pow2[n_uword_bits + t] = Pow2[n_uword_bits] * Pow2[t]
      BY <2>1, Pow2Sum
    <2> QED
      BY <2>1, <2>2 DEF WordMod, t
  <1> HIDE DEF W, S, T, qh, rh, rl
  <1>7. FewShifted(S, T, W, n_hi, n_lo)
    BY <1>2, <1>5, ShiftFew
  <1>8. /\ rh \in 0..(W - 1) /\ rl \in 0..(W - 1) /\ qh \in 0..(W - 1) /\ rest \in 0..(S - 1)
        /\ qh = rest * T /\ (n_hi * W) + n_lo = (((rh * W) + rl) * S) + rest
    BY <1>4, <1>7, Zenon DEF FewShifted
  <1> HIDE DEF rest
  <1>9. make64(qh, 0) = rest * (W * T) /\ n = (make64(rh, rl) * S) + rest
    <2>1. (rest * T) * W = rest * (W * T) /\ (rest * T) * W \in Int
      BY <1>2, <1>8
    <2> DEFINE x == (rest * T) * W
    <2>2. x + 0 = x
      BY <2>1
    <2>3. make64(qh, 0) = x + 0
      BY <1>8, Zenon DEF make64, W
    <2>4. n = (make64(rh, rl) * S) + rest
      BY <1>1, <1>8, Zenon DEF make64, W
    <2> QED
      BY <2>1, <2>2, <2>3, <2>4, Zenon
  <1>10. 0 \in Word /\ qh \in Word /\ rh \in Word /\ rl \in Word /\ rest \in Nat /\ rest < S
    BY <1>2, <1>8, WordSizes DEF Word, W
  <1>11. Cut(s, qh, 0, rh, rl)
    BY <1>6, <1>9, <1>10 DEF Cut, S
  <1> QED
    BY <1>8, <1>9, <1>11, Zenon DEF qh, rh, rl, rest, S

\* By more than a word.
LEMMA CutMany ==
  ASSUME a \in DWord, b \in DWord \ {0}, NEW s \in (n_uword_bits + 1)..((2 * n_uword_bits) - 1)
  PROVE  Cut(s, Shl(n_hi, (2 * n_uword_bits) - s) + Shr(n_lo, s - n_uword_bits),
                Shl(n_lo, (2 * n_uword_bits) - s), 0, Shr(n_hi, s - n_uword_bits))
  <1> DEFINE W == WordMod
             t == s - n_uword_bits
             k == (2 * n_uword_bits) - s
             S == Pow2[t]
             T == Pow2[k]
             qh == Shl(n_hi, k) + Shr(n_lo, t)
             ql == Shl(n_lo, k)
             rl == Shr(n_hi, t)
  <1>1. n_hi \in Word /\ n_lo \in Word /\ n = make64(n_hi, n_lo)
    BY Operands
  <1>2. t \in 0..(n_uword_bits - 1) /\ k \in 0..(n_uword_bits - 1) /\ k = n_uword_bits - t /\ s = n_uword_bits + t
    BY WordSizes
  <1>3. qh = ((n_hi * T) % W) + (n_lo \div S) /\ ql = (n_lo * T) % W /\ rl = n_hi \div S
    BY <1>1, <1>2, Shifts
  <1> HIDE DEF t, k
  <1>4. S \in Nat \ {0} /\ T \in Nat \ {0} /\ W = S * T /\ W \in Nat
    <2>1. t \in 0..n_uword_bits
      BY <1>2, WordSizes
    <2> QED
      BY <1>2, <2>1, Complement, WordSizes
  <1>5. Pow2[s] = W * S
    <2>1. t \in Nat /\ n_uword_bits \in Nat
      BY <1>2, WordSizes
    <2>2. Pow2[n_uword_bits + t] = Pow2[n_uword_bits] * Pow2[t]
      BY <2>1, Pow2Sum
    <2> QED
      BY <1>2, <2>2 DEF WordMod
  <1>6. n_hi \in 0..(W - 1) /\ n_lo \in 0..(W - 1)
    BY <1>1 DEF Word
  <1> HIDE DEF W, S, T, qh, ql, rl
  <1>7. ManyShifted(S, T, W, n_hi, n_lo)
    BY <1>4, <1>6, ShiftMany
  <1>8. PICK rest \in Nat :
          /\ rest < W * S
          /\ (n_hi * W) + n_lo = ((n_hi \div S) * (W * S)) + rest
          /\ rest * T = ((((n_hi * T) % W) + (n_lo \div S)) * W) + ((n_lo * T) % W)
    BY <1>7, Zenon DEF ManyShifted
  <1>9. rl \in 0..(W - 1) /\ qh \in 0..(W - 1) /\ ql \in 0..(W - 1)
    BY <1>3, <1>7, Zenon DEF ManyShifted
  <1>10. make64(qh, ql) = rest * T
    BY <1>3, <1>8, Zenon DEF make64, W
  <1>11. make64(0, rl) = rl
    BY <1>9, WordSizes DEF make64, W
  <1>12. n = (make64(0, rl) * Pow2[s]) + rest
    BY <1>1, <1>3, <1>5, <1>8, <1>11, Zenon DEF make64, W
  <1>13. 0 \in Word /\ qh \in Word /\ ql \in Word /\ rl \in Word /\ rest < Pow2[s]
    BY <1>4, <1>5, <1>8, <1>9, WordSizes DEF Word, W
  <1>14. Cut(s, qh, ql, 0, rl)
    BY <1>10, <1>12, <1>13, Zenon DEF Cut, T, k
  <1> QED
    BY <1>14 DEF qh, ql, rl, t, k

\* The leading zeros of the high word of a double word bound it.
LEMMA DigitsOf ==
  ASSUME NEW hi \in Word, NEW lo \in Word, hi # 0
  PROVE  LET k == clzsi(hi)
         IN /\ make64(hi, lo) < Pow2[(2 * n_uword_bits) - k]
            /\ Pow2[((2 * n_uword_bits) - 1) - k] <= make64(hi, lo)
  <1> DEFINE W == WordMod
             B == n_uword_bits
             k == clzsi(hi)
             i == (B - 1) - k
  <1>1. k \in 0..(B - 1) /\ Pow2[i] <= hi /\ hi < Pow2[B - k]
    BY ClzIs
  <1>2. B \in Nat /\ W \in Nat \ {0} /\ Pow2[B] = W
    BY WordSizes DEF WordMod
  <1>3. hi \in Nat /\ lo \in Nat /\ lo < W
    BY <1>2 DEF Word
  <1> HIDE DEF W, B, k
  <1>4. i \in Nat /\ i + 1 = B - k /\ ((2 * B) - 1) - k = B + i /\ (2 * B) - k = B + (i + 1)
    BY <1>1, <1>2
  <1> HIDE DEF i
  <1> DEFINE g == i + 1
             p == Pow2[i]
             q == Pow2[g]
  <1>5. p \in Nat /\ q \in Nat /\ Pow2[B + i] = W * p /\ Pow2[B + g] = W * q
    <2>1. g \in Nat
      BY <1>4
    <2> HIDE DEF g
    <2> QED
      BY <1>2, <1>4, <2>1, Pow2Is, Pow2Sum
  <1>6. p <= hi /\ hi < q
    BY <1>1, <1>4
  <1> HIDE DEF p, q, g
  <1>7. W * p <= (hi * W) + lo
    <2>1. p * W <= hi * W /\ hi * W \in Nat /\ p * W = W * p
      BY <1>2, <1>3, <1>5, <1>6, Times, Product
    <2>2. p * W \in Int
      BY <1>2, <1>5
    <2> QED
      BY <1>3, <2>1, <2>2
  <1>8. (hi * W) + lo < W * q
    <2>1. (hi * W) + W <= q * W /\ hi * W \in Nat /\ q * W = W * q
      BY <1>2, <1>3, <1>5, <1>6, ProductOrder, Product
    <2>2. q * W \in Int
      BY <1>2, <1>5
    <2> QED
      BY <1>2, <1>3, <2>1, <2>2
  <1>9. make64(hi, lo) < Pow2[(2 * B) - k] /\ Pow2[((2 * B) - 1) - k] <= make64(hi, lo)
    <2>1. make64(hi, lo) = (hi * W) + lo
      BY DEF make64, W
    <2> QED
      BY <1>4, <1>5, <1>7, <1>8, <2>1 DEF g
  <1> QED
    BY <1>9 DEF B, k

\* What is left of a number of s + e digits when s are cut off has e digits.
LEMMA CutDigits ==
  ASSUME NEW r \in Nat, NEW rest \in Nat, NEW s \in Nat, NEW e \in Nat, NEW N,
         N = (r * Pow2[s]) + rest, N < Pow2[s + e]
  PROVE  r < Pow2[e]
  <1> DEFINE S == Pow2[s]
             E == Pow2[e]
  <1>1. S \in Nat \ {0} /\ E \in Nat /\ Pow2[s + e] = S * E
    BY Pow2Positive, Pow2Sum
  <1> HIDE DEF S, E
  <1> SUFFICES ASSUME E <= r PROVE FALSE
    BY <1>1 DEF E
  <1>2. E * S <= r * S /\ r * S \in Nat /\ E * S = S * E
    BY <1>1, Times, Product
  <1>3. E * S \in Int /\ N = (r * S) + rest /\ N < S * E
    BY <1>1 DEF S
  <1> DEFINE rs == r * S
             es == E * S
  <1>4. es <= rs /\ rs \in Nat /\ es \in Int /\ N = rs + rest /\ N < es
    BY <1>2, <1>3
  <1> HIDE DEF rs, es
  <1> QED
    BY <1>4

\* The words of r, then, are less than those of d.
LEMMA CutBelow ==
  ASSUME NEW s \in Nat, NEW e \in Nat, NEW qh, NEW ql, NEW rh, NEW rl,
         Cut(s, qh, ql, rh, rl), n < Pow2[s + e], Pow2[e] <= d, d \in Nat
  PROVE  make64(rh, rl) < d
  <1> DEFINE r == make64(rh, rl)
  <1>1. PICK rest \in Nat : n = (r * Pow2[s]) + rest
    BY DEF Cut
  <1>2. r \in Nat
    BY JoinWords, WordSizes DEF Cut, DWord
  <1> HIDE DEF r
  <1>3. r < Pow2[e]
    BY <1>1, <1>2, CutDigits
  <1> QED
    BY <1>2, <1>3, Pow2Is DEF r

-----------------------------------------------------------------------------
(* The invariant                                                           *)

\* Quotient and remainder of the operands.
Divided(quot, rem) ==
  /\ quot \in Nat /\ rem \in Nat /\ rem < d
  /\ n = (quot * d) + rem

\* The inductive invariant: with LoopInvariant, the widths of what is in the loop
\* and what __udivmoddi4 returns.
DivInv ==
  /\ routine \in Routine /\ a \in DWord /\ b \in DWord \ {0}
  /\ pc \in {"entry", "loop", "return"}
  /\ pc = "loop" =>
       /\ q_hi \in Word /\ q_lo \in Word /\ r_hi \in Word /\ r_lo \in Word
       /\ carry \in {0, 1} /\ sr \in 0..((2 * n_uword_bits) - 1)
  /\ LoopInvariant
  /\ pc = "return" => Divided(ret.quot, ret.rem)

\* The numbers the operands and their words are.
LEMMA OperandNumbers ==
  ASSUME DivInv
  PROVE  /\ n \in Nat /\ n < DWordMod /\ d \in Nat \ {0}
         /\ n_hi \in Nat /\ n_lo \in Nat /\ d_hi \in Nat /\ d_lo \in Nat
         /\ n_hi < WordMod /\ n_lo < WordMod /\ d_hi < WordMod /\ d_lo < WordMod
         /\ n = (n_hi * WordMod) + n_lo /\ d = (d_hi * WordMod) + d_lo
  <1>1. /\ n \in DWord /\ d \in DWord \ {0}
        /\ n_hi \in Word /\ n_lo \in Word /\ d_hi \in Word /\ d_lo \in Word
        /\ n = make64(n_hi, n_lo) /\ d = make64(d_hi, d_lo)
    BY Operands DEF DivInv
  <1> QED
    BY <1>1, WordSizes DEF DWord, Word, make64

\* An answer that is right keeps the invariant.
LEMMA AnswerInv ==
  ASSUME DivInv, NEW quot, NEW rem, Answer(quot, rem), Divided(quot, rem)
  PROVE  DivInv'
  <1>1. /\ UNCHANGED <<routine, a, b>> /\ pc' = "return"
        /\ ret'.quot = quot /\ ret'.rem = rem
    BY DEF Answer, args
  <1>2. n' = n /\ d' = d
    BY <1>1 DEF n, d, NegatedIf, IsSigned, Negative
  <1>3. Divided(quot, rem)'
    BY <1>2 DEF Divided
  <1>4. Divided(ret.quot, ret.rem)'
    BY <1>1, <1>2 DEF Divided
  <1> QED
    BY <1>1, <1>4 DEF DivInv, LoopInvariant

\* 0 X / 0 X and 0 X / K X.
LEMMA SmallDividendInv == ASSUME DivInv, SmallDividend PROVE DivInv'
  <1> DEFINE W == WordMod
  <1>1. /\ n \in Nat /\ d \in Nat \ {0} /\ n_hi = 0
        /\ n_lo \in Nat /\ d_hi \in Nat /\ d_lo \in Nat /\ n_lo < W
        /\ n = (n_hi * W) + n_lo /\ d = (d_hi * W) + d_lo /\ W \in Nat \ {0}
    BY OperandNumbers, WordSizes DEF SmallDividend
  <1> HIDE DEF W
  <1>2. n = n_lo
    BY <1>1
  <1>3. CASE d_hi = 0
    <2>1. d = d_lo
      BY <1>1, <1>3
    <2>2. Divided(n_lo \div d_lo, n_lo % d_lo)
      <3> DEFINE q == n_lo \div d_lo
                 r == n_lo % d_lo
      <3>1. q \in Nat /\ r \in 0..(d_lo - 1) /\ n_lo = (q * d_lo) + r
        BY <1>1, <2>1, DivMod
      <3> HIDE DEF q, r
      <3>2. Divided(q, r)
        BY <1>1, <1>2, <2>1, <3>1 DEF Divided
      <3> QED
        BY <3>2 DEF q, r
    <2> QED
      BY <1>3, <2>2, AnswerInv DEF SmallDividend
  <1>4. CASE d_hi # 0
    <2>1. 1 * W <= d_hi * W /\ d_hi * W \in Nat
      BY <1>1, <1>4, Times, Product
    <2>2. n_lo < d
      <3> DEFINE x == d_hi * W
      <3>1. W <= x /\ x \in Nat /\ d = x + d_lo
        BY <1>1, <2>1
      <3> HIDE DEF x
      <3> QED
        BY <1>1, <3>1
    <2>3. Divided(0, n_lo)
      BY <1>1, <1>2, <2>2 DEF Divided
    <2> QED
      BY <1>4, <2>3, AnswerInv DEF SmallDividend
  <1> QED
    BY <1>3, <1>4

\* A quotient of the high words, where the low word of the divisor is zero.
LEMMA HighWords ==
  ASSUME DivInv, d_lo = 0
  PROVE  Divided(n_hi \div d_hi, make64(n_hi % d_hi, n_lo))
  <1> DEFINE W == WordMod
             q == n_hi \div d_hi
             r == n_hi % d_hi
  <1>1. /\ n \in Nat /\ d \in Nat \ {0} /\ n_hi \in Nat /\ n_lo \in Nat /\ d_hi \in Nat /\ n_lo < W
        /\ n = (n_hi * W) + n_lo /\ d = d_hi * W /\ W \in Nat \ {0}
    BY OperandNumbers, WordSizes
  <1> HIDE DEF W
  <1>2. d_hi # 0
    BY <1>1
  <1>3. q \in Nat /\ r \in 0..(d_hi - 1) /\ n_hi = (q * d_hi) + r
    BY <1>1, <1>2, DivMod
  <1> HIDE DEF q, r
  <1>4. (r * W) + n_lo \in 0..((d_hi * W) - 1)
    BY <1>1, <1>2, <1>3, JoinParts
  <1>5. n = (q * d) + ((r * W) + n_lo)
    <2>1. ((q * d_hi) + r) * W = (q * (d_hi * W)) + (r * W)
      BY <1>1, <1>3
    <2>2. q * (d_hi * W) \in Int /\ r * W \in Int
      BY <1>1, <1>3
    <2> QED
      BY <1>1, <1>3, <2>1, <2>2
  <1>6. make64(r, n_lo) = (r * W) + n_lo
    BY DEF make64, W
  <1> DEFINE x == (r * W) + n_lo
  <1>7. x \in Nat /\ x < d /\ n = (q * d) + x
    BY <1>1, <1>4, <1>5
  <1> HIDE DEF x
  <1>8. Divided(q, x)
    BY <1>3, <1>7 DEF Divided
  <1> QED
    BY <1>6, <1>8 DEF x, q, r

\* K 0 / K 0
LEMMA LowWordsZeroInv == ASSUME DivInv, LowWordsZero PROVE DivInv'
  <1>1. d_lo = 0 /\ n_lo = 0 /\ Answer(n_hi \div d_hi, make64(n_hi % d_hi, n_lo))
    BY DEF LowWordsZero
  <1> QED
    BY <1>1, HighWords, AnswerInv

\* K K / K 0, d a power of two.
LEMMA ShiftHighWordInv == ASSUME DivInv, ShiftHighWord PROVE DivInv'
  <1>1. /\ d_lo = 0 /\ IsPowerOf2(d_hi)
        /\ Answer(Shr(n_hi, ctzsi(d_hi)), make64(n_hi % d_hi, n_lo))
    BY DEF ShiftHighWord
  <1>2. n_hi \in Word /\ d_hi \in Word
    BY Operands DEF DivInv
  <1>3. ctzsi(d_hi) \in 0..(n_uword_bits - 1) /\ Pow2[ctzsi(d_hi)] = d_hi
    BY <1>1, <1>2, CtzIs
  <1>4. Shr(n_hi, ctzsi(d_hi)) = n_hi \div d_hi
    BY <1>2, <1>3, Shifts
  <1> QED
    BY <1>1, <1>4, HighWords, AnswerInv

\* K X / 0 K, d a power of two.
LEMMA ShiftBothWordsInv == ASSUME DivInv, ShiftBothWords PROVE DivInv'
  <1>1. d_hi = 0 /\ IsPowerOf2(d_lo)
    BY DEF ShiftBothWords
  <1>2. d_lo \in Word /\ d = d_lo /\ d \in Nat \ {0} /\ n \in Nat
    BY <1>1, Operands, OperandNumbers, WordSizes DEF DivInv
  <1>3. CASE d_lo = 1
    <2>1. Divided(n, 0)
      BY <1>2, <1>3 DEF Divided
    <2> QED
      BY <1>3, <2>1, AnswerInv DEF ShiftBothWords
  <1>4. CASE d_lo # 1
    <2> DEFINE s == ctzsi(d_lo)
               rh == Shr(n_hi, s)
               rl == Shl(n_hi, n_uword_bits - s) + Shr(n_lo, s)
    <2>1. s \in 0..(n_uword_bits - 1) /\ Pow2[s] = d_lo
      BY <1>1, <1>2, CtzIs
    <2>2. Answer(make64(rh, rl), n_lo % d_lo)
      BY <1>4 DEF ShiftBothWords
    <2> HIDE DEF s
    <2>3. s \in 1..(n_uword_bits - 1)
      BY <1>4, <2>1, Pow2Is
    <2>4. /\ Cut(s, Shl(n_lo, n_uword_bits - s), 0, rh, rl)
          /\ n = (make64(rh, rl) * Pow2[s]) + (n_lo % Pow2[s])
          /\ n_lo % Pow2[s] \in 0..(Pow2[s] - 1)
      BY <2>3, CutFew DEF DivInv
    <2> HIDE DEF rh, rl
    <2>5. make64(rh, rl) \in Nat
      BY <2>4, JoinWords, WordSizes DEF Cut, DWord
    <2>6. n_lo % d_lo \in Nat /\ n_lo % d_lo < d
      BY <1>2, <2>1, <2>4
    <2>7. Divided(make64(rh, rl), n_lo % d_lo)
      BY <1>2, <2>1, <2>4, <2>5, <2>6 DEF Divided
    <2> QED
      BY <2>2, <2>7, AnswerInv
  <1> QED
    BY <1>3, <1>4

\* The unsigned difference of two counts of leading zeros.
LEMMA DistanceIs ==
  ASSUME DivInv, n_hi # 0, d_hi # 0
  PROVE  /\ clzsi(d_hi) \in 0..(n_uword_bits - 1) /\ clzsi(n_hi) \in 0..(n_uword_bits - 1)
         /\ Distance \in Nat
         /\ clzsi(d_hi) >= clzsi(n_hi) => Distance = clzsi(d_hi) - clzsi(n_hi)
         /\ clzsi(d_hi) < clzsi(n_hi) => Distance > n_uword_bits
  <1> DEFINE c == clzsi(d_hi)
             k == clzsi(n_hi)
             U == UIntMod
             B == n_uword_bits
  <1>1. c \in 0..(B - 1) /\ k \in 0..(B - 1)
    BY Operands, ClzIs DEF DivInv
  <1>2. U \in Nat /\ U > 4 * B /\ B \in Nat /\ B > 1
    BY DivMod64Assumption
  <1>3. Distance = (c - k) % U
    BY DEF Distance
  <1> HIDE DEF c, k, U, B
  <1>4. CASE c >= k
    <2>1. (c - k) % U = c - k
      BY <1>1, <1>2, <1>4
    <2> QED
      BY <1>1, <1>2, <1>3, <1>4, <2>1 DEF c, k, B
  <1>5. CASE c < k
    <2>1. (c - k) % U = (c - k) + U
      BY <1>1, <1>2, <1>5
    <2> QED
      BY <1>1, <1>2, <1>3, <1>5, <2>1 DEF c, k, B
  <1> QED
    BY <1>1, <1>4, <1>5

\* K X / K X with a dividend shorter than the divisor.
LEMMA ShorterDividendInv == ASSUME DivInv, ShorterDividend PROVE DivInv'
  <1> DEFINE c == clzsi(d_hi)
             k == clzsi(n_hi)
             B == n_uword_bits
  <1>1. ~Special /\ d_hi # 0 /\ n_hi # 0 /\ Distance > MaxDistance /\ Answer(0, n)
    BY DEF ShorterDividend, Special
  <1>2. /\ c \in 0..(B - 1) /\ k \in 0..(B - 1) /\ B \in Nat /\ Distance \in Nat
        /\ c >= k => Distance = c - k
    BY <1>1, DistanceIs, WordSizes
  <1>3. /\ n_hi \in Word /\ n_lo \in Word /\ d_hi \in Word /\ d_lo \in Word
        /\ n = make64(n_hi, n_lo) /\ d = make64(d_hi, d_lo)
    BY Operands DEF DivInv
  <1>4. c < k
    <2> SUFFICES ASSUME c >= k PROVE FALSE
      BY <1>2
    <2>1. c - k > MaxDistance
      BY <1>1, <1>2
    <2>2. d_lo = 0 /\ c = B - 1
      BY <1>2, <2>1 DEF MaxDistance
    <2>3. Pow2[(B - 1) - c] <= d_hi /\ d_hi < Pow2[B - c]
      BY <1>1, <1>3, ClzIs
    <2>4. (B - 1) - c = 0 /\ B - c = 0 + 1
      BY <1>2, <2>2
    <2>5. d_hi = 1
      <3>1. Pow2[0] = 1 /\ Pow2[0 + 1] = 2
        BY Pow2Is
      <3>2. d_hi \in Nat
        BY OperandNumbers
      <3> QED
        BY <2>3, <2>4, <3>1, <3>2
    <2>6. IsPowerOf2(d_hi)
      BY <1>2, <2>5, Pow2Is DEF IsPowerOf2
    <2> QED
      BY <1>1, <2>2, <2>6 DEF Special
  <1>5. n < Pow2[(2 * B) - k] /\ Pow2[((2 * B) - 1) - c] <= d
    BY <1>1, <1>3, DigitsOf
  <1>6. Pow2[(2 * B) - k] <= Pow2[((2 * B) - 1) - c]
    <2> DEFINE i == (2 * B) - k
               j == ((2 * B) - 1) - c
    <2>1. i \in Nat /\ j \in Nat /\ i <= j
      BY <1>2, <1>4
    <2> HIDE DEF i, j
    <2>2. Pow2[i] <= Pow2[j]
      BY <2>1, Pow2Order
    <2> QED
      BY <2>2 DEF i, j
  <1>7. n \in Nat /\ d \in Nat \ {0}
    BY OperandNumbers
  <1>8. n < d
    <2> DEFINE x == Pow2[(2 * B) - k]
               y == Pow2[((2 * B) - 1) - c]
    <2>1. x \in Nat /\ y \in Nat
      <3>1. (2 * B) - k \in Nat /\ ((2 * B) - 1) - c \in Nat
        BY <1>2
      <3> QED
        BY <3>1, Pow2Is
    <2> HIDE DEF x, y
    <2> QED
      BY <1>5, <1>6, <1>7, <2>1 DEF x, y
  <1>9. Divided(0, n)
    BY <1>7, <1>8 DEF Divided
  <1> QED
    BY <1>1, <1>9, AnswerInv

\* Start shifts the dividend by s.
LEMMA StartCuts ==
  ASSUME DivInv, NEW s \in 1..((2 * n_uword_bits) - 1), Start(s)
  PROVE  Cut(s, q_hi', q_lo', r_hi', r_lo') /\ sr' = s /\ carry' = 0
  <1>1. a \in DWord /\ b \in DWord \ {0} /\ n_uword_bits \in Nat
    BY WordSizes DEF DivInv
  <1>2. CASE s = n_uword_bits
    BY <1>1, <1>2, CutAtWord DEF Start
  <1>3. CASE s < n_uword_bits
    <2>1. s \in 1..(n_uword_bits - 1)
      BY <1>1, <1>3
    <2>2. /\ q_hi' = Shl(n_lo, n_uword_bits - s) /\ q_lo' = 0
          /\ r_hi' = Shr(n_hi, s) /\ r_lo' = Shl(n_hi, n_uword_bits - s) + Shr(n_lo, s)
      BY <1>1, <1>3 DEF Start
    <2>3. Cut(s, q_hi', q_lo', r_hi', r_lo')
      BY <1>1, <2>1, <2>2, CutFew
    <2> QED
      BY <2>3 DEF Start
  <1>4. CASE s > n_uword_bits
    <2>1. s \in (n_uword_bits + 1)..((2 * n_uword_bits) - 1)
      BY <1>1, <1>4
    <2>2. /\ q_hi' = Shl(n_hi, (2 * n_uword_bits) - s) + Shr(n_lo, s - n_uword_bits)
          /\ q_lo' = Shl(n_lo, (2 * n_uword_bits) - s)
          /\ r_hi' = 0 /\ r_lo' = Shr(n_hi, s - n_uword_bits)
      BY <1>1, <1>4 DEF Start
    <2>3. Cut(s, q_hi', q_lo', r_hi', r_lo')
      BY <1>1, <2>1, <2>2, CutMany
    <2> QED
      BY <2>3 DEF Start
  <1> QED
    BY <1>1, <1>2, <1>3, <1>4

\* The loop starts where the first digit of the quotient can be: r is less than d.
LEMMA StartPlace ==
  ASSUME DivInv, StartLoop
  PROVE  \E s \in 1..((2 * n_uword_bits) - 1), e \in Nat :
           Start(s) /\ n < Pow2[s + e] /\ Pow2[e] <= d
  <1> DEFINE B == n_uword_bits
             k == clzsi(n_hi)
  <1>1. /\ n_hi \in Word /\ n_lo \in Word /\ d_hi \in Word /\ d_lo \in Word
        /\ n = make64(n_hi, n_lo) /\ d = make64(d_hi, d_lo)
    BY Operands DEF DivInv
  <1>2. ~Special /\ n_hi # 0
    BY DEF StartLoop, Special
  <1>3. k \in 0..(B - 1) /\ n < Pow2[(2 * B) - k] /\ B \in Nat /\ B > 1
    BY <1>1, <1>2, ClzIs, DigitsOf, DivMod64Assumption
  <1>4. CASE d_hi = 0
    <2> DEFINE c == clzsi(d_lo)
               s == ((1 + B) + c) - k
               e == (B - 1) - c
    <2>1. d = d_lo /\ d_lo # 0
      BY <1>4, OperandNumbers, WordSizes
    <2>2. c \in 0..(B - 1) /\ Pow2[(B - 1) - c] <= d_lo /\ d_lo < Pow2[B - c]
      BY <1>1, <2>1, ClzIs
    <2>3. c # B - 1
      <3> SUFFICES ASSUME c = B - 1 PROVE FALSE
        OBVIOUS
      <3>1. (B - 1) - c = 0 /\ B - c = 0 + 1
        BY <1>3
      <3>2. Pow2[0] = 1 /\ Pow2[0 + 1] = 2 /\ d_lo \in Nat
        BY Pow2Is, OperandNumbers
      <3>3. d_lo = Pow2[0]
        BY <2>2, <3>1, <3>2
      <3>4. IsPowerOf2(d_lo)
        BY <1>3, <3>3 DEF IsPowerOf2
      <3> QED
        BY <1>2, <1>4, <3>4 DEF Special
    <2>4. Start((1 + n_uword_bits + clzsi(d_lo) - clzsi(n_hi)) % UIntMod)
      BY <1>4 DEF StartLoop
    <2> HIDE DEF c, k, B
    <2>5. s \in 1..((2 * B) - 1) /\ e \in Nat /\ s + e = (2 * B) - k /\ s < 4 * B
      BY <1>3, <2>2, <2>3
    <2>6. (1 + B + c - k) % UIntMod = s
      <3>1. UIntMod \in Nat /\ UIntMod > 4 * B
        BY DivMod64Assumption DEF B
      <3>2. 1 + B + c - k = s
        BY <1>3, <2>2
      <3> HIDE DEF s
      <3> QED
        BY <1>3, <2>5, <3>1, <3>2
    <2>7. Start(s)
      BY <2>4, <2>6 DEF c, k, B
    <2> HIDE DEF s
    <2>8. Pow2[e] <= d
      BY <2>1, <2>2
    <2>9. n < Pow2[s + e]
      BY <1>3, <2>5
    <2> HIDE DEF e
    <2> QED
      BY <2>5, <2>7, <2>8, <2>9 DEF B
  <1>5. CASE d_hi # 0
    <2> DEFINE c == clzsi(d_hi)
               s == (c - k) + 1
               e == ((2 * B) - 1) - c
    <2>1. /\ c \in 0..(B - 1) /\ Distance \in Nat
          /\ c >= k => Distance = c - k
          /\ c < k => Distance > B
      BY <1>2, <1>5, DistanceIs
    <2>2. Distance <= MaxDistance /\ Start(Distance + 1)
      BY <1>5 DEF StartLoop
    <2>3. Pow2[((2 * B) - 1) - c] <= d
      BY <1>1, <1>5, DigitsOf
    <2> HIDE DEF c, k
    <2>4. MaxDistance <= B - 1 /\ MaxDistance \in Int
      BY <1>3 DEF MaxDistance
    <2> HIDE DEF B
    <2>5. c >= k
      BY <1>3, <2>1, <2>2, <2>4
    <2>6. s \in 1..((2 * B) - 1) /\ e \in Nat /\ s + e = (2 * B) - k /\ Distance + 1 = s
      BY <1>3, <2>1, <2>5
    <2> HIDE DEF s, e
    <2> QED
      BY <1>3, <2>2, <2>3, <2>6 DEF B, e
  <1> QED
    BY <1>4, <1>5

\* The digits found, the remainder and the rest make up the dividend: how q, a
\* double word, is read.
LEMMA LoopReads ==
  ASSUME NEW q \in Nat, NEW P \in Nat \ {0}, NEW rest \in Nat, NEW part \in Nat,
         q = (rest * P) + part, part < P
  PROVE  q \div P = rest /\ q % P = part
  BY DivModUnique

\* The loop begins.
LEMMA StartLoopInv == ASSUME DivInv, StartLoop PROVE DivInv'
  <1>1. PICK s \in 1..((2 * n_uword_bits) - 1), e \in Nat :
          Start(s) /\ n < Pow2[s + e] /\ Pow2[e] <= d
    BY StartPlace
  <1>2. Cut(s, q_hi', q_lo', r_hi', r_lo') /\ sr' = s /\ carry' = 0
    BY <1>1, StartCuts
  <1>3. UNCHANGED <<routine, a, b, ret>> /\ pc' = "loop"
    BY DEF StartLoop, args
  <1>4. n' = n /\ d' = d
    BY <1>3 DEF n, d, NegatedIf, IsSigned, Negative
  <1> DEFINE q == make64(q_hi', q_lo')
             r == make64(r_hi', r_lo')
             P == Pow2[(2 * n_uword_bits) - s]
  <1>5. s \in Nat /\ P \in Nat \ {0} /\ (2 * n_uword_bits) - s \in Nat /\ s \in 0..((2 * n_uword_bits) - 1)
    BY WordSizes, Pow2Positive
  <1>6. r < d
    <2>1. d \in Nat
      BY OperandNumbers
    <2> QED
      BY <1>1, <1>2, <1>5, <2>1, CutBelow
  <1>7. PICK rest \in Nat : rest < Pow2[s] /\ q = rest * P /\ n = (r * Pow2[s]) + rest
    BY <1>2 DEF Cut
  <1>8. q_hi' \in Word /\ q_lo' \in Word /\ r_hi' \in Word /\ r_lo' \in Word
    BY <1>2 DEF Cut
  <1>9. r \in Nat /\ d \in Nat
    BY <1>8, JoinWords, WordSizes, OperandNumbers DEF DWord
  <1> HIDE DEF P, q, r
  <1>10. q \in Nat /\ q = (rest * P) + 0 /\ 0 < P
    BY <1>5, <1>7, Product
  <1>11. q \div P = rest /\ q % P = 0
    BY <1>5, <1>10, LoopReads
  <1>12. (((((2 * 0) + 0) * d) + r) * Pow2[s]) + rest = (r * Pow2[s]) + rest
    <2>1. ((2 * 0) + 0) * d = 0 /\ 0 + r = r
      BY <1>9
    <2> QED
      BY <2>1
  <1>13. r < d /\ n = (((((2 * (q % P)) + 0) * d) + r) * Pow2[s]) + (q \div P)
    BY <1>6, <1>7, <1>11, <1>12
  <1>14. LoopInvariant'
    BY <1>2, <1>4, <1>13 DEF LoopInvariant, P, q, r
  <1> QED
    BY <1>2, <1>3, <1>5, <1>8, <1>14 DEF DivInv

\* What LoopInvariant says of the double words in the loop.
LEMMA InLoop ==
  ASSUME DivInv, pc = "loop",
         NEW q, q = make64(q_hi, q_lo), NEW r, r = make64(r_hi, r_lo),
         NEW P, P = Pow2[(2 * n_uword_bits) - sr]
  PROVE  /\ q \in Nat /\ q < DWordMod /\ r \in Nat /\ r < d
         /\ P \in Nat \ {0} /\ Pow2[sr] \in Nat \ {0} /\ DWordMod = Pow2[sr] * P
         /\ \E rest \in Nat, part \in Nat :
              /\ rest < Pow2[sr] /\ part < P /\ q = (rest * P) + part
              /\ n = (((((2 * part) + carry) * d) + r) * Pow2[sr]) + rest
  <1>1. /\ q_hi \in Word /\ q_lo \in Word /\ r_hi \in Word /\ r_lo \in Word
        /\ carry \in {0, 1} /\ sr \in 0..((2 * n_uword_bits) - 1)
    BY DEF DivInv
  <1>2. q \in Nat /\ q < DWordMod /\ r \in Nat
    BY <1>1, JoinWords, WordSizes DEF DWord
  <1>3. r < d /\ n = (((((2 * (q % P)) + carry) * d) + r) * Pow2[sr]) + (q \div P)
    BY DEF DivInv, LoopInvariant
  <1> DEFINE k == (2 * n_uword_bits) - sr
             S == Pow2[sr]
  <1>4. P \in Nat \ {0} /\ S \in Nat \ {0} /\ DWordMod = S * P
    <2>1. k \in Nat /\ sr \in Nat /\ sr + k = n_uword_bits + n_uword_bits /\ n_uword_bits \in Nat
      BY <1>1, WordSizes
    <2> HIDE DEF k
    <2>2. Pow2[sr + k] = Pow2[sr] * Pow2[k] /\ Pow2[k] \in Nat \ {0} /\ Pow2[sr] \in Nat \ {0}
      BY <2>1, Pow2Sum, Pow2Positive
    <2>3. Pow2[n_uword_bits + n_uword_bits] = Pow2[n_uword_bits] * Pow2[n_uword_bits]
      BY <2>1, Pow2Sum
    <2> QED
      BY <2>1, <2>2, <2>3 DEF DWordMod, WordMod, k
  <1> DEFINE rest == q \div P
             part == q % P
  <1>5. rest \in Nat /\ part \in 0..(P - 1) /\ q = (rest * P) + part
    BY <1>2, <1>4, DivMod
  <1>6. rest \in 0..(S - 1)
    BY <1>2, <1>4, QuotientBelow
  <1>7. n = (((((2 * part) + carry) * d) + r) * S) + rest
    BY <1>3
  <1> HIDE DEF rest, part, S
  <1>8. rest < S /\ part \in Nat /\ part < P
    BY <1>4, <1>5, <1>6
  <1>9. \E x \in Nat, y \in Nat :
              /\ x < S /\ y < P /\ q = (x * P) + y
              /\ n = (((((2 * y) + carry) * d) + r) * S) + x
    BY <1>5, <1>7, <1>8
  <1> QED
    BY <1>2, <1>3, <1>4, <1>9 DEF S

\* One iteration of the loop.
LEMMA DivLoopInv == ASSUME DivInv, DivLoop PROVE DivInv'
  <1> DEFINE q == make64(q_hi, q_lo)
             r == make64(r_hi, r_lo)
             k == (2 * n_uword_bits) - sr
             P == Pow2[k]
             j == sr - 1
             p == Pow2[j]
             D == d
             N == n
             c == carry
             top == TopBit(q_hi)
  <1>0. pc = "loop" /\ sr > 0
    BY DEF DivLoop
  <1>1. /\ q_hi \in Word /\ q_lo \in Word /\ r_hi \in Word /\ r_lo \in Word
        /\ c \in {0, 1} /\ sr \in 0..((2 * n_uword_bits) - 1)
    BY <1>0 DEF DivInv
  <1>2. j \in Nat /\ sr = j + 1 /\ k \in Nat /\ (2 * n_uword_bits) - j = k + 1
        /\ j \in 0..((2 * n_uword_bits) - 1)
    BY <1>0, <1>1, WordSizes
  <1>3. /\ q \in Nat /\ q < DWordMod /\ r \in Nat /\ r < D
        /\ P \in Nat \ {0} /\ DWordMod = Pow2[sr] * P
        /\ \E rest \in Nat, part \in Nat :
             /\ rest < Pow2[sr] /\ part < P /\ q = (rest * P) + part
             /\ N = (((((2 * part) + c) * D) + r) * Pow2[sr]) + rest
    BY <1>0, InLoop
  <1>4. N \in Nat /\ N < DWordMod /\ D \in Nat \ {0} /\ DWordMod \in Nat
    BY OperandNumbers, WordSizes
  <1>5. top \in {0, 1}
    BY <1>1, ShiftedWords
  <1>6. p \in Nat \ {0} /\ Pow2[sr] = 2 * p /\ Pow2[k + 1] = 2 * P
    <2> HIDE DEF j, k
    <2> QED
      BY <1>2, Pow2Is, Pow2Positive
  <1> DEFINE L == p * P
  <1>7. L \in Nat /\ 2 * L = DWordMod
    <2>1. (2 * p) * P = 2 * (p * P) /\ p * P \in Nat
      BY <1>3, <1>6
    <2> QED
      BY <1>3, <1>6, <2>1
  <1>8. PICK low \in Nat : low < L /\ q = (top * L) + low
    BY <1>1, <1>7, TopBitIs
  <1> HIDE DEF q, r, P, p, D, N, c, top, k, j
  <1>9. PICK rest \in Nat, part \in Nat :
          /\ rest < 2 * p /\ part < P /\ q = (rest * P) + part
          /\ N = (((((2 * part) + c) * D) + r) * (2 * p)) + rest
    BY <1>3, <1>6
  <1> DEFINE F == (2 * part) + c
  <1>10. F \in Nat /\ N = (((F * D) + r) * (2 * p)) + rest /\ N < 2 * (p * P)
    BY <1>1, <1>4, <1>7, <1>9
  <1> HIDE DEF F
  <1>11. DigitFound(N, D, F, r, q, c, p, P, top)
    <2>1. /\ N \in Nat /\ D \in Nat /\ F \in Nat /\ r \in Nat /\ q \in Nat /\ c \in {0, 1}
          /\ p \in Nat \ {0} /\ P \in Nat \ {0} /\ top \in {0, 1}
      BY <1>1, <1>3, <1>4, <1>5, <1>6, <1>10
    <2>2. DigitsSoFar(N, D, F, r, rest, q, part, c, p, P, top, low)
      BY <1>3, <1>8, <1>9, <1>10, <2>1 DEF DigitsSoFar, F
    <2> QED
      BY <2>2, NextDigit
  <1>12. PICK left \in Nat :
           /\ left < p
           /\ ((2 * q) + c) - (top * (2 * (p * P))) = (left * (2 * P)) + F
           /\ N = ((((2 * F) * D) + ((2 * r) + top)) * p) + left
    BY <1>11 DEF DigitFound
  <1> DEFINE R == (2 * r) + top
  <1>13. R \in Nat /\ R < DWordMod /\ R < 2 * D /\ F < 2 * P
    BY <1>3, <1>5, <1>7, <1>11 DEF DigitFound
  <1> HIDE DEF L
  <1> DEFINE high == Shl(r_hi, 1) + TopBit(r_lo)
             lw == Shl(r_lo, 1) + top
             new == (lw - d_lo) % WordMod
             brw == IF new > lw THEN 1 ELSE 0
             fits == high > d_hi \/ (high = d_hi /\ lw >= d_lo)
             dh == d_hi
             dl == d_lo
             W == WordMod
  <1>14. /\ UNCHANGED <<routine, a, b, ret>> /\ pc' = "loop" /\ sr' = j
         /\ q_hi' = Shl(q_hi, 1) + TopBit(q_lo) /\ q_lo' = Shl(q_lo, 1) + c
         /\ r_hi' = IF fits THEN (high - dh - brw) % W ELSE high
         /\ r_lo' = IF fits THEN new ELSE lw
         /\ carry' = IF fits THEN 1 ELSE 0
    BY <1>0 DEF DivLoop, args, Counted, Borrow, top, c, j
  <1>15. high \in Word /\ lw \in Word /\ make64(high, lw) = R
    <2>1. /\ TopBit(r_hi) \in {0, 1} /\ high \in Word /\ lw \in Word
          /\ make64(high, lw) = R - (TopBit(r_hi) * DWordMod)
      BY <1>1, <1>5, ShiftedWords DEF r
    <2>2. make64(high, lw) \in Nat
      BY <2>1, JoinWords, WordSizes DEF DWord
    <2> HIDE DEF high, lw, R
    <2>3. TopBit(r_hi) = 0
      BY <1>4, <1>13, <2>1, <2>2
    <2>4. R - (0 * DWordMod) = R
      BY <1>4, <1>13
    <2> QED
      BY <2>1, <2>3, <2>4, Zenon
  <1>16. q_hi' \in Word /\ q_lo' \in Word /\ make64(q_hi', q_lo') = (left * (2 * P)) + F
    <2>1. /\ q_hi' \in Word /\ q_lo' \in Word
          /\ make64(q_hi', q_lo') = ((2 * q) + c) - (top * DWordMod)
      BY <1>1, <1>14, ShiftedWords DEF q, top
    <2> QED
      BY <1>7, <1>12, <2>1 DEF L
  <1>17. dh \in Word /\ dl \in Word /\ D = (dh * W) + dl /\ W \in Nat \ {0}
    BY Operands, WordSizes DEF DivInv, D, make64
  <1>18. make64(high, lw) = (high * W) + lw
    BY DEF make64
  <1> HIDE DEF high, lw, dh, dl, R
  <1>19. /\ fits <=> D <= R
         /\ fits => /\ new \in 0..(W - 1) /\ (high - dh - brw) % W \in 0..(W - 1)
                    /\ (((high - dh - brw) % W) * W) + new = R - D
    <2>1. high \in 0..(W - 1) /\ lw \in 0..(W - 1) /\ dh \in 0..(W - 1) /\ dl \in 0..(W - 1)
      BY <1>15, <1>17 DEF Word
    <2>2. new = (lw - dl) % W /\ fits \in BOOLEAN /\ (fits <=> (high > dh \/ (high = dh /\ lw >= dl)))
      BY DEF dh, dl
    <2>3. brw = IF new > lw THEN 1 ELSE 0
      OBVIOUS
    <2> HIDE DEF new, brw, fits, W
    <2>4. Subtraction(W, high, lw, dh, dl, new, brw, fits)
      BY <1>17, <2>1, <2>2, <2>3 DEF Subtraction
    <2>5. Subtracted(W, high, lw, dh, dl, new, brw, fits)
      BY <2>4, SubtractWords
    <2> QED
      BY <1>15, <1>17, <1>18, <2>5, Zenon DEF Subtracted
  <1> HIDE DEF new, brw, fits, W
  <1> DEFINE z == make64(r_hi', r_lo')
             f == carry'
  <1>20. /\ f \in {0, 1} /\ r_hi' \in Word /\ r_lo' \in Word
         /\ z = R - (f * D) /\ z \in Nat /\ z < D
    <2>1. CASE fits
      <3>1. r_hi' = (high - dh - brw) % W /\ r_lo' = new /\ f = 1
        BY <1>14, <2>1
      <3>2. r_hi' \in Word /\ r_lo' \in Word /\ z = R - D
        BY <1>19, <2>1, <3>1 DEF Word, make64, W
      <3> HIDE DEF z, f
      <3> QED
        BY <1>4, <1>13, <1>19, <2>1, <3>1, <3>2
    <2>2. CASE ~fits
      <3>1. r_hi' = high /\ r_lo' = lw /\ f = 0
        BY <1>14, <2>2
      <3>2. r_hi' \in Word /\ r_lo' \in Word /\ z = R
        BY <1>15, <3>1
      <3> HIDE DEF z, f
      <3> QED
        BY <1>4, <1>13, <1>19, <2>2, <3>1, <3>2
    <2> QED
      BY <2>1, <2>2
  <1> HIDE DEF z, f
  <1>21. N = (((((2 * F) + f) * D) + z) * p) + left
    <2>1. (((2 * F) + f) * D) + z = ((2 * F) * D) + R
      BY <1>4, <1>10, <1>13, <1>20
    <2> QED
      BY <1>12, <2>1 DEF R
  <1> DEFINE Q == make64(q_hi', q_lo')
             PP == Pow2[(2 * n_uword_bits) - j]
  <1>22. Q \div PP = left /\ Q % PP = F
    <2>1. PP = 2 * P /\ PP \in Nat \ {0}
      BY <1>2, <1>3, <1>6
    <2>2. Q \in Nat
      BY <1>16, JoinWords, WordSizes DEF DWord
    <2>3. Q = (left * PP) + F /\ F < PP
      BY <1>13, <1>16, <2>1
    <2> HIDE DEF Q, PP
    <2> QED
      BY <1>10, <2>1, <2>2, <2>3, LoopReads
  <1>23. n' = n /\ d' = d
    BY <1>14 DEF n, d, NegatedIf, IsSigned, Negative
  <1>24. z < D /\ N = (((((2 * (Q % PP)) + f) * D) + z) * p) + (Q \div PP)
    <2> HIDE DEF Q, PP
    <2> QED
      BY <1>20, <1>21, <1>22
  <1>25. LoopInvariant'
    BY <1>14, <1>23, <1>24 DEF LoopInvariant, z, f, N, D, p
  <1> QED
    BY <1>2, <1>14, <1>16, <1>20, <1>25 DEF DivInv, f

\* The last digit, and the answer.
LEMMA LoopEndsInv == ASSUME DivInv, LoopEnds PROVE DivInv'
  <1> DEFINE q == make64(q_hi, q_lo)
             r == make64(r_hi, r_lo)
             M == DWordMod
             top == TopBit(q_hi)
             Q == make64(q_hi', q_lo')
  <1>1. pc = "loop" /\ sr = 0
    BY DEF LoopEnds
  <1>2. /\ q_hi \in Word /\ q_lo \in Word /\ r_hi \in Word /\ r_lo \in Word
        /\ carry \in {0, 1}
    BY <1>1 DEF DivInv
  <1> DEFINE P == Pow2[(2 * n_uword_bits) - sr]
  <1>3. /\ q \in Nat /\ q < M /\ r \in Nat /\ r < d
        /\ M = Pow2[sr] * P /\ P \in Nat
        /\ \E rest \in Nat, part \in Nat :
             /\ rest < Pow2[sr] /\ part < P /\ q = (rest * P) + part
             /\ n = (((((2 * part) + carry) * d) + r) * Pow2[sr]) + rest
    BY <1>1, InLoop
  <1>4. Pow2[sr] = 1
    BY <1>1, Pow2Is
  <1> HIDE DEF q, r, P
  <1>5. d \in Nat \ {0} /\ n \in Nat /\ n < M /\ M \in Nat
    BY OperandNumbers, WordSizes
  <1> HIDE DEF M
  <1> DEFINE F == (2 * q) + carry
  <1>6. F \in Nat /\ n = (F * d) + r
    <2>1. PICK rest \in Nat, part \in Nat :
             /\ rest < 1 /\ q = (rest * P) + part
             /\ n = (((((2 * part) + carry) * d) + r) * 1) + rest
      BY <1>3, <1>4
    <2>2. rest = 0
      BY <2>1
    <2>3. q = part
      BY <1>3, <2>1, <2>2
    <2> DEFINE x == (F * d) + r
    <2>4. F \in Nat /\ x \in Int /\ n = (x * 1) + 0
      BY <1>2, <1>3, <1>5, <2>1, <2>2, <2>3
    <2> HIDE DEF x, F
    <2>5. n = x
      BY <2>4
    <2> QED
      BY <2>4, <2>5 DEF x
  <1> HIDE DEF F
  <1>7. F < M
    <2>1. 1 * F <= d * F
      BY <1>5, <1>6, Times
    <2>2. F * d \in Nat /\ d * F = F * d
      BY <1>5, <1>6
    <2> QED
      BY <1>3, <1>5, <1>6, <2>1, <2>2
  <1>8. Q = F - (top * M) /\ top \in {0, 1} /\ Q \in Nat
    <2>1. q_hi' = Shl(q_hi, 1) + TopBit(q_lo) /\ q_lo' = Shl(q_lo, 1) + carry
      BY DEF LoopEnds
    <2>2. /\ top \in {0, 1} /\ q_hi' \in Word /\ q_lo' \in Word
          /\ Q = ((2 * q) + carry) - (top * M)
      BY <1>2, <2>1, ShiftedWords DEF q, M
    <2>3. Q \in Nat
      BY <2>2, JoinWords, WordSizes DEF DWord
    <2> QED
      BY <2>2, <2>3 DEF F
  <1>9. /\ UNCHANGED <<routine, a, b>> /\ pc' = "return"
        /\ ret'.quot = Q /\ ret'.rem = r
    BY DEF LoopEnds, args, r
  <1> HIDE DEF Q, top
  <1>10. Q = F
    BY <1>5, <1>6, <1>7, <1>8
  <1>11. Divided(Q, r)
    BY <1>3, <1>6, <1>10 DEF Divided
  <1>12. n' = n /\ d' = d
    BY <1>9 DEF n, d, NegatedIf, IsSigned, Negative
  <1>13. Divided(ret.quot, ret.rem)'
    BY <1>9, <1>11, <1>12 DEF Divided
  <1> QED
    BY <1>9, <1>13 DEF DivInv, LoopInvariant

\* A call begins.
LEMMA DivInit == Init => DivInv
  BY DEF Init, DivInv, LoopInvariant

\* Every step keeps the invariant.
LEMMA DivNext == DivInv /\ [Next]_vars => DivInv'
  <1> SUFFICES ASSUME DivInv, [Next]_vars PROVE DivInv'
    OBVIOUS
  <1>1. CASE UNCHANGED vars
    BY <1>1 DEF vars, args, digits, DivInv, LoopInvariant, Divided, n, d, NegatedIf, IsSigned, Negative
  <1>2. CASE Returned
    BY <1>1, <1>2 DEF Returned
  <1> QED
    BY <1>1, <1>2, SmallDividendInv, LowWordsZeroInv, ShiftHighWordInv, ShiftBothWordsInv,
       ShorterDividendInv, StartLoopInv, DivLoopInv, LoopEndsInv DEF Next

\* For words of every width, in the loop of __udivmoddi4 the digits found so far,
\* the remainder and the digits of the dividend still in q make up the dividend,
\* the remainder is less than the divisor, and no bit is lost in the shifts of r.
THEOREM LoopKeepsInvariant == Spec => []LoopInvariant
  <1>1. DivInv => LoopInvariant
    BY DEF DivInv
  <1> QED
    BY <1>1, DivInit, DivNext, PTL DEF Spec

-----------------------------------------------------------------------------
(* Signs                                                                   *)

\* The operands of __udivmoddi4 are the absolute values of those of the call.
LEMMA ValueIs ==
  ASSUME NEW x \in DWord
  PROVE  LET neg == IsSigned /\ Negative(x)
             m == NegatedIf(x, neg)
         IN /\ neg => Value(x) = 0 - m /\ 2 * m <= DWordMod /\ x = DWordMod - m
            /\ ~neg => Value(x) = m
            /\ IsSigned /\ ~neg => 2 * m < DWordMod
  <1> DEFINE M == DWordMod
  <1>1. M \in Nat \ {0} /\ x \in 0..(M - 1)
    BY WordSizes DEF DWord
  <1>2. CASE IsSigned /\ Negative(x)
    <2>1. 2 * x >= M
      BY <1>2 DEF Negative
    <2> HIDE DEF M
    <2>2. (M - x) % M = M - x
      BY <1>1, <2>1
    <2>3. 2 * (M - x) <= M /\ x - M = 0 - (M - x) /\ x = M - (M - x)
      BY <1>1, <2>1
    <2>4. NegatedIf(x, IsSigned /\ Negative(x)) = M - x /\ Value(x) = x - M
      BY <1>2, <2>2 DEF NegatedIf, Value, M
    <2> QED
      BY <1>2, <2>3, <2>4 DEF M
  <1>3. CASE ~(IsSigned /\ Negative(x))
    <2>1. NegatedIf(x, IsSigned /\ Negative(x)) = x /\ Value(x) = x
      BY <1>3 DEF NegatedIf, Value
    <2>2. IsSigned => 2 * x < M
      BY <1>1, <1>3 DEF Negative
    <2> QED
      BY <1>3, <2>1, <2>2
  <1> QED
    BY <1>2, <1>3

\* What a result negated, or not, is worth.
LEMMA NegatedValue ==
  ASSUME NEW v \in Nat, v < DWordMod
  PROVE  /\ IsSigned /\ 2 * v <= DWordMod => Value(NegatedIf(v, TRUE)) = 0 - v
         /\ (IsSigned => 2 * v < DWordMod) => Value(NegatedIf(v, FALSE)) = v
  <1> DEFINE M == DWordMod
  <1>1. M \in Nat \ {0} /\ v < M
    BY WordSizes
  <1>2. ASSUME IsSigned, 2 * v <= M PROVE Value(NegatedIf(v, TRUE)) = 0 - v
    <2>1. NegatedIf(v, TRUE) = (M - v) % M
      BY DEF NegatedIf
    <2>2. CASE v = 0
      <3> HIDE DEF M
      <3>1. M = (1 * M) + 0 /\ M - v = M
        BY <1>1, <2>2
      <3>2. M % M = 0
        BY <1>1, <3>1, DivModUnique
      <3>3. NegatedIf(v, TRUE) = 0
        BY <2>1, <3>1, <3>2
      <3> QED
        <4>1. ~(2 * 0 >= M)
          BY <1>1
        <4>2. Value(0) = 0
          BY <4>1 DEF Value, Negative, M
        <4>3. 0 - v = 0
          BY <2>2
        <4> QED
          BY <3>3, <4>2, <4>3
    <2>3. CASE v # 0
      <3> HIDE DEF M
      <3>1. (M - v) % M = M - v
        BY <1>1, <2>3
      <3>2. 2 * (M - v) >= M /\ (M - v) - M = 0 - v
        BY <1>1, <1>2
      <3>3. NegatedIf(v, TRUE) = M - v
        BY <2>1, <3>1
      <3> QED
        BY <1>2, <3>2, <3>3 DEF Value, Negative, M
    <2> QED
      BY <2>2, <2>3
  <1>3. ASSUME IsSigned => 2 * v < M PROVE Value(NegatedIf(v, FALSE)) = v
    <2>1. ~(IsSigned /\ Negative(v))
      BY <1>1, <1>3 DEF Negative
    <2> QED
      BY <2>1 DEF Value, NegatedIf
  <1> QED
    BY <1>2, <1>3

\* What C says of a remainder.
IsCutOff(x, y, rem) == Abs(rem) < Abs(y) /\ rem * x >= 0 /\ (x - rem) % Abs(y) = 0

\* N, q and r are a division by D of absolute values, and x, y and rem are N, D and r
\* with the signs of the call.
SignedDivision(N, D, q, r, sign, x, y, rem) ==
  /\ N \in Nat /\ D \in Nat \ {0} /\ q \in Nat /\ r \in Nat
  /\ N = (q * D) + r /\ r < D
  /\ sign \in {1, -1}
  /\ x = sign * N /\ y \in {D, 0 - D} /\ rem = sign * r

\* It is the remainder of the absolute values with the sign of the dividend.
LEMMA CutOff ==
  ASSUME NEW N, NEW D, NEW q, NEW r, NEW sign, NEW x, NEW y, NEW rem,
         SignedDivision(N, D, q, r, sign, x, y, rem)
  PROVE  IsCutOff(x, y, rem)
  <1> USE DEF SignedDivision
  <1>1. Abs(y) = D /\ Abs(rem) = r
    BY DEF Abs
  <1>2. rem * x = r * N /\ r * N \in Nat
    <2>1. CASE sign = 1
      BY <2>1
    <2>2. CASE sign = -1
      BY <2>2
    <2> QED
      BY <2>1, <2>2
  <1>3. x - rem = (sign * q) * D
    <2>1. CASE sign = 1
      BY <2>1
    <2>2. CASE sign = -1
      BY <2>2
    <2> QED
      BY <2>1, <2>2
  <1> DEFINE k == sign * q
  <1>4. k \in Int
    OBVIOUS
  <1> HIDE DEF k
  <1>5. (k * D) % D = 0
    BY <1>4, MultipleMod
  <1> QED
    BY <1>1, <1>2, <1>3, <1>5 DEF k, IsCutOff

\* The quotient returned, times the divisor, is the dividend less the remainder,
\* with its sign; or it is the one that is too large.
LEMMA QuotientValue ==
  ASSUME DivInv, pc = "return", WantsQuotient
  PROVE  LET sign == IF IsSigned /\ Negative(a) THEN -1 ELSE 1
         IN \/ Value(Result) * Value(b) = sign * (ret.quot * d)
            \/ Value(b) = -1 /\ Result = a /\ 2 * a = DWordMod
  <1> DEFINE sa == IsSigned /\ Negative(a)
             sb == IsSigned /\ Negative(b)
             q == ret.quot
             r == ret.rem
             M == DWordMod
             v == Value(Result)
             y == Value(b)
             z == q * d
             sign == IF sa THEN -1 ELSE 1
  <1>0. SUFFICES v * y = sign * z \/ (y = -1 /\ Result = a /\ 2 * a = M)
    OBVIOUS
  <1>1. q \in Nat /\ r \in Nat /\ r < d /\ n = z + r /\ d \in Nat \ {0} /\ n \in Nat /\ n < M /\ M \in Nat \ {0}
    BY OperandNumbers, WordSizes DEF DivInv, Divided
  <1>2. /\ sa => 2 * n <= M /\ a = M - n
        /\ IsSigned /\ ~sa => 2 * n < M
    BY ValueIs DEF DivInv, n
  <1>3. (sb => y = 0 - d) /\ (~sb => y = d)
    BY ValueIs DEF DivInv, d
  <1>4. Result = NegatedIf(q, IsSigned /\ Negative(a) # Negative(b))
    BY DEF Result
  <1>5. sa \in BOOLEAN /\ sb \in BOOLEAN
    BY DEF Negative, IsSigned
  <1>6. (sa /\ ~sb) \/ (~sa /\ sb) => IsSigned /\ Result = NegatedIf(q, TRUE)
    BY <1>4 DEF NegatedIf, Negative, IsSigned
  <1>7. (sa /\ sb) \/ (~sa /\ ~sb) => Result = NegatedIf(q, FALSE) /\ NegatedIf(q, FALSE) = q
    BY <1>4 DEF NegatedIf, Negative, IsSigned
  <1> HIDE DEF sa, sb, q, r
  <1>8. q <= z /\ z \in Nat
    <2>1. 1 * q <= d * q /\ q * d = d * q /\ q * d \in Nat
      BY <1>1, Times
    <2> QED
      BY <1>1, <2>1
  <1>9. (0 - q) * d = 0 - z /\ (0 - q) * (0 - d) = z /\ q * (0 - d) = 0 - z
    BY <1>1
  <1> HIDE DEF z
  <1>10. \A s \in Int : (s = -1 => s * z = 0 - z) /\ (s = 1 => s * z = z)
    BY <1>8
  <1>11. /\ IsSigned /\ 2 * q <= M => Value(NegatedIf(q, TRUE)) = 0 - q
         /\ (IsSigned => 2 * q < M) => Value(NegatedIf(q, FALSE)) = q
    <2>1. q < DWordMod
      BY <1>1, <1>8
    <2> QED
      BY <1>1, <2>1, NegatedValue
  <1> HIDE DEF M, y
  <1>12. CASE (sa /\ ~sb) \/ (~sa /\ sb)
    <2>1. 2 * q <= M
      <3>1. 2 * n <= M \/ 2 * n < M
        BY <1>2, <1>6, <1>12, Zenon
      <3>2. q <= n
        BY <1>1, <1>8
      <3> QED
        BY <1>1, <3>1, <3>2
    <2>2. v = 0 - q
      BY <1>6, <1>11, <1>12, <2>1
    <2> HIDE DEF v
    <2>3. CASE sa /\ ~sb
      <3>1. v * y = 0 - z /\ sign = -1
        BY <1>3, <1>9, <2>2, <2>3
      <3> QED
        BY <1>10, <3>1
    <2>4. CASE ~sa /\ sb
      <3>1. v * y = z /\ sign = 1
        BY <1>3, <1>9, <2>2, <2>4
      <3> QED
        BY <1>10, <3>1
    <2> QED
      BY <1>12, <2>3, <2>4
  <1>13. CASE (sa /\ sb) \/ (~sa /\ ~sb)
    <2>1. CASE IsSigned => 2 * q < M
      <3>1. v = q
        BY <1>7, <1>11, <1>13, <2>1
      <3> HIDE DEF v
      <3>2. CASE sa
        <4>1. v * y = 0 - z /\ sign = -1
          BY <1>3, <1>9, <1>13, <3>1, <3>2
        <4> QED
          BY <1>10, <4>1
      <3>3. CASE ~sa
        <4>1. v * y = q * d /\ sign = 1
          BY <1>3, <1>13, <3>1, <3>3
        <4>2. v * y = z
          BY <4>1 DEF z
        <4> QED
          BY <1>10, <4>1, <4>2
      <3> QED
        BY <3>2, <3>3
    <2>2. CASE ~(IsSigned => 2 * q < M)
      <3>1. IsSigned /\ 2 * q >= M
        BY <1>1, <2>2
      <3>2. sa /\ a = M - n /\ 2 * n = M /\ n = q /\ z = q
        BY <1>1, <1>2, <1>8, <3>1
      <3>3. d = 1
        <4> SUFFICES ASSUME d > 1 PROVE FALSE
          BY <1>1
        <4>1. 2 * q <= d * q
          BY <1>1, Times
        <4>2. d * q = z
          BY <1>1 DEF z
        <4> QED
          BY <1>1, <3>1, <3>2, <4>1, <4>2
      <3>4. y = -1
        BY <1>3, <1>13, <3>2, <3>3
      <3>5. Result = q
        BY <1>7, <1>13
      <3>6. Result = a /\ 2 * a = M
        BY <1>1, <3>2, <3>5
      <3> QED
        BY <3>4, <3>6
    <2> QED
      BY <2>1, <2>2
  <1> QED
    BY <1>5, <1>12, <1>13

\* What the routines return is right.
LEMMA ReturnedIsRight == DivInv => DivisionCorrect
  <1> SUFFICES ASSUME DivInv, pc = "return" PROVE DivisionCorrect
    BY DEF DivisionCorrect
  <1> DEFINE sa == IsSigned /\ Negative(a)
             sb == IsSigned /\ Negative(b)
             sign == IF sa THEN -1 ELSE 1
             q == ret.quot
             r == ret.rem
             x == Value(a)
             y == Value(b)
             rem == IF WantsQuotient THEN x - (Value(Result) * y) ELSE Value(Result)
  <1>1. q \in Nat /\ r \in Nat /\ r < d /\ n = (q * d) + r /\ d \in Nat \ {0} /\ n \in Nat /\ n < DWordMod
    BY OperandNumbers DEF DivInv, Divided
  <1>2. sign \in {1, -1} /\ x = sign * n
    <2>1. (sa => x = 0 - n) /\ (~sa => x = n)
      BY ValueIs DEF DivInv, n
    <2> QED
      BY <1>1, <2>1
  <1>3. y \in {d, 0 - d} /\ (IsSigned => 2 * d <= DWordMod)
    BY <1>1, ValueIs, WordSizes DEF DivInv, d
  <1>4. \/ rem = sign * r
        \/ WantsQuotient /\ y = -1 /\ Result = a /\ 2 * a = DWordMod
    <2>1. CASE WantsQuotient
      <3>1. \/ Value(Result) * y = sign * (q * d)
            \/ y = -1 /\ Result = a /\ 2 * a = DWordMod
        BY <2>1, QuotientValue
      <3>2. (sign * n) - (sign * (q * d)) = sign * r
        <4>1. CASE sign = 1
          BY <1>1, <4>1
        <4>2. CASE sign = -1
          BY <1>1, <4>2
        <4> HIDE DEF sign
        <4> QED
          BY <1>2, <4>1, <4>2
      <3> HIDE DEF sign
      <3> QED
        BY <1>2, <2>1, <3>1, <3>2
    <2>2. CASE ~WantsQuotient
      <3>1. rem = Value(NegatedIf(r, sa))
        BY <2>2 DEF Result
      <3>2. r \in Nat /\ r < DWordMod /\ (IsSigned => 2 * r < DWordMod)
        <4>1. d \in Nat /\ d < DWordMod
          BY Operands, WordSizes DEF DivInv, DWord
        <4> QED
          BY <1>1, <1>3, <4>1, WordSizes
      <3>3. CASE sa
        <4>1. 2 * r <= DWordMod /\ IsSigned
          BY <3>2, <3>3, WordSizes
        <4>2. Value(NegatedIf(r, TRUE)) = 0 - r
          BY <3>2, <4>1, NegatedValue
        <4>3. NegatedIf(r, sa) = NegatedIf(r, TRUE)
          BY <3>3 DEF NegatedIf
        <4>4. 0 - r = sign * r
          BY <1>1, <3>3
        <4> QED
          BY <3>1, <4>2, <4>3, <4>4
      <3>4. CASE ~sa
        <4>1. Value(NegatedIf(r, FALSE)) = r
          BY <3>2, NegatedValue
        <4>2. NegatedIf(r, sa) = NegatedIf(r, FALSE)
          BY <3>4 DEF NegatedIf
        <4>3. r = sign * r
          BY <1>1, <3>4
        <4> QED
          BY <3>1, <4>1, <4>2, <4>3
      <3> QED
        BY <3>3, <3>4
    <2> QED
      BY <2>1, <2>2
  <1> HIDE DEF sign, x, y, rem, q, r
  <1>5. rem = sign * r => IsCutOff(x, y, rem)
    <2> SUFFICES ASSUME rem = sign * r PROVE IsCutOff(x, y, rem)
      OBVIOUS
    <2> DEFINE N == n
               D == d
    <2>1. SignedDivision(N, D, q, r, sign, x, y, rem)
      BY <1>1, <1>2, <1>3 DEF SignedDivision
    <2> HIDE DEF N, D
    <2> QED
      BY <2>1, CutOff
  <1> QED
    BY <1>4, <1>5 DEF DivisionCorrect, IsCutOff, rem, x, y

\* For words of every width and all operands but a divisor of zero, __udivdi3,
\* __umoddi3, __divdi3 and __moddi3 return what C says: the quotient cut off towards
\* zero, and the remainder with the sign of the dividend.
THEOREM DivisionIsCorrect == Spec => []DivisionCorrect
  BY DivInit, DivNext, ReturnedIsRight, PTL DEF Spec

=============================================================================
