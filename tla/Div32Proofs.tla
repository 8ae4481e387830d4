----------------------------- MODULE Div32Proofs ----------------------------
(***************************************************************************)
(* Theorems about Div32, for words of every width and all operands: the    *)
(* loop of UDIV32 divides, and the four helpers return what C prescribes.  *)
(***************************************************************************)
EXTENDS Div32, Arithmetic

-----------------------------------------------------------------------------
(* Words and pairs of words                                                *)

\* Sizes.
LEMMA Sizes ==
  /\ SignBit \in Nat \ {0} /\ WordMod \in Nat /\ WordMod = 2 * SignBit /\ WordMod >= 2
  /\ Word = 0..(WordMod - 1) /\ LongMod \in Nat /\ LongMod = WordMod * WordMod /\ LongMod > 0
  /\ Long = 0..(LongMod - 1)
  <1>1. SignBit \in Nat \ {0} /\ WordMod \in Nat /\ WordMod = 2 * SignBit /\ WordMod >= 2
    BY Tms9900Assumption DEF WordMod
  <1>2. WordMod * WordMod \in Nat
    BY <1>1, Product
  <1>3. WordMod * WordMod > 0
    <2>1. (0 * WordMod) + WordMod <= WordMod * WordMod
      BY <1>1, ProductOrder
    <2> QED
      BY <1>1, <1>2, <2>1
  <1> QED
    BY <1>1, <1>2, <1>3 DEF Word, LongMod, Long

\* A pair of words is a long.
LEMMA PairIs ==
  ASSUME NEW hi \in Word, NEW lo \in Word
  PROVE  /\ Pair(hi, lo) \in Long /\ Pair(hi, lo) \in Nat /\ hi * WordMod \in Nat
         /\ Pair(hi, lo) = (hi * WordMod) + lo
  <1>1. hi \in Nat /\ lo \in Nat /\ hi < WordMod /\ lo < WordMod
    BY Sizes
  <1>2. hi * WordMod \in Nat
    BY <1>1, Sizes, Product
  <1>3. (hi * WordMod) + WordMod <= LongMod
    BY <1>1, Sizes, ProductOrder
  <1> QED
    BY <1>1, <1>2, <1>3, Sizes DEF Pair

\* Pairs are compared by their high words first.
LEMMA PairOrder ==
  ASSUME NEW h \in Word, NEW l \in Word, NEW hi \in Word, NEW lo \in Word
  PROVE  Pair(h, l) < Pair(hi, lo) <=> h < hi \/ (h = hi /\ l < lo)
  <1>0. h \in Nat /\ l \in Nat /\ hi \in Nat /\ lo \in Nat /\ l < WordMod /\ lo < WordMod /\ WordMod \in Nat
    BY Sizes
  <1>1. /\ Pair(h, l) = (h * WordMod) + l /\ Pair(hi, lo) = (hi * WordMod) + lo
        /\ h * WordMod \in Nat /\ hi * WordMod \in Nat
    BY PairIs
  <1>2. CASE h < hi
    <2>1. (h * WordMod) + WordMod <= hi * WordMod
      BY <1>0, <1>2, ProductOrder
    <2> QED
      BY <1>0, <1>1, <1>2, <2>1
  <1>3. CASE hi < h
    <2>1. (hi * WordMod) + WordMod <= h * WordMod
      BY <1>0, <1>3, ProductOrder
    <2> QED
      BY <1>0, <1>1, <1>3, <2>1
  <1>4. CASE h = hi
    BY <1>0, <1>1, <1>4
  <1> QED
    BY <1>0, <1>2, <1>3, <1>4

\* The two words of a long.
LEMMA HiLo ==
  ASSUME NEW x \in Long
  PROVE  Hi(x) \in Word /\ Lo(x) \in Word /\ Pair(Hi(x), Lo(x)) = x
  <1>1. x \in Nat /\ x < WordMod * WordMod /\ WordMod \in Nat \ {0}
    BY Sizes
  <1> DEFINE q == x \div WordMod
             r == x % WordMod
  <1>2. q \in Nat /\ r \in 0..(WordMod - 1) /\ x = (q * WordMod) + r
    BY <1>1, DivMod
  <1>3. q * WordMod \in Nat
    BY <1>1, <1>2, Product
  <1> HIDE DEF q, r
  <1>4. q < WordMod
    <2> SUFFICES ASSUME WordMod <= q PROVE FALSE
      BY <1>1, <1>2
    <2>1. WordMod * WordMod <= q * WordMod
      <3>1. CASE WordMod = q
        BY <1>1, <3>1
      <3>2. CASE WordMod < q
        <4>1. (WordMod * WordMod) + WordMod <= q * WordMod
          BY <1>1, <1>2, <3>2, ProductOrder
        <4>2. WordMod * WordMod \in Nat
          BY <1>1, Product
        <4> QED
          BY <1>1, <1>3, <4>1, <4>2
      <3> QED
        BY <1>1, <1>2, <3>1, <3>2
    <2>2. WordMod * WordMod \in Nat
      BY <1>1, Product
    <2> QED
      BY <1>1, <1>2, <1>3, <2>1, <2>2
  <1> QED
    BY <1>1, <1>2, <1>4, Sizes DEF Hi, Lo, Pair, q, r

\* NEG32: the two's complement of a pair.
LEMMA NegatedPair ==
  ASSUME NEW hi \in Word, NEW lo \in Word
  PROVE  /\ NegHi(hi, lo) \in Word /\ NegLo(lo) \in Word
         /\ Pair(NegHi(hi, lo), NegLo(lo)) = (-Pair(hi, lo)) % LongMod
         /\ Pair(NegHi(hi, lo), NegLo(lo)) = IF Pair(hi, lo) = 0 THEN 0 ELSE LongMod - Pair(hi, lo)
  <1> DEFINE W == WordMod
             x == Pair(hi, lo)
             y == Pair(NegHi(hi, lo), NegLo(lo))
  <1>0. W \in Nat /\ W >= 2 /\ hi \in 0..(W - 1) /\ lo \in 0..(W - 1) /\ LongMod = W * W /\ LongMod \in Nat /\ LongMod > 0
    BY Sizes
  <1>1. x \in Nat /\ x < LongMod /\ x = (hi * W) + lo /\ hi * W \in Nat
    <2>1. Pair(hi, lo) \in Long /\ Pair(hi, lo) = (hi * WordMod) + lo /\ hi * WordMod \in Nat
      BY PairIs
    <2> QED
      BY <2>1, Sizes
  <1>2. \A v \in 0..(W - 1) : v % W = v
    BY <1>0
  <1>3. W % W = 0
    BY <1>0
  <1>4. INV(lo) = W - 1 - lo /\ INV(hi) = W - 1 - hi
    BY DEF INV
  <1>5. NegLo(lo) = IF lo = 0 THEN 0 ELSE W - lo
    <2>1. NegLo(lo) = (W - lo) % W
      BY <1>0, <1>4 DEF NegLo, Add
    <2> QED
      BY <1>0, <1>2, <1>3, <2>1
  <1>6. NegHi(hi, lo) = IF lo = 0 THEN (IF hi = 0 THEN 0 ELSE W - hi) ELSE W - 1 - hi
    <2>1. NegHi(hi, lo) = IF lo = 0 THEN (W - hi) % W ELSE W - 1 - hi
      BY <1>0, <1>4 DEF NegHi, Add
    <2> QED
      BY <1>0, <1>2, <1>3, <2>1
  <1>7. NegHi(hi, lo) \in Word /\ NegLo(lo) \in Word
    BY <1>0, <1>5, <1>6, Sizes
  <1>8. y = (NegHi(hi, lo) * W) + NegLo(lo)
    BY DEF Pair
  <1>9. y = IF x = 0 THEN 0 ELSE LongMod - x
    <2>1. CASE lo = 0 /\ hi = 0
      BY <1>0, <1>1, <1>5, <1>6, <1>8, <2>1
    <2>2. CASE lo = 0 /\ hi # 0
      <3>1. (W - hi) * W = (W * W) - (hi * W)
        BY <1>0
      <3>2. (0 * W) + W <= hi * W
        BY <1>0, <2>2, ProductOrder
      <3> QED
        BY <1>0, <1>1, <1>5, <1>6, <1>8, <2>2, <3>1, <3>2
    <2>3. CASE lo # 0
      <3>1. (W - 1 - hi) * W = (W * W) - W - (hi * W)
        BY <1>0
      <3> QED
        BY <1>0, <1>1, <1>5, <1>6, <1>8, <2>3, <3>1
    <2> QED
      BY <2>1, <2>2, <2>3
  <1> HIDE DEF x, y, W
  <1>10. (-x) % LongMod = IF x = 0 THEN 0 ELSE LongMod - x
    BY <1>0, <1>1
  <1> QED
    BY <1>7, <1>9, <1>10 DEF x, y, W

\* A word shifted left, and the bit that falls out.
LEMMA ShiftedWord ==
  ASSUME NEW x \in Word
  PROVE  /\ Msb(x) \in {0, 1} /\ SLA1(x) \in Nat /\ SLA1(x) + 2 <= WordMod
         /\ 2 * x = (Msb(x) * WordMod) + SLA1(x)
  <1>1. x \in Nat /\ x < WordMod /\ WordMod = 2 * SignBit /\ SignBit \in Nat \ {0} /\ WordMod \in Nat
    BY Sizes
  <1>2. CASE x >= SignBit
    <2>1. (2 * x) % WordMod = (2 * x) - WordMod
      BY <1>1, <1>2
    <2> QED
      BY <1>1, <1>2, <2>1 DEF Msb, SLA1
  <1>3. CASE x < SignBit
    <2>1. (2 * x) % WordMod = 2 * x
      BY <1>1, <1>3
    <2> QED
      BY <1>1, <1>3, <2>1 DEF Msb, SLA1
  <1> QED
    BY <1>1, <1>2, <1>3

\* A pair shifted left, with a bit moved in: what falls out is the top bit of
\* the high word.
LEMMA ShiftedPair ==
  ASSUME NEW hi \in Word, NEW lo \in Word, NEW bit \in {0, 1}
  PROVE  /\ SLA1(hi) + Msb(lo) \in Word /\ SLA1(lo) + bit \in Word
         /\ (2 * Pair(hi, lo)) + bit = (Msb(hi) * LongMod) + Pair(SLA1(hi) + Msb(lo), SLA1(lo) + bit)
  <1> DEFINE W == WordMod
  <1>1. /\ Msb(hi) \in {0, 1} /\ SLA1(hi) \in Nat /\ SLA1(hi) + 2 <= W /\ 2 * hi = (Msb(hi) * W) + SLA1(hi)
        /\ Msb(lo) \in {0, 1} /\ SLA1(lo) \in Nat /\ SLA1(lo) + 2 <= W /\ 2 * lo = (Msb(lo) * W) + SLA1(lo)
    BY ShiftedWord
  <1>2. SLA1(hi) + Msb(lo) \in Word /\ SLA1(lo) + bit \in Word
    <2>1. SLA1(hi) + Msb(lo) \in 0..(W - 1)
      BY <1>1, Sizes
    <2>2. SLA1(lo) + bit \in 0..(W - 1)
      <3>1. W \in Nat /\ SLA1(lo) \in Nat /\ SLA1(lo) + 2 <= W
        BY <1>1, Sizes
      <3> HIDE DEF W
      <3> QED
        BY <3>1
    <2> QED
      BY <2>1, <2>2 DEF Word
  <1>3. hi \in Nat /\ lo \in Nat /\ W \in Nat /\ LongMod = W * W
    BY Sizes
  <1>4. Pair(hi, lo) = (hi * W) + lo
    BY DEF Pair
  <1>5. Pair(SLA1(hi) + Msb(lo), SLA1(lo) + bit) = ((SLA1(hi) + Msb(lo)) * W) + SLA1(lo) + bit
    BY <1>1, <1>3, Product DEF Pair
  <1>6. 2 * (hi * W) = (2 * hi) * W
    BY <1>3
  <1>7. (2 * hi) * W = (Msb(hi) * (W * W)) + (SLA1(hi) * W)
    <2>1. CASE Msb(hi) = 0
      BY <1>1, <1>3, <2>1
    <2>2. CASE Msb(hi) = 1
      <3>1. 2 * hi = W + SLA1(hi)
        BY <1>1, <1>3, <2>2
      <3>2. (W + SLA1(hi)) * W = (W * W) + (SLA1(hi) * W)
        BY <1>1, <1>3
      <3>3. W * W \in Nat
        BY <1>3, Product
      <3> QED
        BY <2>2, <3>1, <3>2, <3>3
    <2> QED
      BY <1>1, <2>1, <2>2
  <1>8. (SLA1(hi) + Msb(lo)) * W = (SLA1(hi) * W) + (Msb(lo) * W)
    BY <1>1, <1>3
  <1>9. hi * W \in Nat /\ SLA1(hi) * W \in Nat /\ W * W \in Nat
    BY <1>1, <1>3, Product
  <1> HIDE DEF W
  <1> QED
    BY <1>1, <1>2, <1>3, <1>4, <1>5, <1>6, <1>7, <1>8, <1>9

\* Subtracting a pair word by word, with the borrow the code moves itself.
LEMMA SubtractedPair ==
  ASSUME NEW hi \in Word, NEW lo \in Word, NEW h \in Word, NEW l \in Word,
         Pair(h, l) <= Pair(hi, lo)
  PROVE  LET borrowed == IF NoBorrow(l, lo) THEN hi ELSE Sub(1, hi)
         IN /\ Sub(h, borrowed) \in Word /\ Sub(l, lo) \in Word
            /\ Pair(Sub(h, borrowed), Sub(l, lo)) = Pair(hi, lo) - Pair(h, l)
  <1> DEFINE W == WordMod
             borrowed == IF NoBorrow(l, lo) THEN hi ELSE Sub(1, hi)
  <1>1. W \in Nat /\ W >= 2 /\ hi \in 0..(W - 1) /\ lo \in 0..(W - 1) /\ h \in 0..(W - 1) /\ l \in 0..(W - 1)
    BY Sizes
  <1>2. h <= hi /\ (lo < l => h < hi)
    <2>1. ~(Pair(hi, lo) < Pair(h, l))
      BY PairIs
    <2>2. ~(hi < h \/ (hi = h /\ lo < l))
      BY <2>1, PairOrder
    <2> QED
      BY <1>1, <2>2
  <1>3. \A v \in 0..(W - 1) : v % W = v
    BY <1>1
  <1>4. Pair(hi, lo) = (hi * W) + lo /\ Pair(h, l) = (h * W) + l
    BY DEF Pair
  <1>5. hi * W \in Nat /\ h * W \in Nat /\ W * W \in Nat
    BY <1>1, Product
  <1>6. CASE l <= lo
    <2>1. Sub(l, lo) = lo - l /\ borrowed = hi
      BY <1>1, <1>3, <1>6 DEF Sub, NoBorrow
    <2>2. Sub(h, borrowed) = hi - h
      BY <1>1, <1>2, <1>3, <2>1 DEF Sub
    <2>3. (hi - h) * W = (hi * W) - (h * W)
      BY <1>1
    <2>4. Pair(hi - h, lo - l) = ((hi - h) * W) + (lo - l)
      BY DEF Pair
    <2>5. hi - h \in Word /\ lo - l \in Word
      BY <1>1, <1>2, <1>6, Sizes
    <2> HIDE DEF borrowed, W
    <2>6. Pair(hi - h, lo - l) = Pair(hi, lo) - Pair(h, l)
      BY <1>1, <1>4, <1>5, <2>3, <2>4
    <2> QED
      BY <2>1, <2>2, <2>5, <2>6 DEF borrowed
  <1>7. CASE lo < l
    <2>1. Sub(l, lo) = lo - l + W
      <3>1. (lo - l) % W = lo - l + W
        BY <1>1, <1>7
      <3> QED
        BY <3>1 DEF Sub
    <2>2. Sub(1, hi) = hi - 1 /\ ~NoBorrow(l, lo)
      BY <1>1, <1>2, <1>3, <1>7 DEF Sub, NoBorrow
    <2>3. Sub(h, borrowed) = hi - 1 - h
      BY <1>1, <1>2, <1>3, <1>7, <2>2 DEF Sub
    <2>4. (hi - 1 - h) * W = (hi * W) - W - (h * W)
      BY <1>1
    <2>5. Pair(hi - 1 - h, lo - l + W) = ((hi - 1 - h) * W) + (lo - l + W)
      BY DEF Pair
    <2>6. hi - 1 - h \in Word /\ lo - l + W \in Word
      BY <1>1, <1>2, <1>7, Sizes
    <2> HIDE DEF borrowed, W
    <2>7. Pair(hi - 1 - h, lo - l + W) = Pair(hi, lo) - Pair(h, l)
      BY <1>1, <1>4, <1>5, <2>4, <2>5
    <2> QED
      BY <2>1, <2>3, <2>6, <2>7 DEF borrowed, W
  <1> QED
    BY <1>1, <1>6, <1>7

-----------------------------------------------------------------------------
(* Powers of two                                                           *)

\* Powers are positive, and a long has 2 * WordBits bits.
LEMMA Pow2Facts ==
  /\ WordBits \in Nat \ {0} /\ Pow2[2 * WordBits] = LongMod
  /\ \A k \in 0..(2 * WordBits) : Pow2[k] \in Nat \ {0}
  <1>1. WordBits \in Nat /\ Pow2[WordBits] = WordMod
    BY Div32Assumption
  <1>2. WordBits # 0
    BY <1>1, Pow2Is, Sizes
  <1>3. Pow2[WordBits + WordBits] = Pow2[WordBits] * Pow2[WordBits]
    BY <1>1, Pow2Sum
  <1>4. Pow2[2 * WordBits] = LongMod
    <2>1. WordBits + WordBits = 2 * WordBits
      BY <1>1
    <2> QED
      BY <1>1, <1>3, <2>1, Sizes
  <1>5. ASSUME NEW k \in 0..(2 * WordBits) PROVE Pow2[k] \in Nat \ {0}
    BY <1>1, Pow2Positive
  <1> QED
    BY <1>1, <1>2, <1>4, <1>5

-----------------------------------------------------------------------------
(* One round of the loop, as arithmetic                                    *)

\* The bits of the dividend N that have been divided are T, with quotient q and
\* remainder r so far; rest is what is left of N.  The quotient register holds
\* rest in its upper bits and q below.  Shifting it left moves out the next bit
\* of N, and neither it nor the remainder loses any other.
LEMMA NextBit ==
  ASSUME NEW N \in Nat, NEW T \in Nat, NEW rest \in Nat, NEW q \in Nat, NEW r \in Nat,
         NEW D \in Nat \ {0}, NEW p \in Nat \ {0}, NEW m \in Nat \ {0}, NEW bit \in {0, 1}, NEW Q \in Nat,
         N < 2 * (p * m), N = (T * (2 * p)) + rest, rest < 2 * p, T = (q * D) + r, r < D,
         Q < 2 * (p * m), 2 * ((rest * m) + q) = (bit * (2 * (p * m))) + Q
  PROVE  /\ (2 * r) + bit < 2 * (p * m)
         /\ \E left \in Nat :
              /\ N = (((2 * T) + bit) * p) + left /\ left < p
              /\ Q = (left * (2 * m)) + (2 * q)
  <1> DEFINE L == p * m
             b == IF rest < p THEN 0 ELSE 1
             left == rest - (b * p)
  <1>1. L \in Nat /\ rest * m \in Nat /\ q * D \in Nat /\ T * p \in Nat /\ b \in {0, 1}
    BY Product
  <1>2. left \in Nat /\ left < p /\ rest = (b * p) + left
    BY <1>1
  <1>3. T < m
    <2> SUFFICES ASSUME m <= T PROVE FALSE
      OBVIOUS
    <2>1. m * p <= T * p
      <3>1. CASE m = T
        BY <3>1, Product
      <3>2. CASE m < T
        <4>1. (m * p) + p <= T * p
          BY <3>2, ProductOrder
        <4>2. m * p \in Nat
          BY Product
        <4> QED
          BY <1>1, <4>1, <4>2
      <3> QED
        BY <3>1, <3>2
    <2>2. m * p = L /\ T * (2 * p) = 2 * (T * p)
      OBVIOUS
    <2> HIDE DEF L
    <2>3. N < 2 * L
      BY DEF L
    <2> QED
      BY <1>1, <2>1, <2>2, <2>3
  <1>4. q <= T /\ r <= T
    <2>1. r <= T
      BY <1>1
    <2>2. q <= q * D
      <3>1. CASE D = 1
        BY <3>1
      <3>2. CASE D > 1
        <4>1. (1 * q) + q <= D * q
          BY <3>2, ProductOrder
        <4>2. D * q = q * D
          OBVIOUS
        <4> QED
          BY <1>1, <4>1, <4>2
      <3> QED
        BY <3>1, <3>2
    <2> QED
      BY <1>1, <2>1, <2>2
  <1>5. left * m \in Nat /\ (left * m) + m <= L
    <2>1. left * m \in Nat
      BY <1>2, Product
    <2>2. (left * m) + m <= p * m
      BY <1>2, ProductOrder
    <2> QED
      BY <2>1, <2>2
  <1>6. rest * m = (b * L) + (left * m)
    <2> HIDE DEF b, left
    <2>1. CASE b = 0
      BY <1>1, <1>2, <1>5, <2>1
    <2>2. CASE b = 1
      <3>1. rest = p + left
        BY <1>2, <2>2
      <3>2. (p + left) * m = (p * m) + (left * m)
        BY <1>2
      <3> QED
        BY <1>1, <1>5, <2>2, <3>1, <3>2
    <2> QED
      BY <1>1, <2>1, <2>2
  <1> HIDE DEF b, left, L
  <1>7. /\ Q < 2 * L /\ 2 * ((rest * m) + q) = (bit * (2 * L)) + Q /\ N < 2 * L
    BY DEF L
  <1>8. b = bit /\ Q = (2 * (left * m)) + (2 * q)
    <2>1. (2 * (left * m)) + (2 * q) < 2 * L
      BY <1>1, <1>3, <1>4, <1>5
    <2>2. (b * (2 * L)) + (2 * (left * m)) + (2 * q) = (bit * (2 * L)) + Q
      <3>1. 2 * ((rest * m) + q) = (b * (2 * L)) + (2 * (left * m)) + (2 * q)
        <4>1. CASE b = 0
          BY <1>1, <1>5, <1>6, <4>1
        <4>2. CASE b = 1
          <5>1. rest * m = L + (left * m) /\ b * (2 * L) = 2 * L
            BY <1>1, <1>5, <1>6, <4>2
          <5> DEFINE u == rest * m
                     v == left * m
          <5>2. u \in Nat /\ v \in Nat /\ u = L + v
            BY <1>1, <1>5, <5>1
          <5> HIDE DEF u, v
          <5>3. 2 * (u + q) = (2 * L) + (2 * v) + (2 * q)
            BY <1>1, <5>2
          <5> QED
            BY <5>1, <5>3 DEF u, v
        <4> QED
          BY <1>1, <4>1, <4>2
      <3> QED
        BY <1>7, <3>1
    <2>3. CASE b = 0 /\ bit = 0
      BY <1>1, <1>5, <1>7, <2>1, <2>2, <2>3
    <2>4. CASE b = 1 /\ bit = 1
      BY <1>1, <1>5, <1>7, <2>1, <2>2, <2>4
    <2>5. CASE b = 0 /\ bit = 1
      BY <1>1, <1>5, <1>7, <2>1, <2>2, <2>5
    <2>6. CASE b = 1 /\ bit = 0
      BY <1>1, <1>5, <1>7, <2>1, <2>2, <2>6
    <2> QED
      BY <1>1, <2>3, <2>4, <2>5, <2>6
  <1>9. N = (((2 * T) + bit) * p) + left
    <2>1. ((2 * T) + bit) * p = (2 * (T * p)) + (bit * p)
      OBVIOUS
    <2>2. T * (2 * p) = 2 * (T * p)
      OBVIOUS
    <2> QED
      BY <1>1, <1>2, <1>8, <2>1, <2>2
  <1>10. Q = (left * (2 * m)) + (2 * q)
    <2>1. left * (2 * m) = 2 * (left * m)
      BY <1>2
    <2> QED
      BY <1>8, <2>1
  <1>11. m <= L
    <2>1. CASE p = 1
      BY <2>1 DEF L
    <2>2. CASE p > 1
      <3>1. (1 * m) + m <= p * m
        BY <2>2, ProductOrder
      <3> QED
        BY <1>1, <3>1 DEF L
    <2> QED
      BY <2>1, <2>2
  <1>12. (2 * r) + bit < 2 * L
    BY <1>1, <1>3, <1>4, <1>11
  <1> QED
    BY <1>2, <1>9, <1>10, <1>12 DEF L

-----------------------------------------------------------------------------
(* The inductive invariant                                                 *)

\* The helper is to negate its result.
Flips ==
  IF fn = "__divsi3" THEN (SignedLong(n) < 0) # (SignedLong(d) < 0) ELSE SignedLong(n) < 0

SignKept == IsSigned(fn) => (R[9] # 0 <=> Flips)

\* With k rounds to go: see NextBit.
Divided(k) ==
  \E T, rest, q \in Nat :
    /\ Dividend = (T * Pow2[k]) + rest /\ rest < Pow2[k]
    /\ T = (q * Divisor) + Remainder /\ Remainder < Divisor
    /\ QuotientReg = (rest * Pow2[2 * WordBits - k]) + q

Types ==
  /\ fn \in Function /\ n \in Long /\ d \in Long
  /\ R \in [0..9 -> Nat] /\ \A i \in 0..7 : R[i] \in Word
  /\ pc \in {"entry", "udiv32", "loop", "return", "done"}

DivInv ==
  /\ Types
  /\ pc = "entry" => Pair(R[0], R[1]) = n /\ Pair(R[2], R[3]) = d
  /\ pc \in {"udiv32", "loop", "return"} => SignKept
  /\ pc = "udiv32" => Pair(R[0], R[1]) = Dividend /\ Pair(R[2], R[3]) = Divisor
  /\ pc = "loop" =>
       /\ Pair(R[2], R[3]) = Divisor /\ R[8] \in 1..(2 * WordBits)
       /\ Divisor # 0 => Divided(R[8])
  /\ pc = "return" /\ Divisor # 0 =>
       Remainder = Dividend % Divisor /\ QuotientReg = Dividend \div Divisor
  /\ DivisionCorrect

\* The code is read as div32.S:224 reads the compare instruction.
CompareAsInDiv32 == DestFirst = TRUE

\* Magnitudes.
LEMMA AbsIs ==
  ASSUME NEW x \in Long
  PROVE  /\ SignedLong(x) \in Int /\ (SignedLong(x) < 0 <=> x >= SignBit * WordMod)
         /\ Abs(x) \in Long /\ (Abs(x) = 0 <=> x = 0)
         /\ Abs(x) = IF x >= SignBit * WordMod THEN LongMod - x ELSE x
  <1>1. SignBit \in Nat \ {0} /\ WordMod = 2 * SignBit /\ LongMod = WordMod * WordMod /\ LongMod \in Nat
        /\ x \in Nat /\ x < LongMod /\ WordMod \in Nat /\ Long = 0..(LongMod - 1)
    BY Sizes
  <1> DEFINE H == SignBit * WordMod
  <1>2. H \in Nat
    BY <1>1, Product
  <1>3. LongMod = 2 * H
    BY <1>1
  <1> HIDE DEF H
  <1>4. LongMod \div 2 = H
    BY <1>2, <1>3
  <1>5. SignedLong(x) = IF x >= H THEN x - LongMod ELSE x
    BY <1>4 DEF SignedLong
  <1>6. SignedLong(x) \in Int /\ (SignedLong(x) < 0 <=> x >= H)
    BY <1>1, <1>2, <1>5
  <1>7. Abs(x) = IF x >= H THEN LongMod - x ELSE x
    BY <1>1, <1>2, <1>5, <1>6 DEF Abs
  <1>8. H > 0
    BY <1>1, <1>2, <1>3
  <1> QED
    BY <1>1, <1>2, <1>6, <1>7, <1>8 DEF H

\* The magnitude of a negative number.
LEMMA AbsNegative ==
  ASSUME NEW x \in Long, x >= SignBit * WordMod
  PROVE  x # 0 /\ Abs(x) = LongMod - x
  <1>1. (0 * WordMod) + WordMod <= SignBit * WordMod
    BY Sizes, ProductOrder
  <1>2. SignBit * WordMod \in Nat /\ WordMod \in Nat /\ WordMod >= 2 /\ x \in Nat
    BY Sizes, Product
  <1>3. x # 0
    <2> DEFINE H == SignBit * WordMod
    <2> HIDE DEF H
    <2>1. 0 + WordMod <= H
      BY <1>1, <1>2 DEF H
    <2>2. x >= H /\ H \in Nat
      BY <1>2 DEF H
    <2> QED
      BY <1>2, <2>1, <2>2
  <1>4. Abs(x) = LongMod - x
    BY AbsIs
  <1> QED
    BY <1>3, <1>4

\* The operands UDIV32 works on.
LEMMA OperandsAre ==
  ASSUME Types
  PROVE  Dividend \in Long /\ Divisor \in Long /\ (Divisor = 0 <=> d = 0)
  BY AbsIs DEF Types, Dividend, Divisor

\* The sign of a long is that of its high word.
LEMMA NegativeHigh ==
  ASSUME NEW hi \in Word, NEW lo \in Word
  PROVE  Negative(hi) <=> Pair(hi, lo) >= SignBit * WordMod
  <1>1. /\ hi \in Nat /\ lo \in Nat /\ lo < WordMod /\ WordMod \in Nat /\ SignBit \in Nat
        /\ Pair(hi, lo) = (hi * WordMod) + lo /\ hi * WordMod \in Nat /\ SignBit * WordMod \in Nat
    BY Sizes, PairIs, Product
  <1>2. CASE hi < SignBit
    <2>1. (hi * WordMod) + WordMod <= SignBit * WordMod
      BY <1>1, <1>2, ProductOrder
    <2> QED
      BY <1>1, <1>2, <2>1 DEF Negative, Msb
  <1>3. CASE hi = SignBit
    BY <1>1, <1>3 DEF Negative, Msb
  <1>4. CASE SignBit < hi
    <2>1. (SignBit * WordMod) + WordMod <= hi * WordMod
      BY <1>1, <1>4, ProductOrder
    <2> QED
      BY <1>1, <1>4, <2>1 DEF Negative, Msb
  <1> QED
    BY <1>1, <1>2, <1>3, <1>4

-----------------------------------------------------------------------------
(* The steps                                                               *)

\* The operands are the caller's, in two words each.
LEMMA InitDivInv == Init => DivInv
  <1> SUFFICES ASSUME Init PROVE DivInv
    OBVIOUS
  <1> DEFINE G(i) == CASE i = 0 -> Hi(n) [] i = 1 -> Lo(n)
                       [] i = 2 -> Hi(d) [] i = 3 -> Lo(d) [] OTHER -> 0
  <1>1. fn \in Function /\ n \in Long /\ d \in Long /\ R = [i \in 0..9 |-> G(i)] /\ pc = "entry"
    BY DEF Init
  <1>2. G(0) = Hi(n) /\ G(1) = Lo(n) /\ G(2) = Hi(d) /\ G(3) = Lo(d) /\ \A i \in 4..9 : G(i) = 0
    OBVIOUS
  <1> HIDE DEF G
  <1>3. R[0] = Hi(n) /\ R[1] = Lo(n) /\ R[2] = Hi(d) /\ R[3] = Lo(d) /\ \A i \in 4..9 : R[i] = 0
    BY <1>1, <1>2
  <1>4. /\ Hi(n) \in Word /\ Lo(n) \in Word /\ Pair(Hi(n), Lo(n)) = n
        /\ Hi(d) \in Word /\ Lo(d) \in Word /\ Pair(Hi(d), Lo(d)) = d
    BY <1>1, HiLo
  <1>5. 0 \in Word /\ \A x \in Word : x \in Nat
    BY Sizes
  <1>6. \A i \in 0..9 : R[i] \in Word
    BY <1>3, <1>4, <1>5
  <1>7. R \in [0..9 -> Nat]
    BY <1>1, <1>5, <1>6
  <1>8. Types
    BY <1>1, <1>6, <1>7 DEF Types
  <1> QED
    BY <1>1, <1>3, <1>4, <1>8 DEF DivInv, DivisionCorrect

\* The signed helpers take the magnitudes and note the sign.
LEMMA EntryStep == ASSUME DivInv, Entry PROVE DivInv'
  <1>0. /\ pc = "entry" /\ pc' = "udiv32" /\ fn' = fn /\ n' = n /\ d' = d
        /\ Pair(R[0], R[1]) = n /\ Pair(R[2], R[3]) = d /\ Types
    BY DEF Entry, DivInv
  <1>1. /\ R \in [0..9 -> Nat] /\ \A i \in 0..7 : R[i] \in Word
        /\ fn \in Function /\ n \in Long /\ d \in Long
    BY <1>0 DEF Types
  <1>2. \A x \in Word : x \in Nat
    BY Sizes
  <1>3. Dividend' = Dividend /\ Divisor' = Divisor /\ Flips' = Flips
    BY <1>0 DEF Dividend, Divisor, Flips, Abs, SignedLong
  <1>4. CASE ~IsSigned(fn)
    <2>1. R' = R
      BY <1>4 DEF Entry
    <2> QED
      BY <1>0, <1>1, <1>3, <1>4, <2>1 DEF DivInv, Types, SignKept, Dividend, Divisor, DivisionCorrect
  <1>5. CASE IsSigned(fn)
    <2> DEFINE negN == Negative(R[0])
               negD == Negative(R[2])
               flip == IF fn = "__divsi3" THEN negN # negD ELSE negN
               h0 == IF negN THEN NegHi(R[0], R[1]) ELSE R[0]
               l0 == IF negN THEN NegLo(R[1]) ELSE R[1]
               h2 == IF negD THEN NegHi(R[2], R[3]) ELSE R[2]
               l2 == IF negD THEN NegLo(R[3]) ELSE R[3]
               s9 == IF flip THEN WordMod - 1 ELSE 0
    <2>1. R' = [R EXCEPT ![0] = h0, ![1] = l0, ![2] = h2, ![3] = l2, ![9] = s9]
      BY <1>5 DEF Entry
    <2>2. /\ negN <=> n >= SignBit * WordMod
          /\ negD <=> d >= SignBit * WordMod
      BY <1>0, <1>1, NegativeHigh
    <2>3. /\ negN <=> SignedLong(n) < 0
          /\ negD <=> SignedLong(d) < 0
      BY <1>1, <2>2, AbsIs
    <2>4. flip <=> Flips
      <3>1. CASE fn = "__divsi3"
        <4>1. Flips <=> ((SignedLong(n) < 0) # (SignedLong(d) < 0))
          BY <3>1 DEF Flips
        <4>2. flip <=> (negN # negD)
          BY <3>1
        <4>3. CASE SignedLong(n) < 0 /\ SignedLong(d) < 0
          BY <2>3, <4>1, <4>2, <4>3 DEF Negative
        <4>4. CASE SignedLong(n) < 0 /\ ~(SignedLong(d) < 0)
          BY <2>3, <4>1, <4>2, <4>4 DEF Negative
        <4>5. CASE ~(SignedLong(n) < 0) /\ SignedLong(d) < 0
          BY <2>3, <4>1, <4>2, <4>5 DEF Negative
        <4>6. CASE ~(SignedLong(n) < 0) /\ ~(SignedLong(d) < 0)
          BY <2>3, <4>1, <4>2, <4>6 DEF Negative
        <4> QED
          BY <4>3, <4>4, <4>5, <4>6
      <3>2. CASE fn # "__divsi3"
        BY <2>3, <3>2 DEF Flips
      <3> QED
        BY <3>1, <3>2
    <2>5. h0 \in Word /\ l0 \in Word /\ Pair(h0, l0) = Abs(n)
      <3>1. CASE negN
        <4>1. n # 0 /\ Abs(n) = LongMod - n
          BY <1>1, <2>2, <3>1, AbsNegative
        <4> QED
          BY <1>0, <1>1, <3>1, <4>1, NegatedPair
      <3>2. CASE ~negN
        BY <1>0, <1>1, <2>2, <3>2, AbsIs
      <3> QED
        BY <3>1, <3>2
    <2>6. h2 \in Word /\ l2 \in Word /\ Pair(h2, l2) = Abs(d)
      <3>1. CASE negD
        <4>1. d # 0 /\ Abs(d) = LongMod - d
          BY <1>1, <2>2, <3>1, AbsNegative
        <4> QED
          BY <1>0, <1>1, <3>1, <4>1, NegatedPair
      <3>2. CASE ~negD
        BY <1>0, <1>1, <2>2, <3>2, AbsIs
      <3> QED
        BY <3>1, <3>2
    <2>7. s9 \in Nat /\ (s9 # 0 <=> flip)
      BY Sizes
    <2> HIDE DEF h0, l0, h2, l2, s9, flip, negN, negD
    <2>8. /\ R'[0] = h0 /\ R'[1] = l0 /\ R'[2] = h2 /\ R'[3] = l2 /\ R'[9] = s9
          /\ \A i \in 4..8 : R'[i] = R[i]
          /\ DOMAIN R' = 0..9
      BY <1>1, <2>1
    <2>9. R' \in [0..9 -> Nat] /\ \A i \in 0..7 : R'[i] \in Word
      <3>1. \A i \in 0..7 : R'[i] \in Word
        BY <1>1, <2>5, <2>6, <2>8
      <3>2. \A i \in 0..9 : R'[i] \in Nat
        BY <1>1, <1>2, <2>7, <2>8, <3>1
      <3>3. R' = [i \in 0..9 |-> R'[i]]
        BY <1>1, <2>1
      <3> QED
        BY <3>1, <3>2, <3>3
    <2>10. Pair(R[0], R[1])' = Dividend' /\ Pair(R[2], R[3])' = Divisor'
      BY <1>3, <1>5, <2>5, <2>6, <2>8 DEF Pair, Dividend, Divisor
    <2>11. SignKept'
      BY <1>0, <1>3, <2>4, <2>7, <2>8 DEF SignKept
    <2> QED
      BY <1>0, <1>1, <2>9, <2>10, <2>11 DEF DivInv, Types, DivisionCorrect
  <1> QED
    BY <1>4, <1>5

\* The hardware divides when the quotient fits a word.
LEMMA HardwareDivStep == ASSUME CompareAsInDiv32, DivInv, HardwareDiv PROVE DivInv'
  <1>0. /\ pc = "udiv32" /\ pc' = "return" /\ fn' = fn /\ n' = n /\ d' = d
        /\ Pair(R[0], R[1]) = Dividend /\ Pair(R[2], R[3]) = Divisor /\ Types /\ SignKept
        /\ R[2] = 0 /\ R[3] # 0
    BY DEF HardwareDiv, DivInv, FastPath
  <1>1. /\ R \in [0..9 -> Nat] /\ \A i \in 0..7 : R[i] \in Word
        /\ fn \in Function /\ n \in Long /\ d \in Long
    BY <1>0 DEF Types
  <1>2. WordMod \in Nat /\ \A x \in Word : x \in Nat /\ x < WordMod
    BY Sizes
  <1>3. R[0] < R[3]
    BY <1>1, <1>2 DEF HardwareDiv, FastPath, JLE, LogicallyGreater, CompareAsInDiv32
  <1> DEFINE q == Dividend \div R[3]
             r == Dividend % R[3]
  <1>4. R' = [R EXCEPT ![0] = q, ![1] = r, ![4] = 0, ![5] = q, ![6] = 0, ![7] = r]
    BY <1>0, <1>3 DEF HardwareDiv
  <1>5. Dividend \in Nat /\ Dividend = (R[0] * WordMod) + R[1] /\ R[3] \in Nat \ {0} /\ Divisor = R[3]
    BY <1>0, <1>1, <1>2, OperandsAre, Sizes DEF Pair
  <1>6. q \in Nat /\ r \in Nat /\ r < R[3] /\ Dividend = (q * R[3]) + r
    <2> DEFINE x == Dividend
               y == R[3]
    <2>1. x \in Nat /\ y \in Nat \ {0}
      BY <1>5
    <2> HIDE DEF x, y
    <2>2. x \div y \in Nat /\ x % y \in 0..(y - 1) /\ x = ((x \div y) * y) + (x % y)
      BY <2>1, DivMod
    <2> QED
      BY <2>1, <2>2 DEF x, y
  <1>7. q = Dividend \div Divisor /\ r = Dividend % Divisor
    BY <1>5
  <1> HIDE DEF q, r
  <1>8. q \in Word /\ r \in Word
    <2>1. r < WordMod
      BY <1>1, <1>2, <1>6
    <2>2. q < WordMod
      <3> SUFFICES ASSUME WordMod <= q PROVE FALSE
        BY <1>2, <1>6
      <3>1. (R[0] * WordMod) + WordMod <= R[3] * WordMod
        BY <1>1, <1>2, <1>3, ProductOrder
      <3>2. WordMod * R[3] <= q * R[3]
        <4>1. CASE WordMod = q
          BY <1>2, <1>5, <4>1, Product
        <4>2. CASE WordMod < q
          <5>1. (WordMod * R[3]) + R[3] <= q * R[3]
            BY <1>2, <1>5, <1>6, <4>2, ProductOrder
          <5>2. WordMod * R[3] \in Nat /\ q * R[3] \in Nat
            BY <1>2, <1>5, <1>6, Product
          <5> QED
            BY <1>5, <5>1, <5>2
        <4> QED
          BY <1>2, <1>6, <4>1, <4>2
      <3>3. WordMod * R[3] = R[3] * WordMod
        BY <1>2, <1>5
      <3>4. R[0] * WordMod \in Nat /\ R[3] * WordMod \in Nat /\ q * R[3] \in Nat /\ R[1] < WordMod /\ R[1] \in Nat
        BY <1>1, <1>2, <1>5, <1>6, Product
      <3> QED
        BY <1>2, <1>5, <1>6, <3>1, <3>2, <3>3, <3>4
    <2> QED
      BY <1>2, <1>6, <2>1, <2>2, Sizes
  <1>9. /\ R'[0] = q /\ R'[1] = r /\ R'[4] = 0 /\ R'[5] = q /\ R'[6] = 0 /\ R'[7] = r
        /\ R'[2] = R[2] /\ R'[3] = R[3] /\ R'[8] = R[8] /\ R'[9] = R[9]
    BY <1>1, <1>4
  <1>16. R' = [i \in 0..9 |-> R'[i]]
    BY <1>1, <1>4
  <1>10. 0 \in Word
    BY Sizes
  <1>11. \A i \in 0..7 : R'[i] \in Word
    BY <1>1, <1>8, <1>9, <1>10
  <1>12. R' \in [0..9 -> Nat]
    <2>1. \A i \in 0..9 : R'[i] \in Nat
      BY <1>1, <1>2, <1>9, <1>11
    <2> QED
      BY <1>16, <2>1
  <1>13. Dividend' = Dividend /\ Divisor' = Divisor /\ Flips' = Flips
    BY <1>0 DEF Dividend, Divisor, Flips, Abs, SignedLong
  <1>14. SignKept'
    BY <1>0, <1>9, <1>13 DEF SignKept
  <1>15. Remainder' = r /\ QuotientReg' = q
    BY <1>2, <1>6, <1>9 DEF Remainder, QuotientReg, Pair
  <1> QED
    BY <1>0, <1>1, <1>7, <1>11, <1>12, <1>13, <1>14, <1>15 DEF DivInv, Types, DivisionCorrect

\* The loop starts with nothing divided.
LEMMA SoftwareDivStep == ASSUME DivInv, SoftwareDiv PROVE DivInv'
  <1>0. /\ pc = "udiv32" /\ pc' = "loop" /\ fn' = fn /\ n' = n /\ d' = d
        /\ Pair(R[0], R[1]) = Dividend /\ Pair(R[2], R[3]) = Divisor /\ Types /\ SignKept
        /\ R' = [R EXCEPT ![4] = R[0], ![5] = R[1], ![6] = 0, ![7] = 0, ![8] = 2 * WordBits]
    BY DEF SoftwareDiv, DivInv
  <1>1. /\ R \in [0..9 -> Nat] /\ \A i \in 0..7 : R[i] \in Word
        /\ fn \in Function /\ n \in Long /\ d \in Long
    BY <1>0 DEF Types
  <1>2. 2 * WordBits \in Nat /\ 2 * WordBits \in 1..(2 * WordBits)
    BY Pow2Facts
  <1>3. /\ R'[0] = R[0] /\ R'[1] = R[1] /\ R'[2] = R[2] /\ R'[3] = R[3]
        /\ R'[4] = R[0] /\ R'[5] = R[1] /\ R'[6] = 0 /\ R'[7] = 0
        /\ R'[8] = 2 * WordBits /\ R'[9] = R[9]
    BY <1>0, <1>1
  <1>11. R' = [i \in 0..9 |-> R'[i]]
    BY <1>0, <1>1
  <1>4. 0 \in Word
    BY Sizes
  <1>5. \A i \in 0..7 : R'[i] \in Word
    BY <1>1, <1>3, <1>4
  <1>6. R' \in [0..9 -> Nat]
    <2>1. \A i \in 0..9 : R'[i] \in Nat
      BY <1>1, <1>2, <1>3
    <2> QED
      BY <1>11, <2>1
  <1>7. Dividend' = Dividend /\ Divisor' = Divisor /\ Flips' = Flips
    BY <1>0 DEF Dividend, Divisor, Flips, Abs, SignedLong
  <1>8. SignKept'
    BY <1>0, <1>3, <1>7 DEF SignKept
  <1>9. Remainder' = 0 /\ QuotientReg' = Dividend /\ Pair(R[2], R[3])' = Divisor
    <2>1. Remainder' = (0 * WordMod) + 0
      BY <1>3 DEF Remainder, Pair
    <2>2. QuotientReg' = Pair(R[0], R[1]) /\ Pair(R[2], R[3])' = Pair(R[2], R[3])
      BY <1>3 DEF QuotientReg, Pair
    <2> QED
      BY <1>0, <2>1, <2>2, Sizes
  <1>10. ASSUME Divisor # 0 PROVE Divided(R[8])'
    <2>1. Dividend \in Nat /\ Divisor \in Nat \ {0} /\ Dividend < Pow2[2 * WordBits] /\ LongMod \in Nat
      BY <1>0, <1>10, OperandsAre, Pow2Facts, Sizes
    <2>2. Pow2[(2 * WordBits) - (2 * WordBits)] = 1
      BY <1>2, Pow2Is
    <2>3. /\ Dividend = (0 * Pow2[2 * WordBits]) + Dividend
          /\ 0 = (0 * Divisor) + 0
          /\ Dividend = (Dividend * 1) + 0
      BY <2>1, Pow2Facts
    <2>4. \E T, rest, q \in Nat :
            /\ Dividend = (T * Pow2[2 * WordBits]) + rest /\ rest < Pow2[2 * WordBits]
            /\ T = (q * Divisor) + 0 /\ 0 < Divisor
            /\ Dividend = (rest * Pow2[(2 * WordBits) - (2 * WordBits)]) + q
      <3>1. 0 < Divisor
        BY <2>1
      <3> QED
        BY <2>1, <2>2, <2>3, <3>1
    <2> QED
      BY <1>3, <1>7, <1>9, <2>4 DEF Divided
  <1> QED
    BY <1>0, <1>1, <1>2, <1>3, <1>5, <1>6, <1>7, <1>8, <1>9, <1>10 DEF DivInv, Types, DivisionCorrect

\* One round of the loop divides one more bit; the last one leaves quotient and
\* remainder of the whole dividend.
LEMMA DivLoopStep == ASSUME CompareAsInDiv32, DivInv, DivLoop PROVE DivInv'
  <1> DEFINE k == R[8]
             B == 2 * WordBits
             out == Msb(R[4])
             r5 == SLA1(R[5])
             r4 == SLA1(R[4]) + Msb(R[5])
             r7 == SLA1(R[7]) + out
             r6 == SLA1(R[6]) + Msb(R[7])
             skip == \/ JH(r6, R[2])
                     \/ ~JL(r6, R[2]) /\ JH(r7, R[3])
             borrowed == IF NoBorrow(R[3], r7) THEN r6 ELSE Sub(1, r6)
             s5 == IF skip THEN r5 ELSE r5 + 1
             s6 == IF skip THEN r6 ELSE Sub(R[2], borrowed)
             s7 == IF skip THEN r7 ELSE Sub(R[3], r7)
  <1>0. /\ pc = "loop" /\ fn' = fn /\ n' = n /\ d' = d /\ Types /\ SignKept
        /\ Pair(R[2], R[3]) = Divisor /\ k \in 1..B /\ (Divisor # 0 => Divided(k))
    BY DEF DivLoop, DivInv
  <1>1. /\ R \in [0..9 -> Nat] /\ \A i \in 0..7 : R[i] \in Word
        /\ fn \in Function /\ n \in Long /\ d \in Long
    BY <1>0 DEF Types
  <1>2. R[2] \in Word /\ R[3] \in Word /\ R[4] \in Word /\ R[5] \in Word /\ R[6] \in Word /\ R[7] \in Word
    BY <1>1
  <1>3. /\ out \in {0, 1} /\ Msb(R[7]) \in {0, 1} /\ Msb(R[6]) \in {0, 1}
        /\ SLA1(R[5]) \in Nat /\ SLA1(R[5]) + 2 <= WordMod
    BY <1>2, ShiftedWord
  <1>4. r4 \in Word /\ r5 \in Word /\ 2 * QuotientReg = (out * LongMod) + Pair(r4, r5)
    <2>1. /\ SLA1(R[4]) + Msb(R[5]) \in Word /\ SLA1(R[5]) + 0 \in Word
          /\ (2 * Pair(R[4], R[5])) + 0
               = (Msb(R[4]) * LongMod) + Pair(SLA1(R[4]) + Msb(R[5]), SLA1(R[5]) + 0)
      BY <1>2, ShiftedPair
    <2>2. SLA1(R[5]) + 0 = SLA1(R[5])
      BY <1>3
    <2>3. Pair(R[4], R[5]) \in Nat
      BY <1>2, PairIs
    <2> QED
      BY <2>1, <2>2, <2>3 DEF QuotientReg
  <1>5. r6 \in Word /\ r7 \in Word /\ (2 * Remainder) + out = (Msb(R[6]) * LongMod) + Pair(r6, r7)
    <2>1. /\ SLA1(R[6]) + Msb(R[7]) \in Word /\ SLA1(R[7]) + Msb(R[4]) \in Word
          /\ (2 * Pair(R[6], R[7])) + Msb(R[4])
               = (Msb(R[6]) * LongMod) + Pair(SLA1(R[6]) + Msb(R[7]), SLA1(R[7]) + Msb(R[4]))
      <3>1. Msb(R[4]) \in {0, 1}
        BY <1>2, ShiftedWord
      <3> DEFINE h == R[6]
                 l == R[7]
                 b == Msb(R[4])
      <3>2. h \in Word /\ l \in Word /\ b \in {0, 1}
        BY <1>2, <3>1
      <3> HIDE DEF out, r6, r7, h, l, b
      <3>3. /\ SLA1(h) + Msb(l) \in Word /\ SLA1(l) + b \in Word
            /\ (2 * Pair(h, l)) + b = (Msb(h) * LongMod) + Pair(SLA1(h) + Msb(l), SLA1(l) + b)
        BY <3>2, ShiftedPair
      <3> QED
        BY <3>3 DEF h, l, b
    <2> QED
      BY <2>1 DEF Remainder
  <1>6. Rolled(R[7], out) = r7 /\ Rolled(R[6], Msb(R[7])) = r6
    <2>1. \A v \in Word : v % WordMod = v
      BY Sizes
    <2> QED
      BY <1>5, <2>1 DEF Rolled, Add
  <1>7. /\ R' = [R EXCEPT ![0] = out, ![1] = Msb(R[7]), ![4] = r4, ![5] = s5, ![6] = s6,
                          ![7] = s7, ![8] = R[8] - 1]
        /\ pc' = IF R[8] - 1 = 0 THEN "return" ELSE "loop"
    BY <1>6 DEF DivLoop, Counted
  <1>8. skip <=> Pair(r6, r7) < Divisor
    <2>1. Pair(r6, r7) < Pair(R[2], R[3]) <=> r6 < R[2] \/ (r6 = R[2] /\ r7 < R[3])
      BY <1>2, <1>5, PairOrder
    <2>2. r6 \in Nat /\ r7 \in Nat /\ R[2] \in Nat /\ R[3] \in Nat
      BY <1>2, <1>5, Sizes
    <2> HIDE DEF r6, r7
    <2>3. skip <=> r6 < R[2] \/ (r6 = R[2] /\ r7 < R[3])
      BY <2>2 DEF JH, JL, LogicallyGreater, CompareAsInDiv32
    <2> QED
      BY <1>0, <2>1, <2>3
  <1>9. Pair(r6, r7) \in Nat /\ Pair(r4, r5) \in Nat /\ Pair(r4, r5) < LongMod /\ Divisor \in Nat /\ Dividend \in Nat
        /\ Dividend < LongMod /\ Remainder \in Nat /\ QuotientReg \in Nat
    <2>1. Pair(r6, r7) \in Nat /\ Pair(r4, r5) \in Long /\ Remainder \in Nat /\ QuotientReg \in Nat
      BY <1>2, <1>4, <1>5, PairIs DEF Remainder, QuotientReg
    <2>2. Dividend \in Long /\ Divisor \in Long
      BY <1>0, OperandsAre
    <2> QED
      BY <2>1, <2>2, Sizes
  <1>10. s6 \in Word /\ s7 \in Word /\ Pair(s6, s7) = IF skip THEN Pair(r6, r7) ELSE Pair(r6, r7) - Divisor
    <2>1. CASE skip
      BY <1>5, <2>1
    <2>2. CASE ~skip
      <3>1. Pair(R[2], R[3]) <= Pair(r6, r7)
        BY <1>0, <1>8, <1>9, <2>2
      <3>2. /\ Sub(R[2], borrowed) \in Word /\ Sub(R[3], r7) \in Word
            /\ Pair(Sub(R[2], borrowed), Sub(R[3], r7)) = Pair(r6, r7) - Pair(R[2], R[3])
        BY <1>2, <1>5, <3>1, SubtractedPair
      <3> QED
        BY <1>0, <2>2, <3>2
    <2> QED
      BY <2>1, <2>2
  <1>11. s5 \in Word /\ Pair(r4, s5) = IF skip THEN Pair(r4, r5) ELSE Pair(r4, r5) + 1
    <2>1. CASE skip
      BY <1>4, <2>1
    <2>2. CASE ~skip
      <3>1. r5 + 1 \in Word
        BY <1>3, Sizes
      <3>2. r4 * WordMod \in Nat /\ r5 \in Nat
        BY <1>4, Sizes, Product
      <3> HIDE DEF r4, r5
      <3>3. Pair(r4, r5 + 1) = Pair(r4, r5) + 1
        BY <3>2 DEF Pair
      <3> QED
        BY <2>2, <3>1, <3>3
    <2> QED
      BY <2>1, <2>2
  <1>12. 0 \in Word /\ 1 \in Word /\ \A x \in Word : x \in Nat
    BY Sizes
  <1>13. out \in Word /\ Msb(R[7]) \in Word /\ R[8] - 1 \in Nat
    BY <1>0, <1>3, <1>12, Pow2Facts
  <1> DEFINE o1 == Msb(R[7])
             k1 == R[8] - 1
  <1> HIDE DEF out, o1, r4, r5, r6, r7, s5, s6, s7, skip, borrowed, k1
  <1>14. R' = [R EXCEPT ![0] = out, ![1] = o1, ![4] = r4, ![5] = s5, ![6] = s6, ![7] = s7, ![8] = k1]
    BY <1>7 DEF o1, k1
  <1>15. /\ R'[0] = out /\ R'[1] = o1 /\ R'[2] = R[2] /\ R'[3] = R[3] /\ R'[4] = r4 /\ R'[5] = s5
         /\ R'[6] = s6 /\ R'[7] = s7 /\ R'[8] = k1 /\ R'[9] = R[9]
    BY <1>1, <1>14
  <1>16. R' = [i \in 0..9 |-> R'[i]]
    BY <1>1, <1>14
  <1>17. \A i \in 0..7 : R'[i] \in Word
    BY <1>2, <1>4, <1>10, <1>11, <1>13, <1>15 DEF o1
  <1>18. R' \in [0..9 -> Nat]
    <2>1. \A i \in 0..9 : R'[i] \in Nat
      BY <1>1, <1>12, <1>13, <1>15, <1>17 DEF k1
    <2> QED
      BY <1>16, <2>1
  <1>19. Dividend' = Dividend /\ Divisor' = Divisor /\ Flips' = Flips
    BY <1>0 DEF Dividend, Divisor, Flips, Abs, SignedLong
  <1>20. SignKept'
    BY <1>0, <1>15, <1>19 DEF SignKept
  <1>21. Remainder' = Pair(s6, s7) /\ QuotientReg' = Pair(r4, s5) /\ Pair(R[2], R[3])' = Divisor
    BY <1>0, <1>15 DEF Remainder, QuotientReg, Pair
  <1>22. ASSUME Divisor # 0
         PROVE  \E TT, rr, qq \in Nat :
                  /\ Dividend = (TT * Pow2[k1]) + rr /\ rr < Pow2[k1]
                  /\ TT = (qq * Divisor) + Pair(s6, s7) /\ Pair(s6, s7) < Divisor
                  /\ Pair(r4, s5) = (rr * Pow2[2 * WordBits - k1]) + qq
    <2>1. PICK T \in Nat, rest \in Nat, q \in Nat :
            /\ Dividend = (T * Pow2[k]) + rest /\ rest < Pow2[k]
            /\ T = (q * Divisor) + Remainder /\ Remainder < Divisor
            /\ QuotientReg = (rest * Pow2[2 * WordBits - k]) + q
      BY <1>0, <1>22 DEF Divided
    <2> DEFINE P == Pow2[k - 1]
               m == Pow2[B - k]
               N == Dividend
               D == Divisor
               r == Remainder
               Q == Pair(r4, r5)
               u == Pair(r6, r7)
    <2>2. B \in Nat /\ k - 1 \in 0..B /\ B - k \in 0..B /\ k \in 1..B /\ B - k + 1 \in 1..B
      BY <1>0, Pow2Facts
    <2>3. P \in Nat \ {0} /\ m \in Nat \ {0} /\ Pow2[k] = 2 * P
      BY <2>2, Pow2Is, Pow2Facts
    <2>4. Pow2[B - (k - 1)] = 2 * m
      <3>1. Pow2[B - k + 1] = 2 * Pow2[(B - k + 1) - 1]
        BY <2>2, Pow2Is
      <3>2. B - (k - 1) = B - k + 1 /\ (B - k + 1) - 1 = B - k
        BY <2>2
      <3> QED
        BY <3>1, <3>2
    <2>5. LongMod = 2 * (P * m)
      <3>0. k \in Nat /\ B - k \in Nat
        BY <2>2
      <3>1. Pow2[k + (B - k)] = Pow2[k] * Pow2[B - k]
        <4> DEFINE j == B - k
        <4> HIDE DEF j
        <4> QED
          BY <3>0, Pow2Sum DEF j
      <3>2. k + (B - k) = B
        BY <2>2
      <3>3. LongMod = (2 * P) * m
        BY <2>3, <3>1, <3>2, Pow2Facts
      <3> HIDE DEF P, m
      <3> QED
        BY <2>3, <3>3
    <2>6. /\ N \in Nat /\ D \in Nat \ {0} /\ r \in Nat /\ Q \in Nat /\ u \in Nat
          /\ N < LongMod /\ N = (T * (2 * P)) + rest /\ rest < 2 * P /\ T = (q * D) + r /\ r < D
          /\ Q < LongMod /\ 2 * ((rest * m) + q) = (out * LongMod) + Q
      BY <1>4, <1>9, <1>22, <2>1, <2>3
    <2> HIDE DEF P, m, N, D, r, Q, u
    <2>7. /\ (2 * r) + out < 2 * (P * m)
          /\ \E left \in Nat :
               /\ N = (((2 * T) + out) * P) + left /\ left < P
               /\ Q = (left * (2 * m)) + (2 * q)
      BY <1>3, <2>3, <2>5, <2>6, NextBit
    <2>8. PICK left \in Nat :
            /\ N = (((2 * T) + out) * P) + left /\ left < P
            /\ Q = (left * (2 * m)) + (2 * q)
      BY <2>7
    <2>9. u = (2 * r) + out
      <3>1. (2 * r) + out = (Msb(R[6]) * LongMod) + u
        BY <1>5 DEF r, u
      <3>2. LongMod \in Nat /\ (2 * r) + out < LongMod /\ r \in Nat /\ u \in Nat
        BY <2>5, <2>6, <2>7, Sizes
      <3>3. CASE Msb(R[6]) = 0
        BY <1>3, <3>1, <3>2, <3>3
      <3>4. CASE Msb(R[6]) = 1
        BY <1>3, <3>1, <3>2, <3>4
      <3> QED
        BY <1>3, <3>3, <3>4
    <2> DEFINE T1 == (2 * T) + out
               q1 == IF skip THEN 2 * q ELSE (2 * q) + 1
               v == IF skip THEN u ELSE u - D
    <2>10. T1 \in Nat /\ q1 \in Nat
      BY <1>3
    <2>11. T1 = ((2 * q) * D) + u
      <3>1. (2 * q) * D = 2 * (q * D) /\ q * D \in Nat
        BY <2>6, Product
      <3> QED
        BY <1>3, <2>6, <2>9, <3>1
    <2>12. v \in Nat /\ v < D
      <3>1. skip <=> u < D
        BY <1>8 DEF u, D
      <3> QED
        BY <1>3, <2>6, <2>9, <3>1
    <2>13. T1 = (q1 * D) + v
      <3>1. CASE skip
        BY <2>11, <3>1
      <3>2. CASE ~skip
        <4>1. ((2 * q) + 1) * D = ((2 * q) * D) + D /\ (2 * q) * D \in Nat
          BY <2>6, Product
        <4> HIDE DEF T1
        <4> QED
          BY <2>6, <2>11, <3>2, <4>1
      <3> QED
        BY <3>1, <3>2
    <2>14. Pair(r4, s5) = (left * (2 * m)) + q1
      <3>1. left * (2 * m) \in Nat
        BY <2>3, Product
      <3>2. CASE skip
        BY <1>11, <2>8, <3>2 DEF Q
      <3>3. CASE ~skip
        <4>1. Pair(r4, s5) = Q + 1
          BY <1>11, <3>3 DEF Q
        <4> QED
          BY <2>8, <3>1, <3>3, <4>1
      <3> QED
        BY <3>2, <3>3
    <2>15. Pair(s6, s7) = v
      BY <1>10 DEF u, D
    <2> HIDE DEF T1, q1, v
    <2>16. /\ N = (T1 * P) + left /\ left < P
           /\ T1 = (q1 * D) + v /\ v < D
           /\ Pair(r4, s5) = (left * (2 * m)) + q1
      BY <2>8, <2>12, <2>13, <2>14 DEF T1
    <2>17. /\ Dividend = (T1 * Pow2[k1]) + left /\ left < Pow2[k1]
           /\ T1 = (q1 * Divisor) + Pair(s6, s7) /\ Pair(s6, s7) < Divisor
           /\ Pair(r4, s5) = (left * Pow2[2 * WordBits - k1]) + q1
      BY <2>4, <2>15, <2>16 DEF N, P, D, k1
    <2> QED
      BY <2>10, <2>17
  <1>23. CASE k1 = 0
    <2>1. pc' = "return"
      BY <1>7, <1>23 DEF k1
    <2>2. ASSUME Divisor # 0 PROVE Remainder' = Dividend % Divisor /\ QuotientReg' = Dividend \div Divisor
      <3>1. PICK T \in Nat, rest \in Nat, q \in Nat :
              /\ Dividend = (T * Pow2[0]) + rest /\ rest < Pow2[0]
              /\ T = (q * Divisor) + Pair(s6, s7) /\ Pair(s6, s7) < Divisor
              /\ Pair(r4, s5) = (rest * Pow2[2 * WordBits - 0]) + q
        BY <1>22, <1>23, <2>2
      <3>2. rest = 0 /\ T = Dividend
        BY <3>1, Pow2Is
      <3>3. Pair(r4, s5) = q
        <4>1. 2 * WordBits - 0 = 2 * WordBits /\ Pow2[2 * WordBits] \in Nat
          BY Pow2Facts, Sizes
        <4>2. Pair(r4, s5) = (0 * Pow2[2 * WordBits]) + q
          BY <3>1, <3>2, <4>1
        <4> QED
          BY <4>1, <4>2
      <3>4. Pair(s6, s7) \in Nat
        BY <1>10, PairIs
      <3>5. Dividend \div Divisor = q /\ Dividend % Divisor = Pair(s6, s7)
        <4> DEFINE x == Dividend
                   y == Divisor
                   r == Pair(s6, s7)
        <4>1. x \in Nat /\ y \in Nat \ {0} /\ r \in Nat /\ r < y /\ x = (q * y) + r
          BY <1>9, <2>2, <3>1, <3>2, <3>4
        <4> HIDE DEF x, y, r
        <4>2. x \div y = q /\ x % y = r
          BY <4>1, DivModUnique
        <4> QED
          BY <4>2 DEF x, y, r
      <3> QED
        BY <1>21, <3>3, <3>5
    <2> QED
      BY <1>0, <1>1, <1>17, <1>18, <1>19, <1>20, <2>1, <2>2 DEF DivInv, Types, DivisionCorrect
  <1>24. CASE k1 # 0
    <2>1. pc' = "loop"
      BY <1>7, <1>24 DEF k1
    <2>2. k1 \in 1..B
      BY <1>0, <1>13, <1>24, Pow2Facts DEF k1
    <2>3. Divisor' # 0 => Divided(R[8])'
      <3> SUFFICES ASSUME Divisor # 0 PROVE Divided(R[8])'
        BY <1>19
      <3> QED
        BY <1>15, <1>19, <1>21, <1>22 DEF Divided
    <2> QED
      BY <1>0, <1>1, <1>15, <1>17, <1>18, <1>19, <1>20, <1>21, <2>1, <2>2, <2>3
      DEF DivInv, Types, DivisionCorrect
  <1> QED
    BY <1>23, <1>24

\* Back in the helper: the sign is applied to what was asked for.
LEMMA ReturnStep == ASSUME DivInv, Return PROVE DivInv'
  <1> DEFINE hi == IF WantsQuotient(fn) THEN R[4] ELSE R[6]
             lo == IF WantsQuotient(fn) THEN R[5] ELSE R[7]
             h == IF Negates THEN NegHi(hi, lo) ELSE hi
             l == IF Negates THEN NegLo(lo) ELSE lo
  <1>0. /\ pc = "return" /\ pc' = "done" /\ fn' = fn /\ n' = n /\ d' = d /\ Types /\ SignKept
        /\ (Divisor # 0 => Remainder = Dividend % Divisor /\ QuotientReg = Dividend \div Divisor)
        /\ R' = [R EXCEPT ![0] = h, ![1] = l]
    BY DEF Return, DivInv
  <1>1. /\ R \in [0..9 -> Nat] /\ \A i \in 0..7 : R[i] \in Word
        /\ fn \in Function /\ n \in Long /\ d \in Long
    BY <1>0 DEF Types
  <1>2. hi \in Word /\ lo \in Word
    BY <1>1
  <1>3. /\ h \in Word /\ l \in Word
        /\ Pair(h, l) = IF Negates THEN (-Pair(hi, lo)) % LongMod ELSE Pair(hi, lo)
    BY <1>2, NegatedPair
  <1>4. Pair(hi, lo) = IF WantsQuotient(fn) THEN QuotientReg ELSE Remainder
    BY DEF QuotientReg, Remainder
  <1> HIDE DEF h, l, hi, lo
  <1>5. R'[0] = h /\ R'[1] = l /\ \A i \in 2..9 : R'[i] = R[i]
    BY <1>0, <1>1
  <1>6. R' = [i \in 0..9 |-> R'[i]]
    BY <1>0, <1>1
  <1>7. \A i \in 0..7 : R'[i] \in Word
    BY <1>1, <1>3, <1>5
  <1>8. R' \in [0..9 -> Nat]
    <2>0. \A x \in Word : x \in Nat
      BY Sizes
    <2>1. \A i \in 0..9 : R'[i] \in Nat
      BY <1>1, <1>5, <1>7, <2>0
    <2> QED
      BY <1>6, <2>1
  <1>9. Negates <=> IsSigned(fn) /\ Flips
    BY <1>0 DEF Negates, SignKept
  <1>10. ASSUME d # 0
         PROVE  Pair(h, l) = IF WantsQuotient(fn) THEN Quotient ELSE Rest
    <2>1. Divisor # 0
      BY <1>0, <1>10, OperandsAre
    <2>2. Remainder = Dividend % Divisor /\ QuotientReg = Dividend \div Divisor
      BY <1>0, <2>1
    <2> DEFINE x == Dividend \div Divisor
               y == Dividend % Divisor
               sn == SignedLong(n) < 0
               sd == SignedLong(d) < 0
    <2>3. /\ Quotient = IF IsSigned(fn) /\ sn # sd THEN (-x) % LongMod ELSE x
          /\ Rest = IF IsSigned(fn) /\ sn THEN (-y) % LongMod ELSE y
          /\ Flips <=> IF fn = "__divsi3" THEN sn # sd ELSE sn
      BY DEF Quotient, Rest, Flips
    <2>4. Pair(hi, lo) = IF WantsQuotient(fn) THEN x ELSE y
      BY <1>4, <2>2
    <2> HIDE DEF x, y, sn, sd
    <2>5. CASE fn = "__divsi3"
      <3>1. WantsQuotient(fn) /\ IsSigned(fn)
        BY <2>5 DEF WantsQuotient, IsSigned
      <3>2. Negates <=> sn # sd
        BY <1>9, <2>3, <2>5, <3>1
      <3> QED
        BY <1>3, <2>3, <2>4, <3>1, <3>2
    <2>6. CASE fn = "__modsi3"
      <3>1. ~WantsQuotient(fn) /\ IsSigned(fn)
        BY <2>6 DEF WantsQuotient, IsSigned
      <3>2. Negates <=> sn
        BY <1>9, <2>3, <2>6, <3>1
      <3> QED
        BY <1>3, <2>3, <2>4, <3>1, <3>2
    <2>7. CASE fn \in {"__udivsi3", "__umodsi3"}
      <3>1. ~IsSigned(fn)
        BY <2>7 DEF IsSigned
      <3> QED
        BY <1>3, <1>9, <2>3, <2>4, <3>1
    <2> QED
      BY <1>1, <2>5, <2>6, <2>7 DEF Function
  <1>11. Quotient' = Quotient /\ Rest' = Rest
    BY <1>0 DEF Quotient, Rest, Dividend, Divisor, Abs, SignedLong
  <1>12. DivisionCorrect'
    BY <1>0, <1>5, <1>10, <1>11 DEF DivisionCorrect, Pair
  <1> QED
    BY <1>0, <1>1, <1>7, <1>8, <1>12 DEF DivInv, Types

\* Every step keeps the invariant.
LEMMA NextDivInv == ASSUME CompareAsInDiv32, DivInv, [Next]_vars PROVE DivInv'
  <1>1. CASE UNCHANGED vars
    <2>1. fn' = fn /\ n' = n /\ d' = d /\ R' = R /\ pc' = pc
      BY <1>1 DEF vars
    <2> QED
      BY <2>1 DEF DivInv, Types, SignKept, Flips, Divided, DivisionCorrect, Quotient, Rest,
        Remainder, QuotientReg, Dividend, Divisor, Abs, SignedLong, Pair
  <1>2. CASE Next
    BY <1>1, <1>2, EntryStep, HardwareDivStep, SoftwareDivStep, DivLoopStep, ReturnStep DEF Next, Done
  <1> QED
    BY <1>1, <1>2

-----------------------------------------------------------------------------
(* The theorems                                                            *)

\* The registers keep the invariant above: every word stays a word, the loop
\* holds a partial division and the sign is remembered (div32.S).
THEOREM DivInvariance == ASSUME CompareAsInDiv32 PROVE Spec => []DivInv
  <1>1. Init => DivInv
    BY InitDivInv
  <1>2. DivInv /\ [Next]_vars => DivInv'
    BY NextDivInv
  <1> QED
    BY <1>1, <1>2, PTL DEF Spec

\* Before every round of the shift-and-subtract loop of div32.S (UDIV32_SW) the
\* registers hold exactly the division of the dividend's top bits, and no shift
\* of the remainder loses a bit, for words of every width.
THEOREM LoopDivides == ASSUME CompareAsInDiv32 PROVE Spec => []LoopInvariant
  <1>1. DivInv => LoopInvariant
    <2> SUFFICES ASSUME DivInv, pc = "loop", Divisor # 0
                 PROVE  LET k == R[8]
                            taken == Dividend \div Pow2[k]
                        IN /\ Remainder = taken % Divisor
                           /\ QuotientReg =
                                (Dividend % Pow2[k]) * Pow2[2 * WordBits - k] + taken \div Divisor
      BY DEF LoopInvariant
    <2> DEFINE p == Pow2[R[8]]
               N == Dividend
               D == Divisor
               r == Remainder
    <2>1. PICK T \in Nat, rest \in Nat, q \in Nat :
            /\ N = (T * p) + rest /\ rest < p
            /\ T = (q * D) + r /\ r < D
            /\ QuotientReg = (rest * Pow2[2 * WordBits - R[8]]) + q
      BY DEF DivInv, Divided
    <2>2. p \in Nat \ {0} /\ N \in Nat /\ D \in Nat \ {0} /\ r \in Nat
      <3>1. R[8] \in 0..(2 * WordBits)
        BY Pow2Facts DEF DivInv
      <3>2. Dividend \in Long /\ Divisor \in Long
        BY OperandsAre DEF DivInv
      <3>3. R[6] \in Word /\ R[7] \in Word
        BY DEF DivInv, Types
      <3>4. Remainder \in Nat
        BY <3>3, PairIs DEF Remainder
      <3> QED
        BY <3>1, <3>2, <3>4, Pow2Facts, Sizes
    <2> HIDE DEF p, N, D, r
    <2>3. N \div p = T /\ N % p = rest
      BY <2>1, <2>2, DivModUnique
    <2>4. T \div D = q /\ T % D = r
      BY <2>1, <2>2, DivModUnique
    <2> QED
      BY <2>1, <2>3, <2>4 DEF p, N, D, r
  <1> QED
    BY <1>1, DivInvariance, PTL

\* The four helpers of div32.S return what C prescribes for every pair of
\* operands with a divisor other than zero, on words of every width.
THEOREM HelpersDivide == ASSUME CompareAsInDiv32 PROVE Spec => []DivisionCorrect
  <1>1. DivInv => DivisionCorrect
    BY DEF DivInv
  <1> QED
    BY <1>1, DivInvariance, PTL

=============================================================================
