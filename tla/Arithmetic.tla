----------------------------- MODULE Arithmetic -----------------------------
(***************************************************************************)
(* Facts about natural numbers for the proofs: induction and definition by *)
(* recursion, stated with sets and functions as parameters so that they    *)
(* can be cited for what the models define by recursive functions;         *)
(* products, quotients and remainders; powers of two.                      *)
(***************************************************************************)
EXTENDS Powers, WellFoundedInduction, TLAPS

-----------------------------------------------------------------------------
(* Induction and recursion                                                 *)

\* A nonempty set of natural numbers has a least element.
LEMMA LeastElement ==
  ASSUME NEW X \in SUBSET Nat, X # {}
  PROVE  \E x \in X : \A y \in X : x <= y
  <1>1. PICK x \in X : \A y \in X : ~(<<y, x>> \in OpToRel(<, Nat))
    BY WFMin, NatLessThanWellFounded
  <1>2. \A y \in X : ~(y < x)
    BY <1>1 DEF OpToRel
  <1> QED
    BY <1>2

\* Induction up to n.
LEMMA UpTo ==
  ASSUME NEW X, NEW n \in Nat, 0 \in X, \A i \in 0..(n - 1) : i \in X => i + 1 \in X
  PROVE  n \in X
  <1> DEFINE bad == {i \in 0..n : i \notin X}
  <1> SUFFICES ASSUME bad # {} PROVE FALSE
    OBVIOUS
  <1>1. bad \in SUBSET Nat
    OBVIOUS
  <1>2. PICK m \in bad : \A y \in bad : m <= y
    BY <1>1, LeastElement
  <1>3. m - 1 \in 0..n /\ m - 1 \notin bad
    BY <1>2
  <1> QED
    BY <1>2, <1>3

\* A value carried through n steps, step i by the function F[i].
LEMMA Iteration ==
  ASSUME NEW T, NEW base \in T, NEW n \in Nat, NEW F \in [1..n -> [T -> T]]
  PROVE  \E g \in [0..n -> T] : g[0] = base /\ \A i \in 1..n : g[i] = F[i][g[i - 1]]
  <1> DEFINE Steps(g, k) == g[0] = base /\ \A i \in 1..k : g[i] = F[i][g[i - 1]]
             X == {k \in 0..n : \E g \in [0..k -> T] : Steps(g, k)}
  <1>1. 0 \in X
    <2>1. [i \in 0..0 |-> base] \in [0..0 -> T] /\ Steps([i \in 0..0 |-> base], 0)
      OBVIOUS
    <2> HIDE DEF Steps
    <2> QED
      BY <2>1
  <1>2. ASSUME NEW k \in 0..(n - 1), k \in X PROVE k + 1 \in X
    <2>1. PICK g \in [0..k -> T] : Steps(g, k)
      BY <1>2
    <2> DEFINE next == F[k + 1][g[k]]
               h == [i \in 0..(k + 1) |-> IF i = k + 1 THEN next ELSE g[i]]
    <2>2. next \in T
      OBVIOUS
    <2>3. /\ h \in [0..(k + 1) -> T] /\ h[0] = base /\ h[k + 1] = next
          /\ \A i \in 0..k : h[i] = g[i]
      BY <2>1, <2>2
    <2>4. ASSUME NEW i \in 1..(k + 1) PROVE h[i] = F[i][h[i - 1]]
      <3>1. CASE i = k + 1
        <4>1. i - 1 = k /\ h[i - 1] = g[k]
          BY <3>1, <2>3
        <4> QED
          BY <3>1, <4>1, <2>3
      <3>2. CASE i # k + 1
        <4>1. i \in 1..k /\ h[i] = g[i] /\ h[i - 1] = g[i - 1]
          BY <3>2, <2>3
        <4> QED
          BY <4>1, <2>1
      <3> QED
        BY <3>1, <3>2
    <2> HIDE DEF h
    <2>5. Steps(h, k + 1)
      BY <2>3, <2>4
    <2> HIDE DEF Steps
    <2> QED
      BY <2>3, <2>5
  <1>3. n \in X
    <2> HIDE DEF X
    <2> QED
      BY <1>1, <1>2, UpTo
  <1> QED
    BY <1>3

-----------------------------------------------------------------------------
(* Products and quotients                                                  *)

\* Products of natural numbers, for the provers.
LEMMA Product == \A x, y \in Nat : x * y \in Nat
  OBVIOUS

\* A larger factor makes a larger product.
LEMMA ProductOrder ==
  ASSUME NEW x \in Nat, NEW y \in Nat, NEW m \in Nat, x < y
  PROVE  (x * m) + m <= y * m
  <1>1. (y - x - 1) * m \in Nat
    BY Product
  <1>2. (y - x - 1) * m = (y * m) - (x * m) - m
    OBVIOUS
  <1>3. x * m \in Nat /\ y * m \in Nat
    BY Product
  <1> QED
    BY <1>1, <1>2, <1>3

\* What \div and % are, for natural numbers.
LEMMA DivMod ==
  ASSUME NEW x \in Nat, NEW y \in Nat \ {0}
  PROVE  x \div y \in Nat /\ x % y \in 0..(y - 1) /\ x = ((x \div y) * y) + (x % y)
  OBVIOUS

\* Quotient and remainder are unique.
LEMMA DivModUnique ==
  ASSUME NEW x \in Nat, NEW y \in Nat \ {0}, NEW q \in Nat, NEW r \in Nat, r < y, x = (q * y) + r
  PROVE  x \div y = q /\ x % y = r
  <1> DEFINE p == x \div y
             s == x % y
  <1>1. p \in Nat /\ s \in Nat /\ s < y /\ x = (p * y) + s
    BY DivMod
  <1>2. p * y \in Nat /\ q * y \in Nat
    BY <1>1, Product
  <1> HIDE DEF p, s
  <1>3. ~(p < q)
    <2> SUFFICES ASSUME p < q PROVE FALSE
      OBVIOUS
    <2>1. (p * y) + y <= q * y
      BY <1>1, ProductOrder
    <2> QED
      BY <1>1, <1>2, <2>1
  <1>4. ~(q < p)
    <2> SUFFICES ASSUME q < p PROVE FALSE
      OBVIOUS
    <2>1. (q * y) + y <= p * y
      BY <1>1, ProductOrder
    <2> QED
      BY <1>1, <1>2, <2>1
  <1>5. p = q
    BY <1>1, <1>3, <1>4
  <1>6. s = r
    BY <1>1, <1>2, <1>5
  <1> QED
    BY <1>5, <1>6 DEF p, s

\* A larger factor gives a product at least as large.
LEMMA Times ==
  ASSUME NEW j \in Nat, NEW k \in Nat, NEW s \in Nat, j <= k
  PROVE  j * s <= k * s /\ j * s \in Nat
  <1>1. PICK e \in Nat : k = j + e
    <2> WITNESS k - j \in Nat
    <2> QED OBVIOUS
  <1>2. k * s = (j * s) + (e * s) /\ e * s \in Nat /\ j * s \in Nat
    BY <1>1
  <1> QED
    BY <1>2

\* The quotient is the only number with the product just below.
LEMMA QuotientIs ==
  ASSUME NEW x \in Nat, NEW s \in Nat \ {0}, NEW k \in Nat, k * s <= x, x < (k + 1) * s
  PROVE  x \div s = k
  <1> DEFINE q == x \div s
  <1>1. q \in Nat /\ q * s <= x /\ x < (q + 1) * s
    BY DivMod
  <1> HIDE DEF q
  <1>2. ~(q + 1 <= k)
    <2> SUFFICES ASSUME q + 1 <= k PROVE FALSE
      OBVIOUS
    <2>1. (q + 1) * s <= k * s
      BY <1>1, Times
    <2>2. (q + 1) * s \in Nat /\ k * s \in Nat
      BY <1>1
    <2> QED
      BY <1>1, <2>1, <2>2
  <1>3. ~(k + 1 <= q)
    <2> SUFFICES ASSUME k + 1 <= q PROVE FALSE
      OBVIOUS
    <2>1. (k + 1) * s <= q * s
      BY <1>1, Times
    <2>2. (k + 1) * s \in Nat /\ q * s \in Nat
      BY <1>1
    <2> QED
      BY <1>1, <2>1, <2>2
  <1>4. q = k
    BY <1>1, <1>2, <1>3
  <1> QED
    BY <1>4 DEF q

\* A number below k * s has a quotient below k.
LEMMA QuotientBelow ==
  ASSUME NEW x \in Nat, NEW s \in Nat \ {0}, NEW k \in Nat, x < k * s
  PROVE  x \div s \in 0..(k - 1)
  <1> DEFINE q == x \div s
  <1>1. q \in Nat /\ q * s <= x
    BY DivMod
  <1> HIDE DEF q
  <1>2. ~(k <= q)
    <2> SUFFICES ASSUME k <= q PROVE FALSE
      OBVIOUS
    <2>1. k * s <= q * s
      BY <1>1, Times
    <2>2. k * s \in Nat /\ q * s \in Nat
      BY <1>1
    <2> QED
      BY <1>1, <2>1, <2>2
  <1> QED
    BY <1>1, <1>2 DEF q

-----------------------------------------------------------------------------
(* Powers of two                                                           *)

\* The recursive definition of Pow2 is one: values for the exponents up to any
\* bound agree with those up to a larger one.
LEMMA Pow2Is ==
  /\ Pow2[0] = 1
  /\ \A k \in Nat : Pow2[k] \in Nat /\ Pow2[k + 1] = 2 * Pow2[k]
  <1> DEFINE Doubles(g, n) == g[0] = 1 /\ \A i \in 1..n : g[i] = 2 * g[i - 1]
             Rec(f) == [k \in Nat |-> IF k = 0 THEN 1 ELSE 2 * f[k - 1]]
  <1>1. ASSUME NEW n \in Nat PROVE \E g \in [0..n -> Nat] : Doubles(g, n)
    <2> DEFINE F == [i \in 1..n |-> [x \in Nat |-> 2 * x]]
               T == Nat
               base == 1
    <2>1. F \in [1..n -> [T -> T]] /\ base \in T
      OBVIOUS
    <2>2. \A i \in 1..n, x \in Nat : F[i][x] = 2 * x
      OBVIOUS
    <2> HIDE DEF F, T, base
    <2>3. PICK g \in [0..n -> T] : g[0] = base /\ \A i \in 1..n : g[i] = F[i][g[i - 1]]
      BY <2>1, Iteration
    <2>4. ASSUME NEW i \in 1..n PROVE g[i] = 2 * g[i - 1]
      <3>1. g[i - 1] \in Nat
        BY <2>3 DEF T
      <3> QED
        BY <2>2, <2>3, <3>1
    <2> QED
      BY <2>3, <2>4 DEF T, base
  <1>2. ASSUME NEW n \in Nat, NEW m \in Nat, n <= m,
               NEW g \in [0..n -> Nat], NEW h \in [0..m -> Nat], Doubles(g, n), Doubles(h, m)
        PROVE  g[n] = h[n]
    <2> DEFINE X == {i \in 0..n : g[i] = h[i]}
    <2>1. 0 \in X
      BY <1>2
    <2>2. ASSUME NEW i \in 0..(n - 1), i \in X PROVE i + 1 \in X
      <3>1. i + 1 \in 1..n /\ i + 1 \in 1..m /\ (i + 1) - 1 = i
        BY <1>2
      <3>2. g[i + 1] = 2 * g[i] /\ h[i + 1] = 2 * h[i]
        BY <1>2, <3>1
      <3> QED
        BY <2>2, <3>1, <3>2
    <2> HIDE DEF X
    <2>3. n \in X
      BY <2>1, <2>2, UpTo
    <2> QED
      BY <2>3 DEF X
  <1> DEFINE G(n) == CHOOSE g \in [0..n -> Nat] : Doubles(g, n)
             p == [n \in Nat |-> G(n)[n]]
  <1>3. \A n \in Nat : G(n) \in [0..n -> Nat] /\ Doubles(G(n), n)
    BY <1>1
  <1> HIDE DEF G
  <1>4. p[0] = 1
    BY <1>3
  <1>5. ASSUME NEW k \in Nat \ {0} PROVE p[k] = 2 * p[k - 1]
    <2>1. G(k)[k] = 2 * G(k)[k - 1]
      BY <1>3
    <2> DEFINE j == k - 1
    <2>2. j \in Nat /\ k \in Nat /\ j <= k
      OBVIOUS
    <2>3. G(j)[j] = G(k)[j]
      <3> HIDE DEF Doubles, j, p
      <3>1. G(j) \in [0..j -> Nat] /\ Doubles(G(j), j)
        BY <2>2, <1>3
      <3>2. G(k) \in [0..k -> Nat] /\ Doubles(G(k), k)
        BY <2>2, <1>3
      <3> QED
        BY <2>2, <3>1, <3>2, <1>2
    <2> QED
      BY <2>1, <2>2, <2>3
  <1>6. p = Rec(p)
    BY <1>4, <1>5
  <1>7. Pow2 = CHOOSE f : f = Rec(f)
    BY DEF Pow2
  <1>8. Pow2 = Rec(Pow2)
    <2> HIDE DEF Rec, p
    <2> QED
      BY <1>6, <1>7
  <1>9. \A k \in Nat : Pow2[k] = IF k = 0 THEN 1 ELSE 2 * Pow2[k - 1]
    BY <1>8
  <1>10. ASSUME NEW k \in Nat PROVE Pow2[k + 1] = 2 * Pow2[k]
    BY <1>9
  <1>11. Pow2[0] = 1
    BY <1>9
  <1>12. ASSUME NEW k \in Nat PROVE Pow2[k] \in Nat
    <2> DEFINE X == {j \in Nat : Pow2[j] \in Nat}
    <2>1. 0 \in X
      BY <1>11
    <2>2. ASSUME NEW i \in 0..(k - 1), i \in X PROVE i + 1 \in X
      BY <2>2, <1>10
    <2> HIDE DEF X
    <2>3. k \in X
      BY <2>1, <2>2, UpTo
    <2> QED
      BY <2>3 DEF X
  <1> QED
    BY <1>10, <1>11, <1>12

\* Exponents add.
LEMMA Pow2Sum ==
  ASSUME NEW i \in Nat, NEW j \in Nat
  PROVE  Pow2[i + j] = Pow2[i] * Pow2[j]
  <1> DEFINE X == {k \in Nat : Pow2[i + k] = Pow2[i] * Pow2[k]}
  <1>1. 0 \in X
    <2>1. i + 0 = i /\ Pow2[i] \in Nat
      BY Pow2Is
    <2> QED
      BY <2>1, Pow2Is
  <1>2. ASSUME NEW k \in 0..(j - 1), k \in X PROVE k + 1 \in X
    <2>1. i + (k + 1) = (i + k) + 1 /\ k \in Nat /\ i + k \in Nat
      OBVIOUS
    <2>2. Pow2[k + 1] = 2 * Pow2[k] /\ Pow2[(i + k) + 1] = 2 * Pow2[i + k] /\ Pow2[i] \in Nat /\ Pow2[k] \in Nat
      BY <2>1, Pow2Is
    <2>3. Pow2[i + k] = Pow2[i] * Pow2[k]
      BY <1>2
    <2>4. 2 * (Pow2[i] * Pow2[k]) = Pow2[i] * (2 * Pow2[k])
      BY <2>2
    <2>5. Pow2[i + (k + 1)] = Pow2[i] * Pow2[k + 1]
      BY <2>1, <2>2, <2>3, <2>4
    <2> QED
      BY <2>1, <2>5
  <1> HIDE DEF X
  <1>3. j \in X
    BY <1>1, <1>2, UpTo
  <1> QED
    BY <1>3 DEF X

\* Powers of two are positive.
LEMMA Pow2Positive ==
  ASSUME NEW k \in Nat
  PROVE  Pow2[k] \in Nat \ {0}
  <1> DEFINE X == {j \in Nat : Pow2[j] \in Nat \ {0}}
  <1>1. 0 \in X
    BY Pow2Is
  <1>2. ASSUME NEW i \in 0..(k - 1), i \in X PROVE i + 1 \in X
    BY <1>2, Pow2Is
  <1> HIDE DEF X
  <1>3. k \in X
    BY <1>1, <1>2, UpTo
  <1> QED
    BY <1>3 DEF X

=============================================================================
