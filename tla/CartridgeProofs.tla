-------------------------- MODULE CartridgeProofs ---------------------------
(***************************************************************************)
(* Theorems about the cartridges, for boards, tiles and screens of every   *)
(* size.  The bit-parallel rule of the Game of Life is Conway's; the tile  *)
(* map and the overlay of life2_2x.c (Life2x) stay consistent; life.c and  *)
(* life2.c (Life2) show the generations of the rule; the ball of ball2.c   *)
(* (Ball2) keeps its speed and puts back what it covers.                   *)
(***************************************************************************)
EXTENDS Life2x, Ball2, Arithmetic

-----------------------------------------------------------------------------
(* The rule                                                                *)

\* A full adder, on the bits of one lane.
LEMMA FullAdder ==
  ASSUME NEW p \in {0, 1}, NEW q \in {0, 1}, NEW r \in {0, 1}
  PROVE  /\ Sum(p, q, r) \in {0, 1} /\ Carry(p, q, r) \in {0, 1}
         /\ Sum(p, q, r) + (2 * Carry(p, q, r)) = p + q + r
  BY DEF Sum, Carry, Xor, And, Or

\* A half adder.
LEMMA HalfAdder ==
  ASSUME NEW p \in {0, 1}, NEW q \in {0, 1}
  PROVE  /\ Xor(p, q) \in {0, 1} /\ And(p, q) \in {0, 1}
         /\ Xor(p, q) + (2 * And(p, q)) = p + q
  BY DEF Xor, And

\* The adder tree of life_next_word adds up the eight neighbours.
THEOREM CountIsSum ==
  ASSUME NEW uL \in {0, 1}, NEW uC \in {0, 1}, NEW uR \in {0, 1},
         NEW mL \in {0, 1}, NEW mR \in {0, 1},
         NEW dL \in {0, 1}, NEW dC \in {0, 1}, NEW dR \in {0, 1},
         NEW n, n = CountBits(uL, uC, uR, mL, mR, dL, dC, dR)
  PROVE  /\ n[1] \in {0, 1} /\ n[2] \in {0, 1} /\ n[3] \in {0, 1} /\ n[4] \in {0, 1}
         /\ n[1] + (2 * n[2]) + (4 * n[3]) + (8 * n[4])
              = uL + uC + uR + mL + mR + dL + dC + dR
  <1> DEFINE sum1 == Sum(uL, uC, uR)
             carry1 == Carry(uL, uC, uR)
             sum2 == Sum(mL, mR, dL)
             carry2 == Carry(mL, mR, dL)
             sum3 == Xor(dC, dR)
             carry3 == And(dC, dR)
             sum4 == Sum(sum1, sum2, sum3)
             carry4 == Carry(sum1, sum2, sum3)
             t_sum == Sum(carry1, carry2, carry3)
             t_carry == Carry(carry1, carry2, carry3)
             c1 == And(t_sum, carry4)
  <1>1. /\ sum1 \in {0, 1} /\ carry1 \in {0, 1} /\ sum1 + (2 * carry1) = uL + uC + uR
        /\ sum2 \in {0, 1} /\ carry2 \in {0, 1} /\ sum2 + (2 * carry2) = mL + mR + dL
        /\ sum3 \in {0, 1} /\ carry3 \in {0, 1} /\ sum3 + (2 * carry3) = dC + dR
    BY FullAdder, HalfAdder
  <1> HIDE DEF sum1, carry1, sum2, carry2, sum3, carry3
  <1>2. /\ sum4 \in {0, 1} /\ carry4 \in {0, 1}
        /\ sum4 + (2 * carry4) = sum1 + sum2 + sum3
        /\ t_sum \in {0, 1} /\ t_carry \in {0, 1}
        /\ t_sum + (2 * t_carry) = carry1 + carry2 + carry3
    BY <1>1, FullAdder
  <1> HIDE DEF sum4, carry4, t_sum, t_carry
  <1>3. /\ Xor(t_sum, carry4) \in {0, 1} /\ c1 \in {0, 1}
        /\ Xor(t_sum, carry4) + (2 * c1) = t_sum + carry4
    BY <1>2, HalfAdder
  <1> HIDE DEF c1
  <1>4. /\ Xor(t_carry, c1) \in {0, 1} /\ And(t_carry, c1) \in {0, 1}
        /\ Xor(t_carry, c1) + (2 * And(t_carry, c1)) = t_carry + c1
    BY <1>2, <1>3, HalfAdder
  <1>5. n = <<sum4, Xor(t_sum, carry4), Xor(t_carry, c1), And(t_carry, c1)>>
    BY DEF CountBits, sum1, carry1, sum2, carry2, sum3, carry3, sum4, carry4, t_sum, t_carry, c1
  <1> DEFINE n2 == Xor(t_sum, carry4)
             n3 == Xor(t_carry, c1)
             n4 == And(t_carry, c1)
  <1>6. n[1] = sum4 /\ n[2] = n2 /\ n[3] = n3 /\ n[4] = n4
    BY <1>5
  <1>7. n2 \in {0, 1} /\ n3 \in {0, 1} /\ n4 \in {0, 1}
        /\ n2 + (2 * c1) = t_sum + carry4 /\ n3 + (2 * n4) = t_carry + c1
    BY <1>3, <1>4
  <1> HIDE DEF n2, n3, n4
  <1> QED
    BY <1>1, <1>2, <1>3, <1>6, <1>7

\* For every neighbourhood the rule of life2.c and life2_2x.c, the rule of
\* life.c and Conway's rule agree: three neighbours, or two and alive.
THEOREM RuleIsConways ==
  ASSUME NEW uL \in {0, 1}, NEW uC \in {0, 1}, NEW uR \in {0, 1},
         NEW mL \in {0, 1}, NEW mC \in {0, 1}, NEW mR \in {0, 1},
         NEW dL \in {0, 1}, NEW dC \in {0, 1}, NEW dR \in {0, 1}
  PROVE  LET n == CountBits(uL, uC, uR, mL, mR, dL, dC, dR)
             neighbours == uL + uC + uR + mL + mR + dL + dC + dR
         IN /\ SimplifiedRule(n, mC) = 1 <=> neighbours = 3 \/ (neighbours = 2 /\ mC = 1)
            /\ OriginalRule(n, mC) = SimplifiedRule(n, mC)
  <1> DEFINE n == CountBits(uL, uC, uR, mL, mR, dL, dC, dR)
             neighbours == uL + uC + uR + mL + mR + dL + dC + dR
  <1>1. /\ n[1] \in {0, 1} /\ n[2] \in {0, 1} /\ n[3] \in {0, 1} /\ n[4] \in {0, 1}
        /\ n[1] + (2 * n[2]) + (4 * n[3]) + (8 * n[4]) = neighbours
    <2>1. n = CountBits(uL, uC, uR, mL, mR, dL, dC, dR)
      OBVIOUS
    <2> HIDE DEF n
    <2> QED
      BY <2>1, CountIsSum, SMTT(30)
  <1> HIDE DEF n, neighbours
  <1>2. SimplifiedRule(n, mC) = 1 <=> neighbours = 3 \/ (neighbours = 2 /\ mC = 1)
    BY <1>1 DEF SimplifiedRule, And, Or, Not
  <1>3. OriginalRule(n, mC) = SimplifiedRule(n, mC)
    BY <1>1 DEF SimplifiedRule, OriginalRule, And, Or, Not
  <1> QED
    BY <1>2, <1>3 DEF n, neighbours

-----------------------------------------------------------------------------
(* Words and tiles                                                         *)

\* The sizes of the board, its words and its tiles fit together.
LEMMA Sizes ==
  /\ TileSize \in Nat \ {0} /\ TilesW \in Nat \ {0} /\ TilesH \in Nat \ {0}
  /\ Lanes \in Nat \ {0} /\ Words \in Nat \ {0}
  /\ Width \in Nat \ {0} /\ Height \in Nat \ {0}
  /\ Words * Lanes = Width
  /\ TilesW * TileSize = Width /\ TilesH * TileSize = Height
  <1>1. /\ TileSize \in Nat \ {0} /\ TilesW \in Nat \ {0} /\ TilesH \in Nat \ {0}
        /\ WordTiles \in Nat \ {0} /\ WordTiles < TilesW
    BY LifeSizes
  <1>2. TilesW = Words * WordTiles /\ Words \in Nat
    BY <1>1, LifeSizes, DivMod DEF Words
  <1>3. Words # 0
    BY <1>1, <1>2
  <1>4. Lanes \in Nat \ {0} /\ Width \in Nat \ {0} /\ Height \in Nat \ {0}
    BY <1>1 DEF Lanes, Width, Height
  <1>5. Words * Lanes = Width
    <2>1. Words * (WordTiles * TileSize) = (Words * WordTiles) * TileSize
      BY <1>1, <1>2
    <2> QED
      BY <1>2, <2>1 DEF Lanes, Width
  <1> QED
    BY <1>1, <1>2, <1>3, <1>4, <1>5 DEF Width, Height

\* A column is a lane of one word.
LEMMA Lane ==
  ASSUME NEW x \in Column
  PROVE  /\ x \in Nat /\ x < Width
         /\ x \div Lanes \in 0..(Words - 1)
         /\ x % Lanes \in 0..(Lanes - 1)
         /\ x = ((x \div Lanes) * Lanes) + (x % Lanes)
         /\ (x \div Lanes) * Lanes \in Nat
         /\ ((x \div Lanes) + 1) * Lanes <= Width
  <1>1. x \in Nat /\ x < Words * Lanes
    BY Sizes DEF Column
  <1>2. x \div Lanes \in 0..(Words - 1)
    BY <1>1, Sizes, QuotientBelow
  <1>3. x % Lanes \in 0..(Lanes - 1) /\ x = ((x \div Lanes) * Lanes) + (x % Lanes)
    BY <1>1, Sizes, DivMod
  <1>4. ((x \div Lanes) + 1) * Lanes <= Words * Lanes
    BY <1>2, Sizes, Times
  <1>5. (x \div Lanes) * Lanes \in Nat
    BY <1>2, Sizes
  <1> QED
    BY <1>1, <1>2, <1>3, <1>4, <1>5, Sizes

\* The shifted words of a window hold the cells to the left and to the right,
\* around the edges of the board too.
LEMMA Neighbour ==
  ASSUME NEW b, NEW x \in Column, NEW y
  PROVE  /\ WordBit(b, y, x \div Lanes, x % Lanes) = Bit(b, x, y)
         /\ FromLeft(b, y, Window(x \div Lanes), x % Lanes) = Bit(b, Prev(x, Width), y)
         /\ FromRight(b, y, Window(x \div Lanes), x % Lanes) = Bit(b, Succ(x, Width), y)
  <1> DEFINE w == x \div Lanes
             i == x % Lanes
  <1>0. /\ x \in Nat /\ x < Width /\ w \in 0..(Words - 1) /\ i \in 0..(Lanes - 1)
        /\ x = (w * Lanes) + i /\ w * Lanes \in Nat /\ (w + 1) * Lanes <= Width
    BY Lane
  <1>1. Lanes \in Nat \ {0} /\ Words \in Nat \ {0} /\ Width \in Nat /\ Words * Lanes = Width
    BY Sizes
  <1> HIDE DEF w, i
  <1>2. (w + 1) * Lanes = (w * Lanes) + Lanes /\ (w - 1) * Lanes = (w * Lanes) - Lanes
    BY <1>0, <1>1
  <1>3. (Words - 1) * Lanes = Width - Lanes
    BY <1>1
  <1>4. Window(w) = <<Prev(w, Words), w, Succ(w, Words)>>
    BY DEF Window
  <1>5. FromLeft(b, y, Window(w), i) = Bit(b, Prev(x, Width), y)
    <2>1. CASE i # 0
      <3>1. (w * Lanes) + (i - 1) = Prev(x, Width)
        BY <2>1, <1>0, <1>1 DEF Prev
      <3> QED
        BY <2>1, <3>1, <1>4 DEF FromLeft, WordBit
    <2>2. CASE i = 0
      <3>1. (Prev(w, Words) * Lanes) + (Lanes - 1) = Prev(x, Width)
        <4>1. CASE w = 0
          BY <4>1, <2>2, <1>0, <1>1, <1>3 DEF Prev
        <4>2. CASE w # 0
          <5>1. x # 0
            <6>1. 1 * Lanes <= w * Lanes
              BY <4>2, <1>0, <1>1, Times
            <6> QED
              BY <6>1, <1>0, <1>1
          <5> QED
            BY <4>2, <5>1, <2>2, <1>0, <1>1, <1>2 DEF Prev
        <4> QED
          BY <4>1, <4>2
      <3> QED
        BY <2>2, <3>1, <1>4 DEF FromLeft, WordBit
    <2> QED
      BY <2>1, <2>2
  <1>6. FromRight(b, y, Window(w), i) = Bit(b, Succ(x, Width), y)
    <2>1. CASE i # Lanes - 1
      <3>1. (w * Lanes) + (i + 1) = Succ(x, Width)
        BY <2>1, <1>0, <1>1, <1>2 DEF Succ
      <3> QED
        BY <2>1, <3>1, <1>4 DEF FromRight, WordBit
    <2>2. CASE i = Lanes - 1
      <3>1. (Succ(w, Words) * Lanes) + 0 = Succ(x, Width)
        <4>1. CASE w + 1 = Words
          BY <4>1, <2>2, <1>0, <1>1, <1>2 DEF Succ
        <4>2. CASE w + 1 # Words
          <5>1. ((w + 1) + 1) * Lanes <= Words * Lanes
            BY <4>2, <1>0, <1>1, Times
          <5>2. ((w + 1) + 1) * Lanes = ((w + 1) * Lanes) + Lanes
            BY <1>0, <1>1
          <5>3. x + 1 # Width
            BY <5>1, <5>2, <2>2, <1>0, <1>1, <1>2
          <5> QED
            BY <4>2, <5>3, <2>2, <1>0, <1>1, <1>2 DEF Succ
        <4> QED
          BY <4>1, <4>2
      <3> QED
        BY <2>2, <3>1, <1>4 DEF FromRight, WordBit
    <2> QED
      BY <2>1, <2>2
  <1>7. WordBit(b, y, w, i) = Bit(b, x, y)
    BY <1>0 DEF WordBit
  <1> QED
    BY <1>5, <1>6, <1>7 DEF w, i

\* What the bit-parallel rules compute from the window of a word is Conway's rule
\* on the torus.
LEMMA WindowRule ==
  ASSUME NEW b, NEW x \in Column, NEW y
  PROVE  LET n == WindowCount(b, y, Window(x \div Lanes), x % Lanes)
             mC == WordBit(b, y, x \div Lanes, x % Lanes)
         IN /\ SimplifiedRule(n, mC) = 1 <=> Rule!Survives(b, x, y)
            /\ OriginalRule(n, mC) = 1 <=> Rule!Survives(b, x, y)
  <1> DEFINE w == x \div Lanes
             i == x % Lanes
             u == Prev(y, Height)
             d == Succ(y, Height)
             l == Prev(x, Width)
             r == Succ(x, Width)
             count == CountBits(Bit(b, l, u), Bit(b, x, u), Bit(b, r, u), Bit(b, l, y), Bit(b, r, y),
                                Bit(b, l, d), Bit(b, x, d), Bit(b, r, d))
             sum == Bit(b, l, u) + Bit(b, x, u) + Bit(b, r, u) + Bit(b, l, y) + Bit(b, r, y)
                      + Bit(b, l, d) + Bit(b, x, d) + Bit(b, r, d)
  <1>1. WindowCount(b, y, Window(w), i) = count
    <2>1. Window(w)[2] = w
      BY DEF Window
    <2> QED
      BY <2>1, Neighbour DEF WindowCount
  <1>2. WordBit(b, y, w, i) = Bit(b, x, y)
    BY Neighbour
  <1>3. \A j, k : Bit(b, j, k) \in {0, 1}
    BY DEF Bit
  <1>4. /\ SimplifiedRule(count, Bit(b, x, y)) = 1 <=> sum = 3 \/ (sum = 2 /\ Bit(b, x, y) = 1)
        /\ OriginalRule(count, Bit(b, x, y)) = SimplifiedRule(count, Bit(b, x, y))
    BY <1>3, RuleIsConways
  <1>5. Rule!Neighbours(b, x, y) = sum
    BY DEF Rule!Neighbours, Rule!Bit, Rule!Prev, Rule!Succ, Bit, Prev, Succ
  <1>6. Bit(b, x, y) = 1 <=> <<x, y>> \in b
    BY DEF Bit
  <1>7. Rule!Survives(b, x, y) <=> sum = 3 \/ (sum = 2 /\ Bit(b, x, y) = 1)
    BY <1>5, <1>6 DEF Rule!Survives
  <1> HIDE DEF count, sum
  <1> QED
    BY <1>1, <1>2, <1>4, <1>7

\* What step_board computes for a cell is Conway's rule.
LEMMA NextCellIsRule ==
  ASSUME NEW b, NEW x \in Column, NEW y
  PROVE  NextCell(b, x, y) = 1 <=> Rule!Survives(b, x, y)
  BY WindowRule DEF NextCell

\* Neighbouring rows lie in the same row of tiles or in neighbouring ones.
LEMMA NextTile ==
  ASSUME NEW z \in Nat, NEW s \in Nat \ {0}
  PROVE  (z + 1) \div s \in {z \div s, (z \div s) + 1}
  <1> DEFINE k == z \div s
  <1>1. k \in Nat /\ k * s <= z /\ z < (k + 1) * s
    BY DivMod
  <1> HIDE DEF k
  <1>2. (k + 1) * s \in Nat /\ ((k + 1) + 1) * s = ((k + 1) * s) + s
    BY <1>1
  <1>3. CASE z + 1 < (k + 1) * s
    <2>1. (z + 1) \div s = k
      BY <1>1, <1>3, QuotientIs
    <2> QED
      BY <2>1 DEF k
  <1>4. CASE z + 1 = (k + 1) * s
    <2>1. (z + 1) \div s = k + 1
      BY <1>1, <1>2, <1>4, QuotientIs
    <2> QED
      BY <2>1 DEF k
  <1> QED
    BY <1>1, <1>2, <1>3, <1>4

\* On a ring of N cells in t tiles of s cells, a cell next to another lies in a
\* tile at or next to the other's.
LEMMA TileRing ==
  ASSUME NEW N \in Nat \ {0}, NEW s \in Nat \ {0}, NEW t \in Nat \ {0}, t * s = N,
         NEW y \in 0..(N - 1), NEW z \in {Prev(y, N), y, Succ(y, N)}
  PROVE  y \div s \in {Prev(z \div s, t), z \div s, Succ(z \div s, t)}
  <1>0. s \in Nat \ {0} /\ t \in Nat \ {0} /\ N \in Nat \ {0} /\ t * s = N
    OBVIOUS
  <1>1. y \in Nat /\ y < N
    OBVIOUS
  <1>2. y \div s \in 0..(t - 1)
    BY <1>0, <1>1, QuotientBelow
  <1>3. (N - 1) \div s = t - 1
    <2> DEFINE k == t - 1
               x == N - 1
    <2>1. k * s = N - s /\ (k + 1) * s = N
      BY <1>0
    <2>2. k \in Nat /\ x \in Nat /\ k * s <= x /\ x < (k + 1) * s
      BY <1>0, <2>1
    <2> HIDE DEF k, x
    <2>3. x \div s = k
      BY <2>2, QuotientIs
    <2> QED
      BY <2>3 DEF k, x
  <1>4. 0 \div s = 0
    BY <1>0, QuotientIs
  <1>5. CASE z = y
    BY <1>5
  <1>6. CASE z = Prev(y, N) /\ y = 0
    <2>1. z = N - 1
      BY <1>6 DEF Prev
    <2>2. y \div s = Succ(z \div s, t)
      BY <2>1, <1>0, <1>3, <1>4, <1>6 DEF Succ
    <2> QED
      BY <2>2
  <1>7. CASE z = Prev(y, N) /\ y # 0
    <2>1. z \in Nat /\ y = z + 1
      BY <1>1, <1>7 DEF Prev
    <2>2. z \div s \in Nat /\ y \div s \in {z \div s, (z \div s) + 1}
      BY <2>1, <1>0, NextTile, DivMod
    <2>3. y \div s = (z \div s) + 1 => y \div s = Succ(z \div s, t)
      BY <2>2, <1>0, <1>2 DEF Succ
    <2> QED
      BY <2>2, <2>3
  <1>8. CASE z = Succ(y, N) /\ y + 1 = N
    <2>1. z = 0 /\ y = N - 1
      BY <1>1, <1>8, <1>0 DEF Succ
    <2>2. y \div s = Prev(z \div s, t)
      BY <2>1, <1>0, <1>3, <1>4 DEF Prev
    <2> QED
      BY <2>2
  <1>9. CASE z = Succ(y, N) /\ y + 1 # N
    <2>1. z = y + 1
      BY <1>9 DEF Succ
    <2>2. y \div s \in Nat /\ z \div s \in {y \div s, (y \div s) + 1}
      BY <2>1, <1>0, <1>1, NextTile, DivMod
    <2>3. z \div s = (y \div s) + 1 => y \div s = Prev(z \div s, t)
      BY <2>2 DEF Prev
    <2> QED
      BY <2>2, <2>3
  <1> QED
    BY <1>5, <1>6, <1>7, <1>8, <1>9

\* Rows of cells and columns of cells, around the edges of the board too.
LEMMA TilesAround ==
  ASSUME NEW c \in Cell,
         NEW m \in {Prev(c[1], Width), c[1], Succ(c[1], Width)},
         NEW z \in {Prev(c[2], Height), c[2], Succ(c[2], Height)}
  PROVE  TileOf(c) \in Around(TileOf(<<m, z>>))
  <1>1. c[1] \in 0..(Width - 1) /\ c[2] \in 0..(Height - 1)
    BY DEF Cell, Column, Row
  <1> DEFINE t == TileOf(<<m, z>>)
             x == c[1]
             y == c[2]
  <1>2. t[1] = m \div TileSize /\ t[2] = z \div TileSize
    BY DEF TileOf
  <1>3. x \div TileSize \in {Prev(m \div TileSize, TilesW), m \div TileSize, Succ(m \div TileSize, TilesW)}
    <2> HIDE DEF x
    <2> QED
      BY <1>1, Sizes, TileRing DEF x
  <1>4. y \div TileSize \in {Prev(z \div TileSize, TilesH), z \div TileSize, Succ(z \div TileSize, TilesH)}
    <2> HIDE DEF y
    <2> QED
      BY <1>1, Sizes, TileRing DEF y
  <1>5. TileOf(c) = <<x \div TileSize, y \div TileSize>>
    BY DEF TileOf
  <1> QED
    BY <1>2, <1>3, <1>4, <1>5 DEF Around

\* Every cell of the board lies in one of its tiles.
LEMMA TileOfCell ==
  ASSUME NEW c \in Cell
  PROVE  TileOf(c) \in Tile /\ TileOf(c)[2] = c[2] \div TileSize
  <1>1. c[1] \in Nat /\ c[1] < TilesW * TileSize /\ c[2] \in Nat /\ c[2] < TilesH * TileSize
    BY Sizes DEF Cell, Column, Row
  <1>2. c[1] \div TileSize \in 0..(TilesW - 1) /\ c[2] \div TileSize \in 0..(TilesH - 1)
    BY <1>1, Sizes, QuotientBelow
  <1> QED
    BY <1>2 DEF TileOf, Tile

\* A cell alive in the next generation lies in a tile with or next to a live cell.
LEMMA ActiveTile ==
  ASSUME NEW b, NEW c \in Cell, Rule!Survives(b, c[1], c[2])
  PROVE  TileOf(c) \in ActiveFrom(TilesOf(b))
  <1> DEFINE x == c[1]
             y == c[2]
             u == Prev(y, Height)
             d == Succ(y, Height)
             l == Prev(x, Width)
             r == Succ(x, Width)
  <1>1. PICK m \in {l, x, r}, z \in {u, y, d} : <<m, z>> \in b
    <2> SUFFICES ASSUME \A m \in {l, x, r}, z \in {u, y, d} : <<m, z>> \notin b
                 PROVE  FALSE
      OBVIOUS
    <2>1. \A m \in {l, x, r}, z \in {u, y, d} : Rule!Bit(b, m, z) = 0
      BY DEF Rule!Bit
    <2>2. Rule!Neighbours(b, x, y) = 0
      BY <2>1 DEF Rule!Neighbours, Rule!Prev, Rule!Succ, Prev, Succ
    <2> QED
      BY <2>2 DEF Rule!Survives
  <1>2. TileOf(<<m, z>>) \in TilesOf(b)
    BY <1>1 DEF TilesOf
  <1>3. TileOf(c) \in Around(TileOf(<<m, z>>))
    BY <1>1, TilesAround
  <1> QED
    BY <1>2, <1>3 DEF ActiveFrom

\* A row of tiles that step_board leaves out has no cell alive in the next
\* generation.
LEMMA ActiveRows ==
  ASSUME NEW b, b \subseteq Cell, NEW c \in Cell, Rule!Survives(b, c[1], c[2])
  PROVE  RowActive(ActiveFrom(TilesOf(b)), c[2] \div TileSize)
  BY ActiveTile, TileOfCell DEF RowActive

\* step_board computes Conway's next generation although it leaves out rows.
LEMMA StepIsGeneration ==
  ASSUME NEW b, b \subseteq Cell
  PROVE  step_board(b, ActiveFrom(TilesOf(b))) = Rule!NextBoard(b)
  <1>1. Rule!Cell = Cell
    BY DEF Rule!Cell, Cell, Column, Row
  <1>2. ASSUME NEW c \in Cell
        PROVE  c \in step_board(b, ActiveFrom(TilesOf(b))) <=> c \in Rule!NextBoard(b)
    <2>1. c[1] \in Column
      BY DEF Cell
    <2>2. NextCell(b, c[1], c[2]) = 1 <=> Rule!Survives(b, c[1], c[2])
      BY <2>1, NextCellIsRule
    <2>3. Rule!Survives(b, c[1], c[2]) => RowActive(ActiveFrom(TilesOf(b)), c[2] \div TileSize)
      BY ActiveRows
    <2> QED
      BY <2>2, <2>3, <1>1 DEF step_board, Rule!NextBoard
  <1>3. step_board(b, ActiveFrom(TilesOf(b))) \subseteq Cell /\ Rule!NextBoard(b) \subseteq Cell
    BY <1>1 DEF step_board, Rule!NextBoard
  <1> QED
    BY <1>2, <1>3

-----------------------------------------------------------------------------
(* The tile map                                                            *)

\* ActiveIsNeighbourhood where the board lies on the screen's cells, as the board
\* of life2_2x.c does.
TilesExact == pc # "reseed" => active_tiles = ActiveFrom(TilesOf(boards[cur]))

\* Every stage of the frame loop keeps the tile map exact.
LEMMA ActiveNext == TilesExact /\ [Next]_vars => TilesExact'
  <1> SUFFICES ASSUME TilesExact, [Next]_vars
               PROVE  TilesExact'
    OBVIOUS
  <1>1. CASE StepBoard
    BY <1>1 DEF StepBoard, TilesExact
  <1>2. ASSUME NEW key, KeyIgnored(key) PROVE TilesExact'
    BY <1>2 DEF KeyIgnored, TilesExact
  <1>3. ASSUME NEW key, KeyDirty(key) PROVE TilesExact'
    BY <1>3 DEF KeyDirty, TilesExact
  <1>4. ASSUME NEW key, KeySnapshot(key) PROVE TilesExact'
    BY <1>4 DEF KeySnapshot, TilesExact
  <1>5. ASSUME NEW key, KeySeed(key) PROVE TilesExact'
    BY <1>5 DEF KeySeed, TilesExact
  <1>6. CASE Reseed
    BY <1>6 DEF Reseed, TilesExact
  <1>7. CASE Overlay
    BY <1>7 DEF Overlay, TilesExact
  <1>8. CASE Draw
    BY <1>8 DEF Draw, TilesExact
  <1>9. CASE UNCHANGED vars
    BY <1>9 DEF vars, TilesExact
  <1> QED
    BY <1>1, <1>2, <1>3, <1>4, <1>5, <1>6, <1>7, <1>8, <1>9 DEF Next

-----------------------------------------------------------------------------
(* The overlay                                                             *)

\* The inductive form of OverlayCanBeCleared: a tile that is not in its normal
\* colour is remembered, or a snapshot is pending that will clear them all; the
\* overlay remembers nothing while it is off.
OverlayInv ==
  /\ color \in [Tile -> {"normal", "dirty", "clean"}]
  /\ debug_dirty_enabled \in BOOLEAN /\ debug_snapshot_pending \in BOOLEAN
  /\ debug_snapshot_pending \/ \A t \in Tile : color[t] # "normal" => t \in dirty_prev
  /\ debug_snapshot_pending => pc = "overlay"
  /\ ~debug_dirty_enabled => dirty_prev = {}

\* At the start no tile is coloured.
LEMMA OverlayInit == Init => OverlayInv
  BY DEF Init, OverlayInv

\* Every stage keeps track of the tiles that are coloured.
LEMMA OverlayNext == OverlayInv /\ [Next]_vars => OverlayInv'
  <1> SUFFICES ASSUME OverlayInv, [Next]_vars
               PROVE  OverlayInv'
    OBVIOUS
  <1>1. CASE StepBoard
    BY <1>1 DEF StepBoard, OverlayInv, overlay
  <1>2. ASSUME NEW key, KeyIgnored(key) PROVE OverlayInv'
    BY <1>2 DEF KeyIgnored, OverlayInv, overlay
  <1>3. ASSUME NEW key, KeyDirty(key) PROVE OverlayInv'
    BY <1>3 DEF KeyDirty, OverlayInv, ClearedColor
  <1>4. ASSUME NEW key, KeySnapshot(key) PROVE OverlayInv'
    BY <1>4 DEF KeySnapshot, OverlayInv
  <1>5. ASSUME NEW key, KeySeed(key) PROVE OverlayInv'
    BY <1>5 DEF KeySeed, OverlayInv, overlay
  <1>6. CASE Reseed
    BY <1>6 DEF Reseed, OverlayInv, overlay
  <1>7. CASE Overlay
    BY <1>7 DEF Overlay, OverlayInv, UpdatedColor
  <1>8. CASE Draw
    BY <1>8 DEF Draw, OverlayInv, overlay
  <1>9. CASE UNCHANGED vars
    BY <1>9 DEF vars, OverlayInv, overlay
  <1> QED
    BY <1>1, <1>2, <1>3, <1>4, <1>5, <1>6, <1>7, <1>8, <1>9 DEF Next

\* Turning the overlay off leaves no colour behind, whatever snapshots, reseeds
\* and generations came between.
THEOREM OverlayClears == Spec => []OverlayCanBeCleared
  <1>1. OverlayInv => OverlayCanBeCleared
    BY DEF OverlayInv, OverlayCanBeCleared
  <1> QED
    BY <1>1, OverlayInit, OverlayNext, PTL DEF Spec

-----------------------------------------------------------------------------
(* The refinement                                                          *)

\* The rows of tiles that vdp_write_dirty_patterns streams.
RowDirty(ty) == \E t \in dirty_tiles : t[2] = ty

\* The inductive invariant: the current board lies on the screen's cells, the
\* tile map is exact, the screen shows the board when a generation is due, and
\* until then they differ in rows of dirty tiles at most.
LifeInv ==
  /\ DOMAIN boards = Board
  /\ cur \in Board
  /\ boards[cur] \subseteq Cell
  /\ screen \subseteq Cell
  /\ pc \in Stages
  /\ TilesExact
  /\ pc = "step" => screen = boards[cur]
  /\ pc \in {"key", "overlay", "draw"} =>
       \A c \in Cell : ~RowDirty(c[2] \div TileSize) => (c \in screen <=> c \in boards[cur])

\* The board seeded in main is on the screen.
LEMMA LifeInit == Init => LifeInv
  <1> SUFFICES ASSUME Init PROVE LifeInv
    OBVIOUS
  <1>1. PICK s \in Seeds :
          /\ boards = [a |-> Inside(seed_cells(s)), b |-> Spill(seed_cells(s))]
          /\ active_tiles = ActiveFrom(TilesOf(Inside(seed_cells(s))))
          /\ screen = Inside(seed_cells(s))
    BY DEF Init
  <1>2. cur = "a" /\ pc = "step"
    BY DEF Init
  <1>3. boards[cur] = Inside(seed_cells(s)) /\ DOMAIN boards = Board
    BY <1>1, <1>2 DEF Board
  <1>4. Inside(seed_cells(s)) \subseteq Cell
    BY DEF Inside
  <1> QED
    BY <1>1, <1>2, <1>3, <1>4 DEF LifeInv, Board, Stages, TilesExact

\* What StepBoard does to the board that is current: Conway's next generation.
LEMMA StepBoardGeneration ==
  ASSUME LifeInv, StepBoard
  PROVE  /\ boards'[cur'] = Rule!NextBoard(boards[cur]) /\ boards'[cur'] \subseteq Cell
         /\ DOMAIN boards' = Board /\ cur' \in Board
  <1>1. cur' \in Board /\ boards'[cur'] = step_board(boards[cur], active_tiles)
        /\ DOMAIN boards' = Board
    BY DEF LifeInv, StepBoard, Other, Board
  <1>2. active_tiles = ActiveFrom(TilesOf(boards[cur]))
    BY DEF LifeInv, StepBoard, TilesExact
  <1>3. step_board(boards[cur], active_tiles) = Rule!NextBoard(boards[cur])
    BY <1>2, StepIsGeneration DEF LifeInv
  <1>4. step_board(boards[cur], active_tiles) \subseteq Cell
    BY DEF step_board
  <1> QED
    BY <1>1, <1>3, <1>4

\* A reseed leaves a board on the screen's cells, whatever it wrote past it.
LEMMA KeySeedBoard ==
  ASSUME LifeInv, NEW key, KeySeed(key)
  PROVE  boards'[cur] \subseteq Cell /\ DOMAIN boards' = Board
  <1>1. PICK s \in Seeds : seed_board(cur, seed_cells(s))
    BY DEF KeySeed
  <1> DEFINE cells == seed_cells(s)
  <1>2. Inside(cells) \subseteq Cell
    BY DEF Inside
  <1> HIDE DEF cells
  <1>3. boards' = IF cur = "a" THEN [a |-> Inside(cells), b |-> boards["b"] \cup Spill(cells)]
                  ELSE [boards EXCEPT !["b"] = Inside(cells)]
    BY <1>1 DEF seed_board, cells
  <1>4. DOMAIN boards = Board /\ cur \in Board
    BY DEF LifeInv
  <1> QED
    BY <1>2, <1>3, <1>4 DEF Board

\* After Draw the screen shows the board.
LEMMA DrawShows ==
  ASSUME LifeInv, Draw
  PROVE  screen' = boards[cur]
  <1> DEFINE stale == {c \in Cell : \E t \in dirty_tiles : t[2] = c[2] \div TileSize}
  <1>1. screen' = (screen \ stale) \cup (boards[cur] \cap stale)
    BY DEF Draw
  <1>2. screen \subseteq Cell /\ boards[cur] \subseteq Cell
    BY DEF LifeInv
  <1>3. \A c \in Cell : c \notin stale => (c \in screen <=> c \in boards[cur])
    BY DEF LifeInv, Draw, RowDirty
  <1> QED
    BY <1>1, <1>2, <1>3

\* Every stage of the frame loop keeps the invariant.
LEMMA LifeNext == LifeInv /\ [Next]_vars => LifeInv'
  <1> SUFFICES ASSUME LifeInv, [Next]_vars
               PROVE  LifeInv'
    OBVIOUS
  <1>0. TilesExact'
    BY ActiveNext DEF LifeInv
  <1>1. CASE StepBoard
    <2>1. boards'[cur'] \subseteq Cell /\ DOMAIN boards' = Board /\ cur' \in Board
      BY <1>1, StepBoardGeneration
    <2>2. pc' = "key" /\ screen' = boards[cur] /\ screen' \subseteq Cell
      BY <1>1 DEF StepBoard, LifeInv
    <2>3. ASSUME NEW c \in Cell, ~RowDirty(c[2] \div TileSize)'
          PROVE  c \in screen' <=> c \in boards'[cur']
      <3> SUFFICES ASSUME c \in Changed(boards[cur], boards'[cur'])
                   PROVE  RowDirty(c[2] \div TileSize)'
        BY <2>2, <2>3 DEF Changed
      <3>1. TileOf(c) \in dirty_tiles'
        BY <1>1 DEF StepBoard, Dirty, TilesOf
      <3> QED
        BY <3>1, TileOfCell DEF RowDirty
    <2> QED
      BY <1>0, <2>1, <2>2, <2>3 DEF LifeInv, Stages
  <1>2. ASSUME NEW key, KeyIgnored(key) PROVE LifeInv'
    BY <1>0, <1>2 DEF KeyIgnored, LifeInv, Stages, RowDirty
  <1>3. ASSUME NEW key, KeyDirty(key) PROVE LifeInv'
    BY <1>0, <1>3 DEF KeyDirty, LifeInv, Stages, RowDirty
  <1>4. ASSUME NEW key, KeySnapshot(key) PROVE LifeInv'
    BY <1>0, <1>4 DEF KeySnapshot, LifeInv, Stages, RowDirty
  <1>5. ASSUME NEW key, KeySeed(key) PROVE LifeInv'
    <2>1. boards'[cur] \subseteq Cell /\ DOMAIN boards' = Board
      BY <1>5, KeySeedBoard
    <2> QED
      BY <1>0, <1>5, <2>1 DEF KeySeed, LifeInv, Stages
  <1>6. CASE Reseed
    <2>1. \A c \in Cell : RowDirty(c[2] \div TileSize)'
      <3>1. dirty_tiles' = Tile
        BY <1>6 DEF Reseed
      <3> QED
        BY <3>1, TileOfCell DEF RowDirty
    <2> QED
      BY <1>0, <1>6, <2>1 DEF Reseed, LifeInv, Stages
  <1>7. CASE Overlay
    BY <1>0, <1>7 DEF Overlay, LifeInv, Stages, RowDirty
  <1>8. CASE Draw
    <2>1. screen' = boards[cur]
      BY <1>8, DrawShows
    <2> QED
      BY <1>0, <1>8, <2>1 DEF Draw, LifeInv, Stages
  <1>9. CASE UNCHANGED vars
    BY <1>0, <1>9 DEF vars, LifeInv, RowDirty
  <1> QED
    BY <1>1, <1>2, <1>3, <1>4, <1>5, <1>6, <1>7, <1>8, <1>9 DEF Next

\* Whatever a reseed wrote past the board, step_board and build_active_from_live
\* find in active_tiles the tiles around the live cells.
THEOREM ActiveIsExact == Spec => []ActiveIsNeighbourhood
  <1>1. LifeInv => ActiveIsNeighbourhood
    <2> SUFFICES ASSUME LifeInv PROVE ActiveIsNeighbourhood
      OBVIOUS
    <2>1. boards[cur] \cap Cell = boards[cur]
      BY DEF LifeInv
    <2> QED
      BY <2>1 DEF LifeInv, TilesExact, ActiveIsNeighbourhood
  <1> QED
    BY <1>1, LifeInit, LifeNext, PTL DEF Spec

\* The program shows Conway's generations on a torus, one after the other and
\* each in full, although step_board leaves out rows of tiles,
\* vdp_write_dirty_patterns leaves out rows of the screen, and a key may put a
\* new board between the two.
THEOREM ShowsConwaysGenerations == Spec => ImplementsLifeRule
  <1> DEFINE board == boards[cur] \cap Cell
             lit == screen \cap Cell
             phase == IF pc = "step" THEN "step" ELSE "draw"
  <1>0. Rule!Cell = Cell
    BY DEF Rule!Cell, Cell, Column, Row
  <1>1. Init => Rule!Init
    <2> SUFFICES ASSUME Init PROVE Rule!Init
      OBVIOUS
    <2>1. pc = "step" /\ LifeInv
      BY LifeInit DEF Init
    <2>2. screen = boards[cur]
      BY <2>1 DEF LifeInv
    <2> QED
      BY <2>1, <2>2, <1>0 DEF Rule!Init
  <1>2. LifeInv /\ [Next]_vars => [Rule!Next]_(Rule!vars)
    <2> SUFFICES ASSUME LifeInv, [Next]_vars
                 PROVE  [Rule!Next]_(Rule!vars)
      OBVIOUS
    <2>0. board = boards[cur] /\ board' = boards'[cur'] /\ lit = screen /\ lit' = screen'
      BY LifeNext DEF LifeInv
    <2>1. CASE StepBoard
      <3>1. board' = Rule!NextBoard(board)
        BY <2>0, <2>1, StepBoardGeneration
      <3>2. phase = "step" /\ phase' = "draw" /\ lit' = lit
        BY <2>1 DEF StepBoard
      <3> QED
        BY <3>1, <3>2 DEF Rule!Next, Rule!Generation
    <2>2. ASSUME NEW key, KeyIgnored(key) PROVE UNCHANGED Rule!vars
      BY <2>2 DEF KeyIgnored, Rule!vars
    <2>3. ASSUME NEW key, KeyDirty(key) PROVE UNCHANGED Rule!vars
      BY <2>3 DEF KeyDirty, Rule!vars
    <2>4. ASSUME NEW key, KeySnapshot(key) PROVE UNCHANGED Rule!vars
      BY <2>4 DEF KeySnapshot, Rule!vars
    <2>5. ASSUME NEW key, KeySeed(key) PROVE [Rule!Next]_(Rule!vars)
      <3>1. board' \subseteq Cell
        OBVIOUS
      <3>2. phase = "draw" /\ phase' = "draw" /\ lit' = lit
        BY <2>5 DEF KeySeed
      <3> QED
        BY <3>1, <3>2, <1>0 DEF Rule!Next, Rule!Reseed
    <2>6. CASE Reseed
      BY <2>6 DEF Reseed, Rule!vars
    <2>7. CASE Overlay
      BY <2>7 DEF Overlay, Rule!vars
    <2>8. CASE Draw
      <3>1. lit' = board
        BY <2>0, <2>8, DrawShows
      <3>2. phase = "draw" /\ phase' = "step" /\ board' = board
        BY <2>8 DEF Draw
      <3> QED
        BY <3>1, <3>2 DEF Rule!Next, Rule!Display
    <2>9. CASE UNCHANGED vars
      BY <2>9 DEF vars, Rule!vars
    <2> QED
      BY <2>1, <2>2, <2>3, <2>4, <2>5, <2>6, <2>7, <2>8, <2>9 DEF Next
  <1> QED
    BY <1>1, <1>2, LifeInit, LifeNext, PTL DEF Spec, ImplementsLifeRule, Rule!Spec

-----------------------------------------------------------------------------
(* life.c and life2.c                                                      *)

CONSTANTS SeedBlock2, Seeds2  \* their LIFE_SEED_BLOCK_SIZE and random choices
VARIABLE program   \* which of the two programs it is

Two == INSTANCE Life2 WITH SeedBlock <- SeedBlock2, Seeds <- Seeds2

\* Both modules take the board from LifeBoard.
LEMMA SameBoard ==
  /\ Two!Width = Width /\ Two!Height = Height /\ Two!Lanes = Lanes /\ Two!Words = Words
  /\ Two!Row = Row /\ Two!Cell = Cell
  /\ \A k, m : Two!Prev(k, m) = Prev(k, m) /\ Two!Succ(k, m) = Succ(k, m)
  /\ \A w : Two!Loaded(w) = Window(w)
  /\ \A c : Two!TileOf(c) = TileOf(c)
  <1>1. Two!Width = Width /\ Two!Height = Height /\ Two!Lanes = Lanes /\ Two!Words = Words
    BY DEF Two!Width, Width, Two!Height, Height, Two!Lanes, Lanes, Two!Words, Words
  <1>2. Two!Row = Row /\ Two!Cell = Cell
    BY <1>1 DEF Two!Row, Row, Two!Cell, Cell, Two!Column, Column
  <1>3. \A k, m : Two!Prev(k, m) = Prev(k, m) /\ Two!Succ(k, m) = Succ(k, m)
    BY DEF Two!Prev, Prev, Two!Succ, Succ
  <1>4. \A w : Two!Loaded(w) = Window(w)
    BY <1>1, <1>3 DEF Two!Loaded, Window
  <1>5. \A c : Two!TileOf(c) = TileOf(c)
    BY DEF Two!TileOf, TileOf
  <1> QED
    BY <1>1, <1>2, <1>3, <1>4, <1>5

\* So do the tiles.
LEMMA SameTiles ==
  /\ \A b : Two!TilesOf(b) = TilesOf(b)
  /\ \A T : Two!ActiveFrom(T) = ActiveFrom(T)
  /\ \A b, c : Two!Dirty(b, c) = TilesOf(Changed(b, c))
  <1>1. \A b : Two!TilesOf(b) = TilesOf(b)
    BY DEF Two!TilesOf, TilesOf, Two!TileOf, TileOf
  <1>2. \A T : Two!ActiveFrom(T) = ActiveFrom(T)
    BY DEF Two!ActiveFrom, ActiveFrom, Two!Around, Around, Two!Prev, Prev, Two!Succ, Succ
  <1>3. \A b, c : Two!Changed(b, c) = Changed(b, c)
    BY DEF Two!Changed, Changed
  <1> QED
    BY <1>1, <1>2, <1>3 DEF Two!Dirty

\* And the rule.
LEMMA SameRule ==
  /\ \A b, y, w, i : Two!WordBit(b, y, w, i) = WordBit(b, y, w, i)
  /\ \A b, y, win, i : Two!WindowCount(b, y, win, i) = WindowCount(b, y, win, i)
  /\ \A n, mC : Two!LifeNext(n, mC) = IF program = "life" THEN OriginalRule(n, mC) ELSE SimplifiedRule(n, mC)
  <1>1. \A b, y, w, i : Two!WordBit(b, y, w, i) = WordBit(b, y, w, i)
    BY SameBoard DEF Two!WordBit, WordBit, Two!Bit, Bit
  <1>2. \A b, y, win, i : /\ Two!FromLeft(b, y, win, i) = FromLeft(b, y, win, i)
                           /\ Two!FromRight(b, y, win, i) = FromRight(b, y, win, i)
    BY <1>1, SameBoard DEF Two!FromLeft, FromLeft, Two!FromRight, FromRight
  <1>3. ASSUME NEW b, NEW y, NEW win, NEW i PROVE Two!WindowCount(b, y, win, i) = WindowCount(b, y, win, i)
    <2>1. \A p, q, r, s, t, u, v, w : Two!CountBits(p, q, r, s, t, u, v, w) = CountBits(p, q, r, s, t, u, v, w)
      BY DEF Two!CountBits, CountBits, Two!Sum, Sum, Two!Carry, Carry, Two!Xor, Xor, Two!And, And, Two!Or, Or
    <2> QED
      BY <1>1, <1>2, <2>1, SameBoard DEF Two!WindowCount, WindowCount
  <1>4. \A n, mC : Two!OriginalRule(n, mC) = OriginalRule(n, mC) /\ Two!SimplifiedRule(n, mC) = SimplifiedRule(n, mC)
    BY DEF Two!OriginalRule, OriginalRule, Two!SimplifiedRule, SimplifiedRule, Two!And, And, Two!Or, Or, Two!Not, Not
  <1> QED
    BY <1>1, <1>3, <1>4 DEF Two!LifeNext

\* The recursive function by which Two!Windows is defined exists: it slides through
\* the words of a row one after the other.
LEMMA WindowsSteps ==
  ASSUME NEW ty
  PROVE  \E slid :
           /\ slid[0] = [win |-> Two!Loaded(0), need_reload |-> TRUE, used |-> {}]
           /\ \A k \in 1..Words : slid[k] = Two!Slide(slid[k - 1], k - 1, ty)
           /\ Two!Windows(ty) = slid[Words].used
  <1> DEFINE Z == 0..(Words - 1)
             Triple == Z \X Z \X Z
             T == [win : Triple, need_reload : BOOLEAN, used : SUBSET (Z \X Triple)]
             base == [win |-> Two!Loaded(0), need_reload |-> TRUE, used |-> {}]
             Put(k, s) == Two!Slide(s, k - 1, ty)
             Rec(f) == [k \in 0..Two!Words |-> IF k = 0 THEN base ELSE Put(k, f[k - 1])]
             slid == CHOOSE f : f = Rec(f)
  <1>0. Words \in Nat \ {0} /\ Two!Words = Words
    BY Sizes, SameBoard
  <1>1. \A w \in Z : Succ(w, Words) \in Z /\ Prev(w, Words) \in Z /\ Window(w) \in Triple
    BY <1>0 DEF Succ, Prev, Window
  <1>2. base \in T
    BY <1>0, <1>1, SameBoard
  <1>3. ASSUME NEW k \in 1..Words, NEW s \in T PROVE Put(k, s) \in T
    <2> DEFINE w == k - 1
    <2>1. w \in Z
      BY <1>0
    <2> HIDE DEF w, Z
    <2>2. s.win \in Triple /\ s.used \subseteq Z \X Triple
      OBVIOUS
    <2>3. <<s.win[2], s.win[3], Succ(w, Words)>> \in Triple
      BY <1>1, <2>1, <2>2
    <2>4. Two!AfterGap(s) \in T
      BY DEF Two!AfterGap
    <2>5. Two!Loaded(w) \in Triple /\ Two!Succ(w, Two!Words) = Succ(w, Words)
      BY <1>0, <1>1, <2>1, SameBoard
    <2> HIDE DEF Triple
    <2>6. \A t \in Triple : [win |-> t, need_reload |-> FALSE, used |-> s.used \cup {<<w, t>>}] \in T
      BY <2>1, <2>2
    <2>7. Two!Slide(s, w, ty) \in T
      BY <2>3, <2>4, <2>5, <2>6 DEF Two!Slide
    <2> QED
      BY <2>7 DEF w
  <1>4. Two!Windows(ty) = slid[Two!Words].used
    BY DEF Two!Windows
  <1> HIDE DEF T, base, Put
  <1>5. \E f : f = Rec(f)
    <2> DEFINE F == [k \in 1..Words |-> [s \in T |-> Put(k, s)]]
    <2>1. F \in [1..Words -> [T -> T]]
      BY <1>3
    <2>2. \A k \in 1..Words, s \in T : F[k][s] = Put(k, s)
      OBVIOUS
    <2> HIDE DEF F
    <2>3. PICK g \in [0..Words -> T] : g[0] = base /\ \A k \in 1..Words : g[k] = F[k][g[k - 1]]
      <3> DEFINE n == Words
      <3>1. n \in Nat /\ F \in [1..n -> [T -> T]]
        BY <1>0, <2>1
      <3> HIDE DEF n
      <3>2. \E g \in [0..n -> T] : g[0] = base /\ \A k \in 1..n : g[k] = F[k][g[k - 1]]
        BY <1>2, <3>1, Iteration
      <3> QED
        BY <3>2 DEF n
    <2>4. ASSUME NEW k \in 1..Words PROVE g[k] = Put(k, g[k - 1])
      <3>1. g[k - 1] \in T
        BY <1>0
      <3> QED
        BY <2>2, <2>3, <3>1
    <2>5. g = Rec(g)
      BY <1>0, <2>3, <2>4
    <2> QED
      BY <2>5
  <1>6. slid = Rec(slid)
    <2> HIDE DEF Rec
    <2> QED
      BY <1>5
  <1> HIDE DEF slid
  <1>7. slid[0] = base /\ \A k \in 1..Words : slid[k] = Put(k, slid[k - 1])
    <2>1. \A k \in 0..Words : slid[k] = Rec(slid)[k]
      <3> HIDE DEF Rec
      <3> QED
        BY <1>6
    <2> QED
      BY <1>0, <2>1
  <1> QED
    BY <1>0, <1>4, <1>7 DEF base, Put

\* Whether the window was loaded or slid along, a word that is computed has its own
\* neighbours in it, and the words that are computed are those with an active tile.
LEMMA WindowsAre ==
  ASSUME NEW ty
  PROVE  \A e : e \in Two!Windows(ty) <=>
                  \E w \in 0..(Words - 1) : ~Two!Skipped(w, ty) /\ e = <<w, Window(w)>>
  <1>1. PICK slid :
           /\ slid[0] = [win |-> Two!Loaded(0), need_reload |-> TRUE, used |-> {}]
           /\ \A k \in 1..Words : slid[k] = Two!Slide(slid[k - 1], k - 1, ty)
           /\ Two!Windows(ty) = slid[Words].used
    BY WindowsSteps
  <1>2. Words \in Nat \ {0} /\ Two!Words = Words
    BY Sizes, SameBoard
  <1> DEFINE Used(k) == {<<w, Window(w)>> : w \in {v \in 0..(k - 1) : ~Two!Skipped(v, ty)}}
             X == {k \in 0..Words : /\ DOMAIN slid[k] = {"win", "need_reload", "used"}
                                    /\ slid[k].used = Used(k)
                                    /\ slid[k].need_reload \/ (k > 0 /\ slid[k].win = Window(k - 1))}
  <1>3. 0 \in X
    <2>1. Used(0) = {}
      OBVIOUS
    <2> QED
      BY <1>1, <1>2, <2>1
  <1>4. ASSUME NEW k \in 0..(Words - 1), k \in X PROVE k + 1 \in X
    <2> DEFINE s == slid[k]
    <2>1. slid[k + 1] = Two!Slide(s, k, ty) /\ k + 1 \in 0..Words /\ (k + 1) - 1 = k
      BY <1>1, <1>2
    <2>2. /\ DOMAIN s = {"win", "need_reload", "used"} /\ s.used = Used(k)
          /\ (s.need_reload \/ (k > 0 /\ s.win = Window(k - 1)))
      BY <1>4
    <2>3. Used(k + 1) = IF Two!Skipped(k, ty) THEN Used(k) ELSE Used(k) \cup {<<k, Window(k)>>}
      <3>1. \A v : v \in 0..((k + 1) - 1) <=> v \in 0..(k - 1) \/ v = k
        BY <1>2
      <3> QED
        BY <3>1
    <2> HIDE DEF Used, s
    <2>4. CASE Two!Skipped(k, ty)
      <3>1. slid[k + 1] = [s EXCEPT !.need_reload = TRUE]
        BY <2>1, <2>4 DEF Two!Slide, Two!AfterGap
      <3> QED
        BY <2>1, <2>2, <2>3, <2>4, <3>1
    <2>5. CASE ~Two!Skipped(k, ty)
      <3> DEFINE win == IF s.need_reload \/ program = "life" THEN Two!Loaded(k)
                        ELSE <<s.win[2], s.win[3], Two!Succ(k, Two!Words)>>
      <3>1. slid[k + 1] = [win |-> win, need_reload |-> FALSE, used |-> s.used \cup {<<k, win>>}]
        BY <2>1, <2>5 DEF Two!Slide
      <3>2. Two!Loaded(k) = Window(k) /\ Two!Succ(k, Two!Words) = Succ(k, Words)
        BY <1>2, SameBoard
      <3>3. k > 0 => <<Window(k - 1)[2], Window(k - 1)[3], Succ(k, Words)>> = Window(k)
        BY <1>2 DEF Window, Prev, Succ
      <3>4. win = Window(k)
        BY <2>2, <3>2, <3>3
      <3> HIDE DEF win
      <3> QED
        BY <2>1, <2>2, <2>3, <2>5, <3>1, <3>4
    <2> QED
      BY <2>4, <2>5
  <1> HIDE DEF X
  <1>5. Words \in X
    BY <1>2, <1>3, <1>4, UpTo
  <1>6. Two!Windows(ty) = Used(Words)
    BY <1>1, <1>5 DEF X
  <1> QED
    BY <1>6

\* The tile of a cell is one of those in the cell's word.
LEMMA TileOfWord ==
  ASSUME NEW c \in Cell
  PROVE  \E k \in 0..(WordTiles - 1) :
           TileOf(c) = <<((c[1] \div Lanes) * WordTiles) + k, c[2] \div TileSize>>
  <1> DEFINE x == c[1]
             w == x \div Lanes
             i == x % Lanes
             k == i \div TileSize
             t == (w * WordTiles) + k
  <1>1. x \in Nat /\ w \in Nat /\ i \in 0..(Lanes - 1) /\ x = (w * Lanes) + i
    BY Lane DEF Cell
  <1>2. WordTiles \in Nat \ {0} /\ TileSize \in Nat \ {0} /\ Lanes = WordTiles * TileSize /\ Lanes \in Nat
    BY LifeSizes, Sizes DEF Lanes
  <1> HIDE DEF x, w, i
  <1>3. k \in 0..(WordTiles - 1)
    BY <1>1, <1>2, QuotientBelow, SMTT(30)
  <1>4. i = (k * TileSize) + (i % TileSize) /\ i % TileSize \in 0..(TileSize - 1)
    BY <1>1, <1>2, DivMod
  <1> DEFINE r == i % TileSize
  <1> HIDE DEF k, r
  <1>5. w * (WordTiles * TileSize) = (w * WordTiles) * TileSize
    BY <1>1, <1>2
  <1>6. t \in Nat /\ t * TileSize = ((w * WordTiles) * TileSize) + (k * TileSize)
        /\ (t + 1) * TileSize = (t * TileSize) + TileSize /\ t * TileSize \in Nat
    BY <1>1, <1>2, <1>3
  <1>7. i = (k * TileSize) + r /\ r \in 0..(TileSize - 1)
    BY <1>4 DEF r
  <1> HIDE DEF t
  <1>8. x = (t * TileSize) + r
    <2> DEFINE A == (w * WordTiles) * TileSize
               K == k * TileSize
    <2>1. w * Lanes = A
      BY <1>2, <1>5
    <2>2. A \in Nat /\ K \in Nat
      BY <1>1, <1>2, <1>3
    <2>3. x = A + i /\ i = K + r /\ t * TileSize = A + K
      BY <1>1, <1>6, <1>7, <2>1
    <2> HIDE DEF A, K
    <2> QED
      BY <1>7, <2>2, <2>3
  <1>9. x \div TileSize = t
    BY <1>1, <1>2, <1>6, <1>7, <1>8, QuotientIs
  <1>10. TileOf(c) = <<t, c[2] \div TileSize>>
    BY <1>9 DEF TileOf, x
  <1> QED
    BY <1>3, <1>10 DEF t, w, x

\* The rule reads the region only, never the border around it.
LEMMA BorderUnread ==
  ASSUME NEW b, NEW c \in Cell
  PROVE  Rule!Survives(b, c[1], c[2]) <=> Rule!Survives(b \cap Cell, c[1], c[2])
  <1> DEFINE x == c[1]
             y == c[2]
  <1>1. x \in 0..(Width - 1) /\ y \in 0..(Height - 1) /\ Width \in Nat \ {0} /\ Height \in Nat \ {0}
    BY Sizes DEF Cell, Column, Row
  <1> HIDE DEF x, y
  <1>2. /\ Rule!Prev(x, Width) \in 0..(Width - 1) /\ Rule!Succ(x, Width) \in 0..(Width - 1)
        /\ Rule!Prev(y, Height) \in 0..(Height - 1) /\ Rule!Succ(y, Height) \in 0..(Height - 1)
    BY <1>1 DEF Rule!Prev, Rule!Succ
  <1>3. \A m \in 0..(Width - 1), z \in 0..(Height - 1) :
          /\ Rule!Bit(b, m, z) = Rule!Bit(b \cap Cell, m, z)
          /\ <<m, z>> \in b <=> <<m, z>> \in b \cap Cell
    BY DEF Rule!Bit, Cell, Column, Row
  <1>4. Rule!Neighbours(b, x, y) = Rule!Neighbours(b \cap Cell, x, y)
    BY <1>1, <1>2, <1>3 DEF Rule!Neighbours
  <1>5. Rule!Survives(b, x, y) <=> Rule!Survives(b \cap Cell, x, y)
    BY <1>1, <1>3, <1>4 DEF Rule!Survives
  <1> QED
    BY <1>5 DEF x, y

\* The cells that the step does not compute lie in no active tile.
LEMMA SkippedTile ==
  ASSUME NEW c \in Cell, Two!Skipped(c[1] \div Lanes, c[2] \div TileSize)
  PROVE  TileOf(c) \notin active_tiles
  BY TileOfWord DEF Two!Skipped

\* A cell of the next generation of life.c and life2.c: in a word that is not left
\* out, and alive by Conway's rule.
LEMMA TwoNextCell ==
  ASSUME NEW b
  PROVE  /\ Two!step_board(b) \subseteq Cell
         /\ \A c \in Cell : c \in Two!step_board(b) <=>
              ~Two!Skipped(c[1] \div Lanes, c[2] \div TileSize) /\ Rule!Survives(b, c[1], c[2])
  <1> DEFINE Alive(y, win, i) == Two!LifeNext(WindowCount(b, y, win, i), WordBit(b, y, win[2], i)) = 1
  <1>0. Lanes \in Nat \ {0} /\ Words \in Nat \ {0} /\ Words * Lanes = Width /\ Width \in Nat
    BY Sizes
  <1>1. \A c : c \in Two!step_board(b) <=>
          \E y \in Row, w \in 0..(Words - 1), i \in 0..(Lanes - 1) :
            /\ ~Two!Skipped(w, y \div TileSize) /\ Alive(y, Window(w), i)
            /\ c = <<(w * Lanes) + i, y>>
    <2>1. \A y : Two!NextRow(b, y) =
             {<<(l[1][1] * Lanes) + l[2], y>> :
                 l \in {m \in Two!Windows(y \div TileSize) \X (0..(Lanes - 1)) : Alive(y, m[1][2], m[2])}}
      BY SameBoard, SameRule DEF Two!NextRow
    <2> HIDE DEF Alive
    <2>2. ASSUME NEW y, NEW c
          PROVE  c \in Two!NextRow(b, y) <=>
                   \E w \in 0..(Words - 1), i \in 0..(Lanes - 1) :
                     /\ ~Two!Skipped(w, y \div TileSize) /\ Alive(y, Window(w), i)
                     /\ c = <<(w * Lanes) + i, y>>
      <3> DEFINE S == Two!Windows(y \div TileSize)
      <3>1. \A e : e \in S <=> \E w \in 0..(Words - 1) : ~Two!Skipped(w, y \div TileSize) /\ e = <<w, Window(w)>>
        BY WindowsAre
      <3> HIDE DEF S
      <3>2. ASSUME c \in Two!NextRow(b, y)
            PROVE  \E w \in 0..(Words - 1), i \in 0..(Lanes - 1) :
                     /\ ~Two!Skipped(w, y \div TileSize) /\ Alive(y, Window(w), i)
                     /\ c = <<(w * Lanes) + i, y>>
        <4>1. PICK e \in S, i \in 0..(Lanes - 1) : Alive(y, e[2], i) /\ c = <<(e[1] * Lanes) + i, y>>
          BY <2>1, <3>2 DEF S
        <4>2. PICK w \in 0..(Words - 1) : ~Two!Skipped(w, y \div TileSize) /\ e = <<w, Window(w)>>
          BY <3>1
        <4>3. e[1] = w /\ e[2] = Window(w)
          BY <4>2
        <4> QED
          BY <4>1, <4>2, <4>3
      <3>3. ASSUME NEW w \in 0..(Words - 1), NEW i \in 0..(Lanes - 1),
                   ~Two!Skipped(w, y \div TileSize), Alive(y, Window(w), i), c = <<(w * Lanes) + i, y>>
            PROVE  c \in Two!NextRow(b, y)
        <4> DEFINE e == <<w, Window(w)>>
                   l == <<e, i>>
        <4>1. e \in S
          BY <3>1, <3>3
        <4>2. l \in S \X (0..(Lanes - 1)) /\ l[1] = e /\ l[2] = i /\ e[1] = w /\ e[2] = Window(w)
          BY <4>1
        <4> HIDE DEF l, e
        <4>3. Alive(y, l[1][2], l[2]) /\ c = <<(l[1][1] * Lanes) + l[2], y>>
          BY <3>3, <4>2
        <4> QED
          BY <2>1, <4>2, <4>3 DEF S
      <3> QED
        BY <3>2, <3>3
    <2>3. Two!step_board(b) = UNION {Two!NextRow(b, y) : y \in Row}
      BY SameBoard DEF Two!step_board
    <2> QED
      BY <2>2, <2>3
  <1>2. ASSUME NEW x \in Column, NEW y
        PROVE  Alive(y, Window(x \div Lanes), x % Lanes) <=> Rule!Survives(b, x, y)
    <2>1. Window(x \div Lanes)[2] = x \div Lanes
      BY DEF Window
    <2> QED
      BY <2>1, WindowRule, SameRule
  <1> HIDE DEF Alive
  <1>3. ASSUME NEW w \in 0..(Words - 1), NEW i \in 0..(Lanes - 1)
        PROVE  /\ (w * Lanes) + i \in Column
               /\ ((w * Lanes) + i) \div Lanes = w /\ ((w * Lanes) + i) % Lanes = i
    <2> DEFINE x == (w * Lanes) + i
    <2>1. w * Lanes \in Nat /\ (w + 1) * Lanes = (w * Lanes) + Lanes /\ (w + 1) * Lanes <= Words * Lanes
      BY <1>0, Times
    <2>2. x \in Column
      BY <1>0, <2>1 DEF Column
    <2>3. x \in Nat
      BY <2>1
    <2> QED
      BY <1>0, <2>2, <2>3, DivModUnique
  <1>4. Two!step_board(b) \subseteq Cell
    BY <1>1, <1>3 DEF Cell
  <1>5. ASSUME NEW c \in Cell
        PROVE  c \in Two!step_board(b) <=>
                 ~Two!Skipped(c[1] \div Lanes, c[2] \div TileSize) /\ Rule!Survives(b, c[1], c[2])
    <2>1. c = <<c[1], c[2]>> /\ c[1] \in Column /\ c[2] \in Row
      BY DEF Cell
    <2>2. /\ c[1] \div Lanes \in 0..(Words - 1) /\ c[1] % Lanes \in 0..(Lanes - 1)
          /\ c[1] = ((c[1] \div Lanes) * Lanes) + (c[1] % Lanes)
      BY <2>1, Lane
    <2>3. ASSUME c \in Two!step_board(b)
          PROVE  ~Two!Skipped(c[1] \div Lanes, c[2] \div TileSize) /\ Rule!Survives(b, c[1], c[2])
      <3>1. PICK y \in Row, w \in 0..(Words - 1), i \in 0..(Lanes - 1) :
              /\ ~Two!Skipped(w, y \div TileSize) /\ Alive(y, Window(w), i)
              /\ c = <<(w * Lanes) + i, y>>
        BY <1>1, <2>3
      <3>2. c[2] = y /\ c[1] = (w * Lanes) + i
        BY <3>1
      <3>3. c[1] \div Lanes = w /\ c[1] % Lanes = i
        BY <3>2, <1>3
      <3> QED
        BY <2>1, <3>1, <3>2, <3>3, <1>2
    <2>4. ASSUME ~Two!Skipped(c[1] \div Lanes, c[2] \div TileSize), Rule!Survives(b, c[1], c[2])
          PROVE  c \in Two!step_board(b)
      BY <1>1, <1>2, <2>1, <2>2, <2>4
    <2> QED
      BY <2>3, <2>4
  <1> QED
    BY <1>4, <1>5

\* Both programs compute Conway's next generation of the region although they leave
\* out words, and the words left out have no live cell.
LEMMA TwoStepIsGeneration ==
  ASSUME NEW b, active_tiles = ActiveFrom(TilesOf(b \cap Cell))
  PROVE  /\ Two!step_board(b) = Rule!NextBoard(b \cap Cell)
         /\ \A c \in Cell : Two!Skipped(c[1] \div Lanes, c[2] \div TileSize) =>
              c \notin b /\ c \notin Two!step_board(b)
  <1>1. Rule!Cell = Cell
    BY DEF Rule!Cell, Cell, Column, Row
  <1>2. ASSUME NEW c \in Cell, Two!Skipped(c[1] \div Lanes, c[2] \div TileSize)
        PROVE  c \notin b /\ ~Rule!Survives(b \cap Cell, c[1], c[2])
    <2>1. TileOf(c) \notin active_tiles
      BY <1>2, SkippedTile
    <2>2. c \notin b
      <3> SUFFICES ASSUME c \in b PROVE FALSE
        OBVIOUS
      <3>1. TileOf(c) \in TilesOf(b \cap Cell)
        BY DEF TilesOf
      <3>2. TileOf(c) \in Around(TileOf(c))
        BY DEF Around, TileOf
      <3> QED
        BY <2>1, <3>1, <3>2 DEF ActiveFrom
    <2> QED
      BY <2>1, <2>2, ActiveTile
  <1>3. ASSUME NEW c \in Cell
        PROVE  c \in Two!step_board(b) <=> c \in Rule!NextBoard(b \cap Cell)
    BY <1>1, <1>2, TwoNextCell, BorderUnread DEF Rule!NextBoard
  <1>4. Two!step_board(b) \subseteq Cell /\ Rule!NextBoard(b \cap Cell) \subseteq Cell
    BY <1>1, TwoNextCell DEF Rule!NextBoard
  <1> QED
    BY <1>2, <1>3, <1>4, TwoNextCell, BorderUnread

\* The inductive invariant: the tile map is exact for the region, the screen shows
\* the region when a generation is due, and until then they differ in dirty tiles at
\* most.
TwoInv ==
  /\ DOMAIN boards = Board /\ cur \in Board
  /\ pc \in {"step", "draw"}
  /\ active_tiles = ActiveFrom(TilesOf(boards[cur] \cap Cell))
  /\ pc = "step" => screen \cap Cell = boards[cur] \cap Cell
  /\ pc = "draw" =>
       \A c \in Cell : TileOf(c) \notin dirty_tiles => (c \in screen <=> c \in boards[cur])

\* The seeded board is on the screen with its border.
LEMMA TwoInit == ASSUME Two!Init PROVE TwoInv
  <1>1. PICK s \in Seeds2 :
          /\ boards = [a |-> Two!seed_board(s), b |-> {}]
          /\ active_tiles = ActiveFrom(TilesOf(Two!seed_board(s) \cap Cell))
          /\ screen = Two!seed_board(s)
    BY SameBoard, SameTiles DEF Two!Init
  <1>2. cur = "a" /\ pc = "step"
    BY DEF Two!Init
  <1>3. boards[cur] = Two!seed_board(s) /\ DOMAIN boards = Board
    BY <1>1, <1>2 DEF Board
  <1> QED
    BY <1>1, <1>2, <1>3 DEF TwoInv, Board

\* What StepBoard does to the board that is current.
LEMMA TwoStepBoard ==
  ASSUME TwoInv, Two!StepBoard
  PROVE  /\ boards'[cur'] \cap Cell = Rule!NextBoard(boards[cur] \cap Cell)
         /\ active_tiles' = ActiveFrom(TilesOf(boards'[cur'] \cap Cell))
         /\ DOMAIN boards' = Board /\ cur' \in Board
         /\ \A c \in Cell : TileOf(c) \notin dirty_tiles' => (c \in boards[cur] <=> c \in boards'[cur'])
  <1> DEFINE b == boards[cur]
             dst == Two!step_board(b)
             computed == {c \in Cell : ~Two!Skipped(c[1] \div Lanes, c[2] \div TileSize)}
  <1>1. active_tiles = ActiveFrom(TilesOf(b \cap Cell)) /\ cur \in Board /\ DOMAIN boards = Board
    BY DEF TwoInv
  <1>2. /\ cur' = Two!Other(cur)
        /\ boards' = [boards EXCEPT ![Two!Other(cur)] = (@ \ Cell) \cup dst]
        /\ dirty_tiles' = TilesOf(Changed(b \cap computed, dst))
        /\ active_tiles' = ActiveFrom(TilesOf(dst))
    BY SameBoard, SameTiles DEF Two!StepBoard
  <1>3. /\ dst = Rule!NextBoard(b \cap Cell)
        /\ \A c \in Cell : c \notin computed => c \notin b /\ c \notin dst
    BY <1>1, TwoStepIsGeneration
  <1>4. dst \subseteq Cell
    BY TwoNextCell
  <1> HIDE DEF dst, computed
  <1>5. Two!Other(cur) \in Board
    BY DEF Two!Other, Board
  <1>6. boards'[cur'] = (boards[cur'] \ Cell) \cup dst /\ DOMAIN boards' = Board
    BY <1>1, <1>2, <1>5
  <1>7. boards'[cur'] \cap Cell = dst
    BY <1>4, <1>6
  <1>8. ASSUME NEW c \in Cell, TileOf(c) \notin dirty_tiles'
        PROVE  c \in b <=> c \in boards'[cur']
    <2>1. c \notin Changed(b \cap computed, dst)
      BY <1>2, <1>8 DEF TilesOf
    <2>2. c \in boards'[cur'] <=> c \in dst
      BY <1>7
    <2> QED
      BY <1>3, <2>1, <2>2 DEF Changed
  <1> QED
    BY <1>2, <1>3, <1>5, <1>6, <1>7, <1>8

\* After Draw the screen shows the region.
LEMMA TwoDraw ==
  ASSUME TwoInv, Two!Draw
  PROVE  screen' \cap Cell = boards[cur] \cap Cell
  <1> DEFINE drawn == {c \in Cell : TileOf(c) \in dirty_tiles}
  <1>1. screen' = (screen \ drawn) \cup (boards[cur] \cap drawn)
    BY SameBoard DEF Two!Draw, Two!Drawn
  <1>2. \A c \in Cell : c \notin drawn => (c \in screen <=> c \in boards[cur])
    BY DEF TwoInv, Two!Draw
  <1>3. drawn \subseteq Cell
    OBVIOUS
  <1> HIDE DEF drawn
  <1> QED
    BY <1>1, <1>2, <1>3

\* Both stages keep the invariant.
LEMMA TwoNext == ASSUME TwoInv, [Two!Next]_(Two!vars) PROVE TwoInv'
  <1>1. CASE Two!StepBoard
    <2>1. pc = "step" /\ pc' = "draw" /\ screen' = screen
      BY <1>1 DEF Two!StepBoard
    <2>2. \A c \in Cell : c \in screen <=> c \in boards[cur]
      BY <2>1 DEF TwoInv
    <2>3. \A c \in Cell : TileOf(c) \notin dirty_tiles' => (c \in screen' <=> c \in boards'[cur'])
      BY <1>1, <2>1, <2>2, TwoStepBoard
    <2> QED
      BY <1>1, <2>1, <2>3, TwoStepBoard DEF TwoInv
  <1>2. CASE Two!Draw
    <2>1. pc' = "step" /\ boards' = boards /\ cur' = cur /\ active_tiles' = active_tiles
      BY <1>2 DEF Two!Draw
    <2> QED
      BY <1>2, <2>1, TwoDraw DEF TwoInv
  <1>3. CASE UNCHANGED Two!vars
    BY <1>3 DEF Two!vars, TwoInv
  <1> QED
    BY <1>1, <1>2, <1>3 DEF Two!Next

\* In life.c and life2.c the map holds the tiles around the live cells of the
\* region, although step_board builds it from the words it computes only.
THEOREM TwoActiveIsExact == Two!Spec => []ActiveIsNeighbourhood
  <1>1. Two!Init => TwoInv
    BY TwoInit
  <1>2. TwoInv /\ [Two!Next]_(Two!vars) => TwoInv'
    BY TwoNext
  <1>3. TwoInv => ActiveIsNeighbourhood
    BY DEF TwoInv, ActiveIsNeighbourhood
  <1> QED
    BY <1>1, <1>2, <1>3, PTL DEF Two!Spec

\* life.c and life2.c show Conway's generations of the region, although they leave
\* out words of which the tiles are inactive, life2.c reuses a window from word to
\* word, and only the dirty tiles are drawn.
THEOREM TwoShowsConwaysGenerations == Two!Spec => ImplementsLifeRule
  <1>0. Rule!Cell = Cell
    BY DEF Rule!Cell, Cell, Column, Row
  <1>1. Two!Init => Rule!Init
    <2> SUFFICES ASSUME Two!Init PROVE Rule!Init
      OBVIOUS
    <2>1. TwoInv /\ pc = "step"
      BY TwoInit DEF Two!Init
    <2> QED
      BY <2>1, <1>0, SameBoard DEF TwoInv, Rule!Init
  <1>2. TwoInv /\ [Two!Next]_(Two!vars) => [Rule!Next]_(Rule!vars)
    <2> SUFFICES ASSUME TwoInv, [Two!Next]_(Two!vars)
                 PROVE  [Rule!Next]_(Rule!vars)
      OBVIOUS
    <2>1. CASE Two!StepBoard
      <3>1. boards'[cur'] \cap Cell = Rule!NextBoard(boards[cur] \cap Cell)
        BY <2>1, TwoStepBoard, SameRule
      <3>2. pc = "step" /\ pc' = "draw" /\ screen' = screen
        BY <2>1 DEF Two!StepBoard
      <3> QED
        BY <3>1, <3>2, SameBoard DEF Rule!Next, Rule!Generation
    <2>2. CASE Two!Draw
      <3>1. screen' \cap Cell = boards[cur] \cap Cell
        BY <2>2, TwoDraw
      <3>2. pc = "draw" /\ pc' = "step" /\ boards' = boards /\ cur' = cur
        BY <2>2 DEF Two!Draw
      <3> QED
        BY <3>1, <3>2, SameBoard DEF Rule!Next, Rule!Display
    <2>3. CASE UNCHANGED Two!vars
      BY <2>3 DEF Two!vars, Rule!vars
    <2> QED
      BY <2>1, <2>2, <2>3 DEF Two!Next
  <1>3. Two!Init => TwoInv
    BY TwoInit
  <1>4. TwoInv /\ [Two!Next]_(Two!vars) => TwoInv'
    BY TwoNext
  <1> QED
    BY <1>1, <1>2, <1>3, <1>4, PTL DEF Two!Spec, ImplementsLifeRule, Rule!Spec

-----------------------------------------------------------------------------
(* The ball of ball2.c                                                     *)

\* A larger number has a larger square.
LEMMA SquareOrder ==
  ASSUME NEW x \in Nat, NEW y \in Nat, x * x < y * y
  PROVE  x < y
  <1> SUFFICES ASSUME y <= x PROVE FALSE
    OBVIOUS
  <1>1. y * y <= x * y /\ x * y \in Nat
    BY Times
  <1>2. y * x <= x * x
    BY Times
  <1> DEFINE xx == x * x
             yy == y * y
             xy == x * y
  <1>3. yy <= xy /\ xy <= xx /\ xx < yy /\ xx \in Int /\ xy \in Int /\ yy \in Int
    BY <1>1, <1>2
  <1> HIDE DEF xx, yy, xy
  <1> QED
    BY <1>3

\* The square of a sum.
LEMMA SquareOfSum ==
  ASSUME NEW x \in Int, NEW y \in Int
  PROVE  (x + y) * (x + y) = (x * x) + (2 * (x * y)) + (y * y)
  OBVIOUS

\* What the digits of the square root of v found so far say, when the next one is
\* worth less than p: the root is at least g, and less than g + p.
RootSoFar(v, p, acc) ==
  \E g \in Nat :
    /\ acc = [value |-> v - (g * g), res |-> g * p]
    /\ g * g <= v /\ v < (g + p) * (g + p)
    /\ g = 0 \/ p <= g

\* The round of isqrt16 with bit = p * p finds the next digit.
LEMMA RootRound ==
  ASSUME NEW v \in Nat, NEW p \in Nat \ {0}, NEW acc, RootSoFar(v, 2 * p, acc)
  PROVE  RootSoFar(v, p, IF p * p > v THEN acc ELSE RootDigit(acc, p * p))
  <1>1. PICK g \in Nat :
          /\ acc = [value |-> v - (g * g), res |-> g * (2 * p)]
          /\ g * g <= v /\ v < (g + (2 * p)) * (g + (2 * p))
          /\ g = 0 \/ 2 * p <= g
    BY DEF RootSoFar
  <1> DEFINE gg == g * g
             gp == g * p
             pp == p * p
             h == g + p
  <1>2. gg \in Nat /\ gp \in Nat /\ pp \in Nat
    BY Product
  <1>3. g * (2 * p) = 2 * gp /\ h * h = gg + (2 * gp) + pp /\ h * p = gp + pp
    OBVIOUS
  <1>4. acc = [value |-> v - gg, res |-> 2 * gp] /\ gg <= v /\ v < (h + p) * (h + p)
    <2>1. h + p = g + (2 * p)
      OBVIOUS
    <2> QED
      BY <1>1, <1>3, <2>1
  <1>5. h \in Nat /\ p <= h
    OBVIOUS
  <1> HIDE DEF gp
  <1>6. CASE pp > v
    <2>1. g = 0
      <3>1. gg < pp
        BY <1>2, <1>4, <1>6
      <3>2. g < p
        BY <3>1, SquareOrder
      <3> QED
        BY <1>1, <3>2
    <2>2. gg = 0 /\ gp = 0 /\ g * p = 0 /\ g + p = p
      BY <2>1 DEF gp
    <2>3. acc = [value |-> v - (g * g), res |-> g * p] /\ g * g <= v /\ v < (g + p) * (g + p)
      BY <1>4, <1>6, <2>2
    <2>4. RootSoFar(v, p, acc)
      BY <2>1, <2>3 DEF RootSoFar
    <2> QED
      BY <1>6, <2>4
  <1>7. CASE ~(pp > v) /\ v - gg >= (2 * gp) + pp
    <2>1. (2 * gp) \div 2 = gp
      BY <1>2
    <2>2. RootDigit(acc, pp) = [value |-> (v - gg) - ((2 * gp) + pp), res |-> gp + pp]
      BY <1>4, <1>7, <2>1 DEF RootDigit
    <2>3. v - (h * h) = (v - gg) - ((2 * gp) + pp) /\ h * h <= v
      <3> HIDE DEF gg, pp, h
      <3> QED
        BY <1>2, <1>3, <1>7
    <2>4. RootDigit(acc, pp) = [value |-> v - (h * h), res |-> h * p]
      BY <1>3, <2>2, <2>3
    <2> HIDE DEF h
    <2>5. RootSoFar(v, p, RootDigit(acc, pp))
      BY <1>4, <1>5, <2>3, <2>4 DEF RootSoFar
    <2> QED
      BY <1>7, <2>5
  <1>8. CASE ~(pp > v) /\ ~(v - gg >= (2 * gp) + pp)
    <2>1. (2 * gp) \div 2 = gp
      BY <1>2
    <2>2. RootDigit(acc, pp) = [value |-> v - gg, res |-> gp]
      BY <1>4, <1>8, <2>1 DEF RootDigit
    <2>3. v < h * h
      <3> HIDE DEF gg, pp, h
      <3> QED
        BY <1>2, <1>3, <1>8
    <2>4. g = 0 \/ p <= g
      BY <1>1
    <2>5. RootDigit(acc, pp) = [value |-> v - (g * g), res |-> g * p] /\ v < (g + p) * (g + p)
      BY <2>2, <2>3 DEF gp
    <2>6. RootSoFar(v, p, RootDigit(acc, pp))
      BY <1>4, <2>4, <2>5 DEF RootSoFar
    <2> QED
      BY <1>8, <2>6
  <1> QED
    BY <1>6, <1>7, <1>8

\* The recursive function by which isqrt16 is defined exists.
LEMMA RootSteps ==
  ASSUME NEW v \in Nat
  PROVE  \E acc :
           /\ acc[0] = [value |-> v, res |-> 0]
           /\ \A k \in 1..8 : acc[k] = IF RootBit(k) > v THEN acc[k - 1]
                                      ELSE RootDigit(acc[k - 1], RootBit(k))
           /\ isqrt16(v) = acc[8].res
  <1> DEFINE T == [value : Int, res : Int]
             base == [value |-> v, res |-> 0]
             Put(k, s) == IF RootBit(k) > v THEN s ELSE RootDigit(s, RootBit(k))
             Rec(f) == [k \in 0..8 |-> IF k = 0 THEN [value |-> v, res |-> 0]
                                       ELSE IF RootBit(k) > v THEN f[k - 1]
                                       ELSE RootDigit(f[k - 1], RootBit(k))]
             acc == CHOOSE f : f = Rec(f)
  <1>1. base \in T
    OBVIOUS
  <1>2. ASSUME NEW k \in 1..8, NEW s \in T PROVE Put(k, s) \in T
    <2>1. 16 - (2 * k) \in Nat
      OBVIOUS
    <2>2. RootBit(k) \in Int
      BY <2>1, Pow2Is DEF RootBit
    <2> QED
      BY <2>2 DEF RootDigit
  <1>3. isqrt16(v) = acc[8].res
    BY DEF isqrt16
  <1>4. \E f : f = Rec(f)
    <2> DEFINE F == [k \in 1..8 |-> [s \in T |-> Put(k, s)]]
               n == 8
    <2> HIDE DEF T, base, Put
    <2>1. F \in [1..n -> [T -> T]] /\ n \in Nat
      BY <1>2
    <2>2. \A k \in 1..8, s \in T : F[k][s] = Put(k, s)
      OBVIOUS
    <2> HIDE DEF F, n
    <2>3. PICK g \in [0..n -> T] : g[0] = base /\ \A k \in 1..n : g[k] = F[k][g[k - 1]]
      BY <1>1, <2>1, Iteration
    <2>4. ASSUME NEW k \in 1..8 PROVE g[k] = Put(k, g[k - 1])
      <3>1. g[k - 1] \in T /\ g[k] = F[k][g[k - 1]]
        BY <2>3 DEF n
      <3> QED
        BY <2>2, <3>1
    <2>5. g = Rec(g)
      BY <2>3, <2>4 DEF n, base, Put
    <2> QED
      BY <2>5
  <1>5. acc = Rec(acc)
    <2> HIDE DEF Rec
    <2> QED
      BY <1>4
  <1> HIDE DEF acc
  <1>6. acc[0] = base /\ \A k \in 1..8 : acc[k] = Put(k, acc[k - 1])
    <2>1. \A k \in 0..8 : acc[k] = Rec(acc)[k]
      <3> HIDE DEF Rec
      <3> QED
        BY <1>5
    <2> QED
      BY <2>1
  <1> QED
    BY <1>3, <1>6

\* isqrt16 is the square root, rounded down, of every uint16_t.
LEMMA RootIs ==
  ASSUME NEW v \in Nat, v < Pow2[16]
  PROVE  /\ isqrt16(v) \in Nat
         /\ isqrt16(v) * isqrt16(v) <= v
         /\ v < (isqrt16(v) + 1) * (isqrt16(v) + 1)
  <1>1. PICK acc : /\ acc[0] = [value |-> v, res |-> 0]
                   /\ \A k \in 1..8 : acc[k] = IF RootBit(k) > v THEN acc[k - 1]
                                              ELSE RootDigit(acc[k - 1], RootBit(k))
                   /\ isqrt16(v) = acc[8].res
    BY RootSteps
  <1>2. ASSUME NEW k \in 1..8, NEW r \in Nat \ {0}, RootBit(k) = r * r, RootSoFar(v, 2 * r, acc[k - 1])
        PROVE  RootSoFar(v, r, acc[k])
    BY <1>1, <1>2, RootRound
  <1> DEFINE p(k) == Pow2[8 - k]
             X == {k \in 0..8 : RootSoFar(v, p(k), acc[k])}
  <1>3. 0 \in X
    <2>1. Pow2[8] \in Nat /\ Pow2[16] = Pow2[8] * Pow2[8]
      <3> DEFINE n == 8
      <3>1. n \in Nat /\ n + n = 16
        OBVIOUS
      <3> HIDE DEF n
      <3>2. Pow2[n] \in Nat /\ Pow2[16] = Pow2[n] * Pow2[n]
        <4>1. Pow2[n] \in Nat /\ Pow2[n + n] = Pow2[n] * Pow2[n]
          BY <3>1, Pow2Is, Pow2Sum
        <4> QED
          BY <3>1, <4>1
      <3> QED
        BY <3>2 DEF n
    <2> DEFINE z == Pow2[8]
    <2>2. z \in Nat /\ v < z * z
      BY <2>1
    <2> HIDE DEF z
    <2>3. v - (0 * 0) = v /\ 0 * z = 0 /\ (0 + z) * (0 + z) = z * z /\ 0 * 0 <= v
      BY <2>2
    <2>4. RootSoFar(v, z, acc[0])
      BY <1>1, <2>2, <2>3 DEF RootSoFar
    <2> QED
      BY <2>4 DEF z
  <1>4. ASSUME NEW k \in 0..7, k \in X PROVE k + 1 \in X
    <2> DEFINE j == k + 1
               e == 8 - j
               q == Pow2[e]
    <2>1. j \in 1..8 /\ e \in Nat /\ 8 - k = e + 1 /\ j - 1 = k /\ 16 - (2 * j) = e + e
      OBVIOUS
    <2>2. q \in Nat \ {0} /\ p(k) = 2 * q /\ Pow2[e + e] = q * q
      <3> HIDE DEF e
      <3>1. q \in Nat \ {0} /\ Pow2[e + 1] = 2 * q /\ Pow2[e + e] = q * q
        BY <2>1, Pow2Is, Pow2Positive, Pow2Sum
      <3> QED
        BY <2>1, <3>1
    <2>3. RootBit(j) = q * q
      BY <2>1, <2>2 DEF RootBit
    <2>4. RootSoFar(v, 2 * q, acc[j - 1])
      BY <1>4, <2>1, <2>2
    <2> HIDE DEF q, e, j
    <2>5. RootSoFar(v, q, acc[j])
      BY <1>2, <2>1, <2>2, <2>3, <2>4
    <2> QED
      BY <2>1, <2>5 DEF q, e, j
  <1> HIDE DEF X
  <1>5. 8 \in X
    <2> DEFINE n == 8
    <2>1. n \in Nat /\ \A i \in 0..(n - 1) : i \in X => i + 1 \in X
      BY <1>4
    <2> HIDE DEF n
    <2>2. n \in X
      BY <1>3, <2>1, UpTo
    <2> QED
      BY <2>2 DEF n
  <1>6. RootSoFar(v, 1, acc[8])
    BY <1>5, Pow2Is DEF X
  <1>7. PICK g \in Nat : acc[8] = [value |-> v - (g * g), res |-> g * 1] /\ g * g <= v /\ v < (g + 1) * (g + 1)
    BY <1>6 DEF RootSoFar
  <1>8. isqrt16(v) = g
    BY <1>1, <1>7
  <1> QED
    BY <1>7, <1>8

\* The unit of a position, that of the energy, and the square of the speed.
LEMMA BallUnits ==
  ASSUME Ball2Sizes
  PROVE  /\ FP_ONE \in Nat \ {0}
         /\ Pow2[BALL2_ENERGY_SHIFT] \in Nat \ {0}
         /\ Scaled(FP_ONE) \in Nat
         /\ speed2_s \in Nat /\ speed2_s < Pow2[16]
  <1> DEFINE e == BALL2_ENERGY_SHIFT
             f == FP_SHIFT - e
             g == 7 - f
             u == Pow2[f]
  <1>1. e \in Nat /\ f \in Nat /\ g \in Nat /\ FP_SHIFT = f + e /\ 7 = f + g
    BY DEF Ball2Sizes
  <1> HIDE DEF e, f, g
  <1>2. Pow2[e] \in Nat \ {0} /\ u \in Nat \ {0} /\ Pow2[g] \in Nat \ {0} /\ Pow2[FP_SHIFT] = u * Pow2[e]
    BY <1>1, Pow2Positive, Pow2Sum
  <1>3. FP_ONE = u * Pow2[e] /\ u * Pow2[e] \in Nat \ {0}
    <2>1. FP_ONE = u * Pow2[e]
      BY <1>2 DEF FP_ONE
    <2>2. f + e \in Nat
      BY <1>1
    <2>3. Pow2[f + e] \in Nat \ {0}
      BY <2>2, Pow2Positive
    <2> QED
      BY <1>1, <1>2, <2>1, <2>3
  <1>4. Scaled(FP_ONE) = u
    <2>1. abs_u16(FP_ONE) = u * Pow2[e]
      BY <1>3 DEF abs_u16
    <2> DEFINE s == Pow2[e]
               x == u * s
    <2>2. u * s <= x /\ x < (u + 1) * s /\ x \in Nat /\ s \in Nat \ {0} /\ u \in Nat
      BY <1>2
    <2> HIDE DEF x, s, u
    <2>3. x \div s = u
      BY <2>2, QuotientIs
    <2> QED
      BY <2>1, <2>3 DEF Scaled, x, s, e
  <1>5. 2 * (u * u) < Pow2[16]
    <2> DEFINE z == Pow2[7]
               y == Pow2[g]
    <2>1. z = u * y /\ z \in Nat \ {0}
      <3>1. Pow2[f + g] = u * y
        BY <1>1, Pow2Sum
      <3>2. Pow2[7] \in Nat \ {0}
        BY Pow2Positive
      <3> QED
        BY <1>1, <3>1, <3>2
    <2>2. Pow2[16] = 2 * (2 * (z * z))
      <3> DEFINE n == 7
      <3>1. n \in Nat /\ n + n = 14 /\ 14 \in Nat /\ 15 \in Nat /\ 14 + 1 = 15 /\ 15 + 1 = 16
        OBVIOUS
      <3> HIDE DEF n
      <3>2. Pow2[14] = Pow2[n] * Pow2[n]
        BY <3>1, Pow2Sum
      <3>3. Pow2[14 + 1] = 2 * Pow2[14] /\ Pow2[15 + 1] = 2 * Pow2[15]
        BY <3>1, Pow2Is
      <3> QED
        BY <3>1, <3>2, <3>3 DEF n
    <2> HIDE DEF z, u, y
    <2>3. u <= z
      <3>1. 1 * u <= y * u
        BY <1>2, Times DEF y
      <3> QED
        BY <1>2, <2>1, <3>1 DEF y
    <2>4. u * u <= z * u /\ u * z <= z * z
      BY <1>2, <2>1, <2>3, Times
    <2> DEFINE uu == u * u
               uz == u * z
               zz == z * z
    <2>5. uu \in Nat /\ uz \in Nat /\ zz \in Nat /\ uu <= uz /\ uz <= zz
      BY <1>2, <2>1, <2>4
    <2>6. zz > 0
      <3>1. 1 * z <= z * z
        BY <2>1, Times
      <3> QED
        BY <2>1, <3>1
    <2> HIDE DEF uu, uz, zz
    <2>7. 2 * uu < 2 * (2 * zz)
      BY <2>5, <2>6
    <2> QED
      BY <2>2, <2>7 DEF uu, zz
  <1> QED
    BY <1>2, <1>3, <1>4, <1>5 DEF speed2_s, Square, e

\* No axis is faster than the root of the square of the speed.
LEMMA MaxAxisIs ==
  ASSUME Ball2Sizes
  PROVE  /\ max_axis_s \in Nat
         /\ max_axis_s * max_axis_s <= speed2_s
         /\ speed2_s < (max_axis_s + 1) * (max_axis_s + 1)
  BY BallUnits, RootIs DEF max_axis_s

\* A velocity is scaled back to what it was made of, whatever its sign.
LEMMA ScaledVelocity ==
  ASSUME Ball2Sizes, NEW v \in Nat, NEW sign \in {1, -1}
  PROVE  Velocity(v, sign) \in Int /\ Scaled(Velocity(v, sign)) = v
  <1> DEFINE s == Pow2[BALL2_ENERGY_SHIFT]
             x == v * s
  <1>1. s \in Nat \ {0} /\ Pow2[BALL2_ENERGY_SHIFT] = s
    BY BallUnits
  <1> HIDE DEF s
  <1>2. v * s <= x /\ x < (v + 1) * s /\ x \in Nat
    BY <1>1
  <1>3. Velocity(v, sign) = sign * x
    BY <1>1 DEF Velocity
  <1> HIDE DEF x
  <1>4. sign * x \in Int /\ abs_u16(sign * x) = x
    BY <1>2 DEF abs_u16
  <1>5. x \div s = v
    BY <1>1, <1>2, QuotientIs
  <1> QED
    BY <1>1, <1>3, <1>4, <1>5 DEF Scaled

\* What is scaled is a natural number.
LEMMA ScaledNat ==
  ASSUME Ball2Sizes, NEW vel \in Int
  PROVE  Scaled(vel) \in Nat
  <1> DEFINE s == Pow2[BALL2_ENERGY_SHIFT]
             x == abs_u16(vel)
  <1>1. s \in Nat \ {0} /\ x \in Nat
    BY BallUnits DEF abs_u16
  <1> HIDE DEF s, x
  <1>2. x \div s \in Nat
    BY <1>1, DivMod
  <1> QED
    BY <1>2 DEF Scaled, s, x

\* The jitter keeps an axis within its bounds.
LEMMA JitteredIs ==
  ASSUME Ball2Sizes, NEW v \in Nat, NEW delta \in {-delta_s, delta_s}
  PROVE  Jittered(v, delta) \in 0..max_axis_s
  <1>1. delta_s \in Int
    <2> DEFINE q == (FP_ONE + 5) \div 10
               e == BALL2_ENERGY_SHIFT
    <2>1. q \in Int /\ e \in Nat /\ Pow2[e] \in Nat \ {0} /\ (e > 0 => Pow2[e - 1] \in Nat)
      BY BallUnits, Pow2Is DEF Ball2Sizes
    <2>2. delta_s = LET s == IF e > 0 THEN (q + Pow2[e - 1]) \div Pow2[e] ELSE q
                         IN IF s = 0 THEN 1 ELSE s
      BY DEF delta_s
    <2> HIDE DEF q, e
    <2>3. e > 0 => (q + Pow2[e - 1]) \div Pow2[e] \in Int
      BY <2>1
    <2> QED
      BY <2>1, <2>2, <2>3
  <1>2. v + delta \in Int
    BY <1>1
  <1> QED
    BY <1>2, MaxAxisIs DEF Jittered

\* The other axis takes what is left of the energy, and at most one rounding of it
\* is lost.
LEMMA OtherAxisIs ==
  ASSUME Ball2Sizes, NEW v \in 0..max_axis_s
  PROVE  /\ OtherAxis(v) \in Nat
         /\ speed2_s - (2 * max_axis_s) <= (v * v) + (OtherAxis(v) * OtherAxis(v))
         /\ (v * v) + (OtherAxis(v) * OtherAxis(v)) <= speed2_s
  <1> DEFINE s == speed2_s
             m == max_axis_s
             vv == v * v
             x == s - vv
             w == OtherAxis(v)
  <1>1. s \in Nat /\ s < Pow2[16] /\ Pow2[16] \in Nat \ {0}
    BY BallUnits, Pow2Positive
  <1>2. m \in Nat /\ m * m <= s /\ s < (m + 1) * (m + 1)
    BY MaxAxisIs
  <1> HIDE DEF s, m
  <1>3. v \in Nat /\ vv \in Nat /\ vv <= m * m
    <2>1. v \in Nat /\ v <= m
      BY <1>2 DEF m
    <2>2. v * v <= m * v /\ v * m <= m * m
      BY <1>2, <2>1, Times
    <2>3. m * v = v * m /\ v * m \in Int /\ m * m \in Int /\ vv \in Nat
      BY <1>2, <2>1
    <2> QED
      BY <2>1, <2>2, <2>3
  <1>4. x \in Nat /\ x <= s /\ x < Pow2[16]
    <2> DEFINE mm == m * m
    <2>1. mm \in Int /\ vv <= mm /\ mm <= s
      BY <1>2, <1>3
    <2> HIDE DEF mm, vv
    <2> QED
      BY <1>1, <1>3, <2>1
  <1>5. w = isqrt16(x)
    <2> HIDE DEF x
    <2>1. x % Pow2[16] = x
      BY <1>1, <1>4
    <2> QED
      BY <2>1 DEF OtherAxis, Square, s, x, vv
  <1>6. w \in Nat /\ w * w <= x /\ x < (w + 1) * (w + 1)
    <2> HIDE DEF x, w
    <2> QED
      BY <1>4, <1>5, RootIs
  <1> HIDE DEF w
  <1>7. w <= m
    <2> DEFINE ww == w * w
               nn == (m + 1) * (m + 1)
    <2>1. ww \in Int /\ ww <= x /\ s < nn /\ nn \in Int
      BY <1>2, <1>6
    <2> HIDE DEF ww, nn, x
    <2>2. ww < nn
      BY <1>1, <1>4, <2>1
    <2>3. w < m + 1
      BY <1>2, <1>6, <2>2, SquareOrder DEF ww, nn
    <2> QED
      BY <1>2, <1>6, <2>3
  <1>8. s - (2 * m) <= vv + (w * w) /\ vv + (w * w) <= s
    <2> DEFINE ww == w * w
    <2>1. ww \in Nat /\ (w + 1) * (w + 1) = ww + (2 * w) + 1
      BY <1>6
    <2>2. ww <= x /\ x < ww + (2 * w) + 1
      BY <1>6, <2>1
    <2> HIDE DEF ww, vv
    <2> QED
      BY <1>1, <1>2, <1>3, <1>6, <1>7, <2>1, <2>2 DEF ww
  <1> QED
    BY <1>6, <1>8 DEF s, m, w

\* Every cell of the border has a place of its own in the array.
LEMMA BorderPlaces ==
  ASSUME Ball2Sizes,
         NEW r \in 0..(SCREEN_ROWS - 1), NEW c \in 0..(SCREEN_COLS - 1),
         NEW y \in 0..(SCREEN_ROWS - 1), NEW x \in 0..(SCREEN_COLS - 1)
  PROVE  /\ border_index(r, c) \in Int
         /\ border_index(r, c) >= 0 => border_index(r, c) \in 0..(BORDER_TOTAL - 1)
         /\ border_index(r, c) >= 0 /\ border_index(r, c) = border_index(y, x)
              => r = y /\ c = x
  <1>1. ASSUME NEW p \in 0..(SCREEN_ROWS - 1), NEW q \in 0..(SCREEN_COLS - 1)
        PROVE  border_index(p, q) =
                 IF p = 0 THEN q
                 ELSE IF p = SCREEN_ROWS - 1 THEN SCREEN_COLS + (SCREEN_ROWS - 2) + q
                 ELSE IF q = SCREEN_COLS - 1 THEN SCREEN_COLS + p - 1
                 ELSE IF q = 0 THEN (2 * SCREEN_COLS) + (SCREEN_ROWS - 2) + p - 1
                 ELSE -1
    <2>1. p # 0 /\ p # SCREEN_ROWS - 1 => p \in 1..(SCREEN_ROWS - 2)
      BY DEF Ball2Sizes
    <2>2. ~(0 \in 1..(SCREEN_ROWS - 2)) /\ ~(SCREEN_ROWS - 1 \in 1..(SCREEN_ROWS - 2)) /\ SCREEN_ROWS - 1 # 0
          /\ SCREEN_COLS - 1 # 0
      BY DEF Ball2Sizes
    <2> QED
      BY <2>1, <2>2 DEF border_index, BORDER_SIDE_LEN
  <1> QED
    BY <1>1 DEF Ball2Sizes, BORDER_TOTAL, BORDER_SIDE_LEN

\* A position on the screen is in one of its cells.
LEMMA OnScreen ==
  ASSUME Ball2Sizes, NEW n \in Nat, n > 2, NEW pos \in 0..FP_FROM_INT(n - 1)
  PROVE  pos \div FP_ONE \in 0..(n - 1)
  <1> DEFINE s == FP_ONE
  <1>1. s \in Nat \ {0}
    BY BallUnits
  <1>2. pos \in 0..((n - 1) * s)
    BY DEF FP_FROM_INT
  <1> HIDE DEF s
  <1>3. (n - 1) * s = (n * s) - s /\ n * s \in Int
    BY <1>1
  <1> DEFINE ns == n * s
  <1>4. pos \in Nat /\ pos < ns
    <2> HIDE DEF ns
    <2> QED
      BY <1>1, <1>2, <1>3 DEF ns
  <1>5. pos \div s \in 0..(n - 1)
    BY <1>1, <1>4, QuotientBelow
  <1> QED
    BY <1>5 DEF s

\* The largest position is a number.
LEMMA EdgeNat ==
  ASSUME Ball2Sizes
  PROVE  max_x \in Nat /\ max_y \in Nat
  <1>1. SCREEN_COLS - 1 \in Nat /\ SCREEN_ROWS - 1 \in Nat
    BY DEF Ball2Sizes
  <1> QED
    BY <1>1, BallUnits, Product DEF max_x, max_y, FP_FROM_INT

\* The inductive invariant: the ball is on the screen, and its velocities may be
\* any numbers that keep the speed.
BallInv ==
  /\ sign_x \in {1, -1} /\ sign_y \in {1, -1}
  /\ vel_x \in Int /\ vel_y \in Int
  /\ pos_x \in 0..max_x /\ pos_y \in 0..max_y
  /\ border \in [0..(BORDER_TOTAL - 1) -> Int]
  /\ SpeedKept
  /\ BorderShown

\* The ball starts in the middle, with the speed it is to keep.
LEMMA BallStarts ==
  ASSUME Ball2Sizes, BallInit
  PROVE  BallInv
  <1> DEFINE u == Scaled(FP_ONE)
  <1>1. u \in Nat /\ speed2_s = 2 * (u * u) /\ u * u \in Nat
    <2>1. u \in Nat
      BY BallUnits
    <2> QED
      BY <2>1, Product DEF speed2_s, Square
  <1>2. /\ sign_x = 1 /\ sign_y = 1
        /\ vel_x = Velocity(u, 1) /\ vel_y = Velocity(u, 1)
    BY DEF BallInit
  <1> HIDE DEF u
  <1>3. vel_x \in Int /\ vel_y \in Int /\ Scaled(vel_x) = u /\ Scaled(vel_y) = u
    BY <1>1, <1>2, ScaledVelocity
  <1>4. SpeedKept
    <2> DEFINE uu == u * u
    <2>1. Square(u) = uu /\ uu \in Nat /\ speed2_s = 2 * uu /\ max_axis_s \in Nat
      BY <1>1, MaxAxisIs DEF Square
    <2> HIDE DEF uu
    <2> QED
      BY <1>3, <2>1 DEF SpeedKept
  <1>5. pos_x \in 0..max_x /\ pos_y \in 0..max_y
    <2> DEFINE s == FP_ONE
    <2>1. s \in Nat
      BY BallUnits
    <2> HIDE DEF s
    <2>2. ASSUME NEW n \in Nat, n > 2 PROVE (n \div 2) * s \in 0..((n - 1) * s)
      <3> DEFINE h == n \div 2
                 k == n - 1
      <3>1. h \in Nat /\ k \in Nat /\ h <= k
        BY <2>2
      <3> HIDE DEF h, k
      <3>2. h * s <= k * s /\ h * s \in Nat /\ k * s \in Nat
        BY <2>1, <3>1, Times, Product
      <3> DEFINE hs == h * s
                 ks == k * s
      <3>3. hs \in Nat /\ ks \in Nat /\ hs <= ks
        BY <3>2
      <3> HIDE DEF hs, ks
      <3>4. hs \in 0..ks
        BY <3>3
      <3> QED
        BY <3>4 DEF hs, ks, h, k
    <2>3. SCREEN_COLS \in Nat /\ SCREEN_COLS > 2 /\ SCREEN_ROWS \in Nat /\ SCREEN_ROWS > 2
      BY DEF Ball2Sizes
    <2>4. pos_x = (SCREEN_COLS \div 2) * s /\ pos_y = (SCREEN_ROWS \div 2) * s
      BY DEF BallInit, FP_FROM_INT, s
    <2> QED
      BY <2>2, <2>3, <2>4 DEF max_x, max_y, FP_FROM_INT, s
  <1>6. border = [k \in 0..(BORDER_TOTAL - 1) |-> 0]
    BY DEF BallInit
  <1>7. BorderShown
    <2>1. ASSUME NEW c \in ScreenCell, border_index(c[1], c[2]) >= 0
          PROVE  border[border_index(c[1], c[2])] = 0
      BY <1>6, <2>1, BorderPlaces DEF ScreenCell
    <2> QED
      BY <2>1 DEF BallInit, BorderShown
  <1> QED
    BY <1>2, <1>3, <1>4, <1>5, <1>6, <1>7 DEF BallInv

\* The ball is drawn in its new cell, and the cell it leaves is put back.
LEMMA BallRedraw ==
  ASSUME Ball2Sizes, BallInv, Redraw,
         pos_x' \in 0..max_x, pos_y' \in 0..max_y
  PROVE  border' \in [0..(BORDER_TOTAL - 1) -> Int] /\ BorderShown'
  <1> DEFINE y == ball_y
             x == ball_x
             v == ball_y'
             u == ball_x'
             idx == border_index(y, x)
             left == IF idx >= 0 THEN border_next(border[idx]) ELSE " "
  <1>1. <<y, x>> \in ScreenCell /\ <<v, u>> \in ScreenCell
    <2>1. SCREEN_COLS \in Nat /\ SCREEN_COLS > 2 /\ SCREEN_ROWS \in Nat /\ SCREEN_ROWS > 2
      BY DEF Ball2Sizes
    <2>2. x \in 0..(SCREEN_COLS - 1) /\ y \in 0..(SCREEN_ROWS - 1)
      BY <2>1, OnScreen DEF BallInv, max_x, max_y, ball_x, ball_y
    <2>3. u \in 0..(SCREEN_COLS - 1) /\ v \in 0..(SCREEN_ROWS - 1)
      BY <2>1, OnScreen DEF max_x, max_y, ball_x, ball_y
    <2> QED
      BY <2>2, <2>3 DEF ScreenCell
  <1>2. /\ border' = IF idx >= 0 THEN [border EXCEPT ![idx] = left] ELSE border
        /\ shown' = [[shown EXCEPT ![<<y, x>>] = left] EXCEPT ![<<v, u>>] = "+"]
    BY DEF Redraw
  <1>3. shown = [c \in ScreenCell |-> IF c = <<y, x>> THEN "+"
                                      ELSE IF border_index(c[1], c[2]) >= 0
                                             THEN border[border_index(c[1], c[2])] ELSE " "]
    BY DEF BallInv, BorderShown
  <1>4. border \in [0..(BORDER_TOTAL - 1) -> Int]
    BY DEF BallInv
  <1>5. idx >= 0 => idx \in 0..(BORDER_TOTAL - 1) /\ left \in Int
    <2>1. y \in 0..(SCREEN_ROWS - 1) /\ x \in 0..(SCREEN_COLS - 1)
      BY <1>1 DEF ScreenCell
    <2>2. idx >= 0 => idx \in 0..(BORDER_TOTAL - 1)
      BY <2>1, BorderPlaces
    <2> HIDE DEF idx
    <2>3. idx >= 0 => border[idx] \in Int
      BY <1>4, <2>2
    <2> QED
      BY <2>2, <2>3 DEF border_next, Ball2Sizes
  <1> DEFINE Shown(c) == IF c = <<v, u>> THEN "+"
                         ELSE IF border_index(c[1], c[2]) >= 0
                                THEN border'[border_index(c[1], c[2])] ELSE " "
  <1>6. ASSUME NEW c \in ScreenCell PROVE shown'[c] = Shown(c)
    <2>1. c[1] \in 0..(SCREEN_ROWS - 1) /\ c[2] \in 0..(SCREEN_COLS - 1) /\ c = <<c[1], c[2]>>
      BY DEF ScreenCell
    <2> DEFINE k == border_index(c[1], c[2])
    <2>2. CASE c = <<v, u>>
      BY <1>1, <1>2, <1>3, <2>2
    <2>3. CASE c # <<v, u>> /\ c = <<y, x>>
      <3>1. shown'[c] = left /\ k = idx
        BY <1>1, <1>2, <1>3, <2>3
      <3>2. idx >= 0 => border'[idx] = left
        <4> HIDE DEF idx, left
        <4> QED
          BY <1>2, <1>4, <1>5
      <3> QED
        BY <2>3, <3>1, <3>2
    <2>4. CASE c # <<v, u>> /\ c # <<y, x>>
      <3>1. shown'[c] = shown[c]
        BY <1>1, <1>2, <1>3, <2>4
      <3>2. k >= 0 => border'[k] = border[k]
        <4>1. k >= 0 /\ idx >= 0 => k # idx
          <5>1. y \in 0..(SCREEN_ROWS - 1) /\ x \in 0..(SCREEN_COLS - 1)
            BY <1>1 DEF ScreenCell
          <5>2. k >= 0 /\ k = idx => c[1] = y /\ c[2] = x
            BY <2>1, <5>1, BorderPlaces
          <5> QED
            BY <2>1, <2>4, <5>2
        <4>2. k >= 0 => k \in 0..(BORDER_TOTAL - 1)
          BY <2>1, BorderPlaces
        <4> HIDE DEF idx, left, k
        <4> QED
          BY <1>2, <1>4, <4>1, <4>2
      <3>3. shown[c] = IF k >= 0 THEN border[k] ELSE " "
        BY <1>3, <2>4
      <3> QED
        BY <2>4, <3>1, <3>2, <3>3
    <2> QED
      BY <2>2, <2>3, <2>4
  <1>7. shown' = [c \in ScreenCell |-> Shown(c)]
    <2>1. shown' = [c \in ScreenCell |-> shown'[c]]
      BY <1>2, <1>3
    <2> HIDE DEF Shown
    <2> QED
      BY <1>6, <2>1
  <1>8. BorderShown'
    BY <1>7 DEF BorderShown
  <1>9. border' \in [0..(BORDER_TOTAL - 1) -> Int]
    <2> HIDE DEF idx, left
    <2> QED
      BY <1>2, <1>4, <1>5
  <1> QED
    BY <1>8, <1>9

\* At an edge the ball stays on the screen.
LEMMA Clamped ==
  ASSUME NEW max \in Nat, NEW next \in Int, NEW sign \in {1, -1}
  PROVE  Clamp(next, max) \in 0..max /\ Turn(next, max, sign) \in {1, -1}
  BY DEF Clamp, Turn

\* A bounce that leaves the speed within its limits keeps the invariant.
LEMMA BallBounce ==
  ASSUME Ball2Sizes, BallInv, NEW v_x \in Nat, NEW v_y \in Nat, BounceWith(v_x, v_y),
         speed2_s - (2 * max_axis_s) <= (v_x * v_x) + (v_y * v_y),
         (v_x * v_x) + (v_y * v_y) <= speed2_s
  PROVE  BallInv'
  <1>1. next_x \in Int /\ next_y \in Int /\ max_x \in Nat /\ max_y \in Nat
    BY EdgeNat DEF BallInv, next_x, next_y
  <1>2. pos_x' \in 0..max_x /\ pos_y' \in 0..max_y /\ sign_x' \in {1, -1} /\ sign_y' \in {1, -1}
    BY <1>1, Clamped DEF BallInv, BounceWith
  <1>3. /\ vel_x' \in Int /\ Scaled(vel_x') = v_x
        /\ vel_y' \in Int /\ Scaled(vel_y') = v_y
    <2>1. vel_x' = Velocity(v_x, sign_x') /\ vel_y' = Velocity(v_y, sign_y')
      BY DEF BounceWith
    <2> QED
      BY <1>2, <2>1, ScaledVelocity
  <1>4. SpeedKept'
    BY <1>3 DEF SpeedKept, Square
  <1>5. border' \in [0..(BORDER_TOTAL - 1) -> Int] /\ BorderShown'
    BY <1>2, BallRedraw DEF BounceWith
  <1> QED
    BY <1>2, <1>3, <1>4, <1>5 DEF BallInv

\* Every iteration of the loop keeps the invariant.
LEMMA BallKeeps ==
  ASSUME Ball2Sizes, BallInv, [BallNext]_ballVars
  PROVE  BallInv'
  <1>1. CASE Glide
    <2>1. next_x \in Int /\ next_y \in Int /\ max_x \in Nat /\ max_y \in Nat
      BY EdgeNat DEF BallInv, next_x, next_y
    <2>2. pos_x' \in 0..max_x /\ pos_y' \in 0..max_y
      BY <1>1, <2>1 DEF Glide, bounced_x, bounced_y
    <2>3. border' \in [0..(BORDER_TOTAL - 1) -> Int] /\ BorderShown'
      BY <1>1, <2>2, BallRedraw DEF Glide
    <2>4. UNCHANGED <<vel_x, vel_y, sign_x, sign_y>>
      BY <1>1 DEF Glide
    <2> QED
      BY <2>2, <2>3, <2>4 DEF BallInv, SpeedKept
  <1> DEFINE p == Scaled(vel_x)
             q == Scaled(vel_y)
  <1>2. /\ p \in Nat /\ q \in Nat
        /\ speed2_s - (2 * max_axis_s) <= (p * p) + (q * q)
        /\ (p * p) + (q * q) <= speed2_s
    <2>1. vel_x \in Int /\ vel_y \in Int
      BY DEF BallInv
    <2>2. p \in Nat /\ q \in Nat
      BY <2>1, ScaledNat
    <2> QED
      BY <2>2 DEF BallInv, SpeedKept, Square
  <1> HIDE DEF p, q
  <1>3. CASE BouncePlain
    BY <1>2, <1>3, BallBounce DEF BouncePlain, p, q
  <1>4. CASE BounceJitterX
    <2>1. PICK delta \in {-delta_s, delta_s} :
            BounceWith(Jittered(p, delta), OtherAxis(Jittered(p, delta)))
      BY <1>4 DEF BounceJitterX, p
    <2> DEFINE v == Jittered(p, delta)
               w == OtherAxis(v)
    <2>2. v \in 0..max_axis_s
      BY <1>2, JitteredIs
    <2> HIDE DEF v
    <2>3. v \in Nat /\ w \in Nat
          /\ speed2_s - (2 * max_axis_s) <= (v * v) + (w * w)
          /\ (v * v) + (w * w) <= speed2_s
      BY <2>2, OtherAxisIs
    <2> HIDE DEF w
    <2> QED
      BY <2>1, <2>3, BallBounce DEF v, w
  <1>5. CASE BounceJitterY
    <2>1. PICK delta \in {-delta_s, delta_s} :
            BounceWith(OtherAxis(Jittered(q, delta)), Jittered(q, delta))
      BY <1>5 DEF BounceJitterY, q
    <2> DEFINE v == Jittered(q, delta)
               w == OtherAxis(v)
               vv == v * v
               ww == w * w
    <2>2. v \in 0..max_axis_s
      BY <1>2, JitteredIs
    <2> HIDE DEF v
    <2>3. v \in Nat /\ w \in Nat
          /\ speed2_s - (2 * max_axis_s) <= vv + ww
          /\ vv + ww <= speed2_s
      BY <2>2, OtherAxisIs
    <2> HIDE DEF w
    <2>4. vv \in Nat /\ ww \in Nat
      BY <2>3
    <2>5. vv + ww = ww + vv
      <3> HIDE DEF vv, ww
      <3> QED
        BY <2>4
    <2>6. BounceWith(w, v)
      BY <2>1 DEF v, w
    <2> QED
      BY <2>3, <2>5, <2>6, BallBounce
  <1>6. CASE UNCHANGED ballVars
    BY <1>6 DEF ballVars, BallInv, SpeedKept, BorderShown, ball_x, ball_y
  <1> QED
    BY <1>1, <1>3, <1>4, <1>5, <1>6 DEF BallNext, Bounce

\* However often the jitter of ball2.c changes the angle of the ball, its speed
\* stays the one it was thrown with, but for one rounding of the square root: on
\* screens of every size, in fixed point of every precision that fits.
THEOREM BallSpeedKept == BallSpec => []SpeedKept
  <1>1. BallInit => BallInv
    BY BallStarts, Ball2Assumption
  <1>2. BallInv /\ [BallNext]_ballVars => BallInv'
    BY BallKeeps, Ball2Assumption
  <1>3. BallInv => SpeedKept
    BY DEF BallInv
  <1> QED
    BY <1>1, <1>2, <1>3, PTL DEF BallSpec

\* Between two iterations of the loop of ball2.c the screen shows the ball, the
\* border as the array has it, and blanks.
THEOREM BallBorderShown == BallSpec => []BorderShown
  <1>1. BallInit => BallInv
    BY BallStarts, Ball2Assumption
  <1>2. BallInv /\ [BallNext]_ballVars => BallInv'
    BY BallKeeps, Ball2Assumption
  <1>3. BallInv => BorderShown
    BY DEF BallInv
  <1> QED
    BY <1>1, <1>2, <1>3, PTL DEF BallSpec

=============================================================================
