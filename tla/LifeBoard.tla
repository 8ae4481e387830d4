----------------------------- MODULE LifeBoard ------------------------------
(***************************************************************************)
(* What the Game of Life programs share: a board of cells packed into      *)
(* words, the tiles it is divided into, and the bit-parallel rule.  A      *)
(* board is the set of its live cells.  A word is named by its index in    *)
(* the row, a bit by its lane, counted from the most significant; each     *)
(* word operation of the code acts on all lanes alike and is written here  *)
(* for one of them.                                                        *)
(***************************************************************************)
EXTENDS Integers

CONSTANTS
  TilesW, TilesH,  \* tiles across and down
  TileSize,        \* cells along the side of a tile
  WordTiles        \* tiles side by side in a word

ASSUME LifeSizes ==
  /\ TilesW \in Nat /\ TilesH \in Nat /\ TileSize \in Nat /\ WordTiles \in Nat
  /\ TilesH > 0 /\ TileSize > 0 /\ WordTiles > 0
  /\ TilesW % WordTiles = 0 /\ TilesW > WordTiles

Width == TilesW * TileSize
Height == TilesH * TileSize
Lanes == WordTiles * TileSize
Words == TilesW \div WordTiles

Column == 0..(Width - 1)
Row == 0..(Height - 1)
Cell == Column \X Row
Tile == (0..(TilesW - 1)) \X (0..(TilesH - 1))

-----------------------------------------------------------------------------
(* Rows, words and lanes                                                   *)

\* x_prev, y_prev, x_next, y_next: the neighbour on a ring of n.
Prev(k, n) == IF k = 0 THEN n - 1 ELSE k - 1
Succ(k, n) == IF k + 1 = n THEN 0 ELSE k + 1

Bit(b, x, y) == IF <<x, y>> \in b THEN 1 ELSE 0

\* Lane i of word w of row y.
WordBit(b, y, w, i) == Bit(b, (w * Lanes) + i, y)

\* (C >> 1) | (L << 15) and (C << 1) | (R >> 15), for the words L, C and R of
\* a window.
FromLeft(b, y, win, i) ==
  IF i = 0 THEN WordBit(b, y, win[1], Lanes - 1) ELSE WordBit(b, y, win[2], i - 1)
FromRight(b, y, win, i) ==
  IF i = Lanes - 1 THEN WordBit(b, y, win[3], 0) ELSE WordBit(b, y, win[2], i + 1)

-----------------------------------------------------------------------------
(* The rule                                                                *)

Xor(p, q) == IF p = q THEN 0 ELSE 1
And(p, q) == IF p = 1 /\ q = 1 THEN 1 ELSE 0
Or(p, q) == IF p = 0 /\ q = 0 THEN 0 ELSE 1
Not(p) == 1 - p

Sum(p, q, r) == Xor(Xor(p, q), r)
Carry(p, q, r) == Or(Or(And(p, q), And(p, r)), And(q, r))

\* The neighbours counted by a tree of carry-save adders: bits 0 to 3.
CountBits(uL, uC, uR, mL, mR, dL, dC, dR) ==
  LET sum1 == Sum(uL, uC, uR)   carry1 == Carry(uL, uC, uR)
      sum2 == Sum(mL, mR, dL)   carry2 == Carry(mL, mR, dL)
      sum3 == Xor(dC, dR)       carry3 == And(dC, dR)
      sum4 == Sum(sum1, sum2, sum3)
      carry4 == Carry(sum1, sum2, sum3)
      t_sum == Sum(carry1, carry2, carry3)
      t_carry == Carry(carry1, carry2, carry3)
      c1 == And(t_sum, carry4)
  IN <<sum4, Xor(t_sum, carry4), Xor(t_carry, c1), And(t_carry, c1)>>

\* The rule on the count, as life.c has it and as life2.c simplifies it.
OriginalRule(n, mC) ==
  LET n2 == And(And(Not(n[1]), n[2]), And(Not(n[3]), Not(n[4])))
      n3 == And(And(n[1], n[2]), And(Not(n[3]), Not(n[4])))
  IN Or(n3, And(n2, mC))
SimplifiedRule(n, mC) == And(And(n[2], Not(n[3])), And(Not(n[4]), Or(n[1], mC)))

\* The count at lane i of a window of words of row y and the rows around it.
WindowCount(b, y, win, i) ==
  LET u == Prev(y, Height)
      d == Succ(y, Height)
  IN CountBits(FromLeft(b, u, win, i), WordBit(b, u, win[2], i), FromRight(b, u, win, i),
               FromLeft(b, y, win, i), FromRight(b, y, win, i),
               FromLeft(b, d, win, i), WordBit(b, d, win[2], i), FromRight(b, d, win, i))

-----------------------------------------------------------------------------
(* Tiles                                                                   *)

TileOf(c) == <<c[1] \div TileSize, c[2] \div TileSize>>

\* The tiles with a live cell.
TilesOf(b) == {TileOf(c) : c \in b}

\* Mutant: the tiles below are forgotten.
AroundNotBelow(t) ==
  {Prev(t[1], TilesW), t[1], Succ(t[1], TilesW)} \X {Prev(t[2], TilesH), t[2]}

\* A tile and the eight around it.
Around(t) ==
  {Prev(t[1], TilesW), t[1], Succ(t[1], TilesW)}
    \X {Prev(t[2], TilesH), t[2], Succ(t[2], TilesH)}

\* The tiles where a cell can be alive in the next generation.
ActiveFrom(tiles) == UNION {Around(t) : t \in tiles}

\* The cells that differ.
Changed(b, c) == (b \ c) \cup (c \ b)

=============================================================================
