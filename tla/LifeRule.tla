------------------------------ MODULE LifeRule ------------------------------
(***************************************************************************)
(* What a Game of Life cartridge promises: generations of Conway's rule on *)
(* a torus, each shown before the next is computed.  The player may start  *)
(* over with a new board, which is shown like any other.                   *)
(***************************************************************************)
EXTENDS Integers

CONSTANTS Width, Height

VARIABLES
  board,  \* the live cells
  shown,  \* the cells lit on the screen
  phase   \* "step": a generation is due; "draw": it is to be shown

Cell == (0..(Width - 1)) \X (0..(Height - 1))

\* The row or column before and after, on a torus of n.
Prev(k, n) == IF k = 0 THEN n - 1 ELSE k - 1
Succ(k, n) == IF k + 1 = n THEN 0 ELSE k + 1

Bit(b, x, y) == IF <<x, y>> \in b THEN 1 ELSE 0

Neighbours(b, x, y) ==
  LET l == Prev(x, Width)  r == Succ(x, Width)
      u == Prev(y, Height) d == Succ(y, Height)
  IN Bit(b, l, u) + Bit(b, x, u) + Bit(b, r, u) + Bit(b, l, y) + Bit(b, r, y)
       + Bit(b, l, d) + Bit(b, x, d) + Bit(b, r, d)

Survives(b, x, y) ==
  \/ Neighbours(b, x, y) = 3
  \/ Neighbours(b, x, y) = 2 /\ <<x, y>> \in b

NextBoard(b) == {c \in Cell : Survives(b, c[1], c[2])}

vars == <<board, shown, phase>>

Init ==
  /\ board \in SUBSET Cell
  /\ shown = board
  /\ phase = "step"

Generation ==
  /\ phase = "step"
  /\ board' = NextBoard(board)
  /\ phase' = "draw"
  /\ UNCHANGED shown

Reseed ==
  /\ phase = "draw"
  /\ board' \in SUBSET Cell
  /\ UNCHANGED <<shown, phase>>

Display ==
  /\ phase = "draw"
  /\ shown' = board
  /\ phase' = "step"
  /\ UNCHANGED board

Next == Generation \/ Reseed \/ Display

Spec == Init /\ [][Next]_vars

=============================================================================
