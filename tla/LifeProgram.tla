---------------------------- MODULE LifeProgram -----------------------------
(***************************************************************************)
(* What the Game of Life programs life.c, life2.c and life2_2x.c have in   *)
(* common: the two boards used in turn, the tile maps and the screen, and  *)
(* what they promise of them.                                              *)
(***************************************************************************)
EXTENDS LifeBoard

VARIABLES
  boards,                     \* board_a and board_b
  cur,                        \* which of them cur points to
  active_tiles, dirty_tiles,
  screen,                     \* the pattern table
  pc                          \* the stage of the loop in main

Board == {"a", "b"}
Other(b) == IF b = "a" THEN "b" ELSE "a"

-----------------------------------------------------------------------------
(* Properties                                                              *)

\* A program shows Conway's generations, although step_board leaves out words or
\* rows of tiles, life2.c reuses a window across them, only what is dirty is
\* drawn, and in life2_2x.c a reseed comes between the two.
Rule == INSTANCE LifeRule WITH
          board <- boards[cur] \cap Cell,
          shown <- screen \cap Cell,
          phase <- IF pc = "step" THEN "step" ELSE "draw"
ImplementsLifeRule == Rule!Spec

\* When step_board and build_active_from_live use the map, it holds the tiles
\* around the live cells and no others, although step_board builds it from the
\* words it computes only, and whatever a reseed of life2_2x.c wrote past the board.
ActiveIsNeighbourhood ==
  pc # "reseed" => active_tiles = ActiveFrom(TilesOf(boards[cur] \cap Cell))

=============================================================================
