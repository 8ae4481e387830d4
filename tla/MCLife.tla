------------------------------- MODULE MCLife -------------------------------
(* The three Game of Life programs, one at a time, on the same board.       *)
EXTENDS Life2x, TLC

VARIABLE program

Glider == {<<1, 0>>, <<2, 1>>, <<0, 2>>, <<1, 2>>, <<2, 2>>}
Blinker == {<<1, 0>>, <<1, 1>>, <<1, 2>>}
None == <<{}, {}, {}, {}>>

\* For life2_2x.c: a glider on its own; and one over the last corner, where it is
\* written past the board, with a blinker at each edge.
MCSeeds ==
  {[blocks |-> <<1, 1>> :> Glider, off |-> <<0, 0>>, edge |-> <<3, 3>>, edge_kept |-> None],
   [blocks |-> <<3, 3>> :> Glider, off |-> <<2, 2>>, edge |-> <<3, 0>>,
    edge_kept |-> <<Blinker, Blinker, Blinker, Blinker>>]}

At(cells, x, y) == {<<c[1] + x, c[2] + y>> : c \in cells}

\* For life.c and life2.c, in blocks of one cell: gliders that cross every edge of
\* tiles and words, alone and with something standing in another word of the row.
MCSeeds2 ==
  {[picks |-> At(Glider, x, 2), edge |-> <<8, 6>>] : x \in {3, 8}}
    \cup {[picks |-> At(Glider, 1, 2) \cup At(Blinker, x, 3), edge |-> <<10, 3>>] : x \in 7..9}
    \cup {[picks |-> {<<4, 4>>}, edge |-> <<x, 4>>] : x \in 0..3}

Two == INSTANCE Life2 WITH Seeds <- MCSeeds2, SeedBlock <- 1

ASSUME Two!SeedsFit

\* life.c and life2.c have no overlay and no keys.
NoOverlay ==
  /\ color = [t \in Tile |-> "normal"] /\ dirty_prev = {}
  /\ debug_dirty_enabled = FALSE /\ debug_snapshot_pending = FALSE
  /\ debug_key_prev = "other"

LifeInit ==
  \/ program = "life2_2x" /\ Init
  \/ Two!Init /\ NoOverlay

LifeNext ==
  \/ program = "life2_2x" /\ Next /\ UNCHANGED program
  \/ program # "life2_2x" /\ Two!Next /\ UNCHANGED <<overlay, debug_key_prev>>

LifeSpec == LifeInit /\ [][LifeNext]_<<vars, program>>

=============================================================================
