------------------------------- MODULE Life2 --------------------------------
(***************************************************************************)
(* The Game of Life of life.c and of its faster version life2.c: a region  *)
(* inside a border, words of which both tiles are inactive left out, and   *)
(* in life2.c a window of words that slides along the row and is loaded    *)
(* again after a gap.  Only the tiles that changed are drawn.              *)
(*                                                                         *)
(* Cells are counted from the corner of the region; the border is the ring *)
(* of cells around it, drawn into one of the two boards only.              *)
(***************************************************************************)
EXTENDS LifeProgram

CONSTANTS
  SeedBlock,  \* LIFE_SEED_BLOCK_SIZE
  Seeds       \* the outcomes of seed_board's random choices that are considered

\* Blocks fit into the region.  Of an outcome s, s.picks are the blocks picked
\* and s.edge is where the four blocks at the edges go.
SeedsFit ==
  /\ SeedBlock \in Nat \ {0}
  /\ Width % SeedBlock = 0 /\ Height % SeedBlock = 0
  /\ \A s \in Seeds :
       \A c \in s.picks \cup {s.edge} :
         /\ c \in Cell
         /\ c[1] % SeedBlock = 0 /\ c[2] % SeedBlock = 0

VARIABLE program  \* "life" or "life2"; pc is "step" or "draw"

vars == <<program, boards, cur, active_tiles, dirty_tiles, screen, pc>>

-----------------------------------------------------------------------------
(* Seeding                                                                 *)

draw_border ==
  {c \in (-1..Width) \X (-1..Height) : c[1] \in {-1, Width} \/ c[2] \in {-1, Height}}

seed_block(x0, y0) == (x0..(x0 + SeedBlock - 1)) \X (y0..(y0 + SeedBlock - 1))

\* Into a region that is clear.
seed_board(s) ==
  (UNION {seed_block(c[1], c[2]) : c \in s.picks})
    \cup seed_block(0, s.edge[2])
    \cup seed_block(Width - SeedBlock, s.edge[2])
    \cup seed_block(s.edge[1], 0)
    \cup seed_block(s.edge[1], Height - SeedBlock)
    \cup draw_border

\* main: seeded, and drawn in full with the border.
Init ==
  \E s \in Seeds :
    /\ program \in {"life", "life2"}
    /\ boards = [a |-> seed_board(s), b |-> {}]
    /\ cur = "a"
    /\ active_tiles = ActiveFrom(TilesOf(seed_board(s) \cap Cell))
    /\ dirty_tiles = {}
    /\ screen = seed_board(s)
    /\ pc = "step"

-----------------------------------------------------------------------------
(* The generation                                                          *)

\* Both tiles of word w of a row of tiles are inactive.
Skipped(w, ty) == \A k \in 0..(WordTiles - 1) : <<(w * WordTiles) + k, ty>> \notin active_tiles

\* The window and need_reload once a word has been left out.
\* Mutant: the window is thought to be current.
AfterGapCurrent(s) == s
AfterGap(s) == [s EXCEPT !.need_reload = TRUE]

Loaded(w) == <<Prev(w, Words), w, Succ(w, Words)>>

\* One word of a row of tiles: left out, or computed from a window, which life.c
\* loads each time and life2.c slides along unless it has to load it again.
Slide(s, w, ty) ==
  IF Skipped(w, ty) THEN AfterGap(s)
  ELSE LET win == IF s.need_reload \/ program = "life"
                    THEN Loaded(w)
                    ELSE <<s.win[2], s.win[3], Succ(w, Words)>>
       IN [win |-> win, need_reload |-> FALSE, used |-> s.used \cup {<<w, win>>}]

\* The words computed in a row of tiles, each with its window.
Windows(ty) ==
  LET slid[k \in 0..Words] ==
        IF k = 0 THEN [win |-> Loaded(0), need_reload |-> TRUE, used |-> {}]
        ELSE Slide(slid[k - 1], k - 1, ty)
  IN slid[Words].used

LifeNext(n, mC) == IF program = "life" THEN OriginalRule(n, mC) ELSE SimplifiedRule(n, mC)

\* The cells alive in row y of the next generation.
NextRow(src, y) ==
  LET Alive(win, i) ==
        LifeNext(WindowCount(src, y, win, i), WordBit(src, y, win[2], i)) = 1
      lanes == Windows(y \div TileSize) \X (0..(Lanes - 1))
  IN {<<(l[1][1] * Lanes) + l[2], y>> : l \in {m \in lanes : Alive(m[1][2], m[2])}}

\* clear_board_region, then the words computed.
step_board(src) == UNION {NextRow(src, y) : y \in Row}

Dirty(src, dst) == TilesOf(Changed(src, dst))

\* The boards swap, then step_board.  Tiles are marked only where words are
\* computed; the border of the board written to stays.
StepBoard ==
  /\ pc = "step"
  /\ cur' = Other(cur)
  /\ LET computed == {c \in Cell : ~Skipped(c[1] \div Lanes, c[2] \div TileSize)}
         dst == step_board(boards[cur])
     IN /\ boards' = [boards EXCEPT ![Other(cur)] = (@ \ Cell) \cup dst]
        /\ dirty_tiles' = Dirty(boards[cur] \cap computed, dst)
        /\ active_tiles' = ActiveFrom(TilesOf(dst))
  /\ pc' = "draw"
  /\ UNCHANGED <<program, screen>>

-----------------------------------------------------------------------------
(* Drawing                                                                 *)

\* The cells of the tiles that vdp_write_dirty_patterns writes.  The region begins
\* and ends at a multiple of TileSize, so that no tile of it holds border cells.
Drawn == {c \in Cell : TileOf(c) \in dirty_tiles}

Draw ==
  /\ pc = "draw"
  /\ screen' = (screen \ Drawn) \cup (boards[cur] \cap Drawn)
  /\ pc' = "step"
  /\ UNCHANGED <<program, boards, cur, active_tiles, dirty_tiles>>

Next == StepBoard \/ Draw

Spec == Init /\ [][Next]_vars

=============================================================================
