------------------------------- MODULE Life2x -------------------------------
(***************************************************************************)
(* The Game of Life of life2_2x.c: two boards used in turn, tile maps that *)
(* let the step skip rows of tiles and the drawing skip what has not       *)
(* changed, reseeding from the keyboard, and a colour overlay that traces  *)
(* the dirty tiles.  One action is one stage of the frame loop in main.    *)
(*                                                                         *)
(* A cell of the screen stands for the 2 x 2 pixels that expand4 makes of  *)
(* it.  The random numbers are any numbers: the key that reseeds mixes the *)
(* frame counter into the generator.                                       *)
(***************************************************************************)
EXTENDS LifeProgram

CONSTANTS
  SeedBlock,  \* LIFE_SEED_BLOCK_SIZE
  Seeds       \* the outcomes of seed_board's random choices that are considered

Block == (0..(SeedBlock - 1)) \X (0..(SeedBlock - 1))

\* Of an outcome s, s.off is the offset of the grid of blocks, s.blocks maps each
\* block picked to the cells the dropout leaves of it, s.edge is where the four
\* blocks at the edges go and s.edge_kept what is left of them.
ASSUME SeedAssumption ==
  /\ SeedBlock \in Nat \ {0}
  /\ \A s \in Seeds :
       /\ s.off \in Block
       /\ \A p \in DOMAIN s.blocks :
            /\ p \in Nat \X Nat /\ s.blocks[p] \subseteq Block
            /\ p[1] * SeedBlock < Width /\ p[2] * SeedBlock < Height
       /\ s.edge \in Cell /\ s.edge[1] % SeedBlock = 0 /\ s.edge[2] % SeedBlock = 0
       /\ \A e \in 1..4 : s.edge_kept[e] \subseteq Block

VARIABLES
  color,                   \* the colour table, by tile
  dirty_prev,              \* the tiles the overlay has coloured
  debug_dirty_enabled, debug_snapshot_pending, debug_key_prev

overlay == <<color, dirty_prev, debug_dirty_enabled, debug_snapshot_pending>>
vars == <<boards, cur, active_tiles, dirty_tiles, screen, overlay, debug_key_prev, pc>>

-----------------------------------------------------------------------------
(* Seeding                                                                 *)

\* seed_block: the cells set for a block at <<x0, y0>>, those kept.
seed_block(x0, y0, kept) == {<<x0 + k[1], y0 + k[2]>> : k \in kept}

\* The cells seed_board sets.  The offset moves the grid of blocks; a block in
\* the last column or row then reaches past the board's edge, for the wrap of
\* x_pos and y_pos is never needed.
seed_cells(s) ==
  LET At(k, o, n) == LET p == (k * SeedBlock) + o IN IF p >= n THEN p - n ELSE p
      PickedBlock(p) == seed_block(At(p[1], s.off[1], Width), At(p[2], s.off[2], Height),
                                   s.blocks[p])
  IN (UNION {PickedBlock(p) : p \in DOMAIN s.blocks})
       \cup seed_block(0, s.edge[2], s.edge_kept[1])
       \cup seed_block(Width - SeedBlock, s.edge[2], s.edge_kept[2])
       \cup seed_block(s.edge[1], 0, s.edge_kept[3])
       \cup seed_block(s.edge[1], Height - SeedBlock, s.edge_kept[4])

\* set_cell past the end of a row sets a cell of the next row.
Place(c) == <<c[1] % Width, c[2] + (c[1] \div Width)>>

Inside(cells) == {Place(c) : c \in cells} \cap Cell
\* Rows past the last one belong to what is linked after the board.
Spill(cells) ==
  {<<c[1], c[2] - Height>> : c \in {d \in {Place(e) : e \in cells} : d[2] >= Height}}

\* A byte holds the cells of two tiles, and a byte of active_tiles one tile.
SpillTile(c) ==
  LET k == (c[2] * (TilesW \div 2)) + (c[1] \div (2 * TileSize))
  IN <<k % TilesW, k \div TilesW>>

\* seed_board(b): clears b and sets the cells.  In the order of declaration
\* board_b follows board_a and active_tiles follows board_b.
seed_board(b, cells) ==
  /\ boards' = IF b = "a" THEN [a |-> Inside(cells), b |-> boards["b"] \cup Spill(cells)]
                          ELSE [boards EXCEPT !["b"] = Inside(cells)]
  /\ active_tiles' = active_tiles \cup IF b = "a" THEN {}
                                       ELSE {SpillTile(c) : c \in Spill(cells)}

-----------------------------------------------------------------------------
(* The generation                                                          *)

\* The words a row slides through: word 0 and the last one wrap around.
Window(w) == <<Prev(w, Words), w, Succ(w, Words)>>

NextCell(b, x, y) ==
  LET w == x \div Lanes
      i == x % Lanes
  IN SimplifiedRule(WindowCount(b, y, Window(w), i), WordBit(b, y, w, i))

\* Whether a row of tiles is computed at all.
RowActive(active, ty) == \E t \in active : t[2] = ty

\* The rows left out stay as clear_board left them.
step_board(src, active) ==
  {c \in Cell : RowActive(active, c[2] \div TileSize) /\ NextCell(src, c[1], c[2]) = 1}

\* main: the seeded board is drawn in full before the display is turned on.
Init ==
  \E s \in Seeds :
    /\ boards = [a |-> Inside(seed_cells(s)), b |-> Spill(seed_cells(s))]
    /\ cur = "a"
    /\ active_tiles = ActiveFrom(TilesOf(Inside(seed_cells(s))))
    /\ dirty_tiles = Tile
    /\ screen = Inside(seed_cells(s))
    /\ color = [t \in Tile |-> "normal"]
    /\ dirty_prev = {}
    /\ debug_dirty_enabled = FALSE
    /\ debug_snapshot_pending = FALSE
    /\ debug_key_prev = "other"
    /\ pc = "step"

Dirty(src, dst) == TilesOf(Changed(src, dst))

\* The boards swap, then step_board: the new generation, its dirty tiles, and
\* the tiles active in the next one.
StepBoard ==
  /\ pc = "step"
  /\ cur' = Other(cur)
  /\ boards' = [boards EXCEPT ![Other(cur)] = step_board(boards[cur], active_tiles)]
  /\ dirty_tiles' = Dirty(boards[cur], boards'[cur'])
  /\ active_tiles' = ActiveFrom(TilesOf(boards'[cur']))
  /\ pc' = "key"
  /\ UNCHANGED <<screen, overlay, debug_key_prev>>

-----------------------------------------------------------------------------
(* The keyboard                                                            *)

\* The key codes that toggle the overlay, take a snapshot and reseed.  R and Z
\* stand for the twelve codes of R and the density keys: all that matters of a
\* code is what it does and whether it is the one scanned before.
DirtyKeys == {"D", "d"}
SnapshotKeys == {"F", "f"}
SeedKeys == {"R", "Z"}

\* "other": no key, a digit, which only feeds the random numbers, or any key that
\* does nothing.
Key == {"other"} \cup DirtyKeys \cup SnapshotKeys \cup SeedKeys

\* A key counts when its code differs from the last one.
Pressed(key) == key # debug_key_prev

KeyIgnored(key) ==
  /\ pc = "key"
  /\ ~Pressed(key) \/ key = "other"
  /\ debug_key_prev' = key
  /\ pc' = "overlay"
  /\ UNCHANGED <<boards, cur, active_tiles, dirty_tiles, screen, overlay>>

\* vdp_debug_dirty_clear: the tiles the overlay has coloured go back.
\* Mutant: they are forgotten but keep their colour.
ClearedColorKept == color
ClearedColor == [t \in Tile |-> IF t \in dirty_prev THEN "normal" ELSE color[t]]

KeyDirty(key) ==
  /\ pc = "key"
  /\ Pressed(key)
  /\ debug_key_prev' = key
  /\ debug_dirty_enabled' = ~debug_dirty_enabled
  /\ IF debug_dirty_enabled
       THEN color' = ClearedColor /\ dirty_prev' = {}
       ELSE UNCHANGED <<color, dirty_prev>>
  /\ pc' = "overlay"
  /\ UNCHANGED <<boards, cur, active_tiles, dirty_tiles, screen, debug_snapshot_pending>>

KeySnapshot(key) ==
  /\ pc = "key"
  /\ Pressed(key)
  /\ debug_key_prev' = key
  /\ color' = [t \in Tile |-> IF t \in dirty_tiles THEN color[t] ELSE "clean"]
  /\ debug_snapshot_pending' = TRUE
  /\ pc' = "overlay"
  /\ UNCHANGED <<boards, cur, active_tiles, dirty_tiles, screen, dirty_prev, debug_dirty_enabled>>

KeySeed(key) ==
  /\ pc = "key"
  /\ Pressed(key)
  /\ debug_key_prev' = key
  /\ \E s \in Seeds : seed_board(cur, seed_cells(s))
  /\ pc' = "reseed"
  /\ UNCHANGED <<cur, dirty_tiles, screen, overlay>>

\* The rest of reseed_board: build_active_tiles and mark_all_dirty.
\* Mutant: the tile map is not rebuilt.
ReseedStale ==
  /\ pc = "reseed"
  /\ dirty_tiles' = Tile
  /\ pc' = "overlay"
  /\ UNCHANGED <<boards, cur, active_tiles, screen, overlay, debug_key_prev>>

Reseed ==
  /\ pc = "reseed"
  /\ active_tiles' = ActiveFrom(TilesOf(boards[cur]))
  /\ dirty_tiles' = Tile
  /\ pc' = "overlay"
  /\ UNCHANGED <<boards, cur, screen, overlay, debug_key_prev>>

-----------------------------------------------------------------------------
(* Drawing                                                                 *)

\* vdp_debug_dirty_update: only tiles whose state changed are recoloured.
UpdatedColor ==
  [t \in Tile |-> IF t \in dirty_tiles \ dirty_prev THEN "dirty"
                  ELSE IF t \in dirty_prev \ dirty_tiles THEN "normal"
                  ELSE color[t]]

\* The overlay is brought up to date if it is on, and then a snapshot that is
\* pending is cleared, all tiles at once.
Overlay ==
  /\ pc = "overlay"
  /\ dirty_prev' = IF debug_dirty_enabled THEN dirty_tiles ELSE dirty_prev
  /\ color' = IF debug_snapshot_pending THEN [t \in Tile |-> "normal"]
              ELSE IF debug_dirty_enabled THEN UpdatedColor
              ELSE color
  /\ debug_snapshot_pending' = FALSE
  /\ pc' = "draw"
  /\ UNCHANGED <<boards, cur, active_tiles, dirty_tiles, screen, debug_dirty_enabled, debug_key_prev>>

\* vdp_write_dirty_patterns: a row of tiles with a dirty one is streamed whole.
Draw ==
  /\ pc = "draw"
  /\ LET stale == {c \in Cell : \E t \in dirty_tiles : t[2] = c[2] \div TileSize}
     IN screen' = (screen \ stale) \cup (boards[cur] \cap stale)
  /\ pc' = "step"
  /\ UNCHANGED <<boards, cur, active_tiles, dirty_tiles, overlay, debug_key_prev>>

Next ==
  \/ StepBoard
  \/ \E key \in Key : KeyIgnored(key)
  \/ \E key \in DirtyKeys : KeyDirty(key)
  \/ \E key \in SnapshotKeys : KeySnapshot(key)
  \/ \E key \in SeedKeys : KeySeed(key)
  \/ Reseed \/ Overlay \/ Draw

Spec == Init /\ [][Next]_vars

-----------------------------------------------------------------------------
(* Properties                                                              *)

Stages == {"step", "key", "reseed", "overlay", "draw"}

TypeOK ==
  /\ boards \in [Board -> SUBSET Cell]
  /\ cur \in Board
  /\ dirty_tiles \subseteq Tile
  /\ screen \subseteq Cell
  /\ color \in [Tile -> {"normal", "dirty", "clean"}]
  /\ dirty_prev \subseteq Tile
  /\ debug_dirty_enabled \in BOOLEAN /\ debug_snapshot_pending \in BOOLEAN
  /\ pc \in Stages

\* At the end of a frame every tile that is not in its normal colour is one the
\* overlay remembers, and it remembers none when it is off: turning it off
\* leaves no colour behind, with whatever snapshots and reseeds came between.
OverlayCanBeCleared ==
  pc = "step" =>
    /\ {t \in Tile : color[t] # "normal"} \subseteq dirty_prev
    /\ ~debug_dirty_enabled => dirty_prev = {}

=============================================================================
