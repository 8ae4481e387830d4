# A TLA+ verification of llvm-tms9900

The repository is a toolchain for the TMS9900, a 16-bit processor of 1976: an
LLVM backend, a run-time library in assembly and C, a FreeRTOS port with two
demos, TI-99/4A cartridge examples and a benchmark suite.  The backend and the
FreeRTOS kernel are submodules and not part of this tree, so the logic that can
be verified here is the code around them: the concurrent FreeRTOS demo, the
hand-written arithmetic and memory routines, the allocators, and the cartridge
programs.

Everything below is about the sources under `src/`; `PROJECT.json` maps every
definition that models code to the lines it models.

## 1. Inventory

| Component | State it keeps | Operations | What makes it correct |
|---|---|---|---|
| Queue + event-group demo, `FreeRTOS/main_queue.c` | queue, event bits, four markers in memory, the tasks' places | the loops of `vWorkerTask` and `vManagerTask`, one step per kernel call | each round every worker completes exactly one item; markers follow ROUNDS; nobody starves; no time-out ever fires |
| LFSR, same file | `lfsr_state` | `lfsr_next`, `random_ticks` | maximal period, never zero, 1 to 6 ticks (not modelled; the demo's models take any tick count of a set) |
| 32-bit division, `builtins/div32.S` | registers R0–R9 | `__udivsi3`, `__umodsi3`, `__divsi3`, `__modsi3` | C's quotient and remainder for all operands |
| `memcpy.S`, `memmove.S`, `memset.S` | pointers, counts, memory | one routine each | right bytes, overlap-safe, no write outside the block |
| Bump allocator, `builtins/malloc.c` | `heap_ptr` | `malloc`, `free` | blocks inside the heap and disjoint |
| heap_4-style allocator, `tests/benchmarks/heap4.c` | block headers, free list, free-byte count | `heap_malloc`, `heap_free` | blocks tile the heap, list sorted and coalesced, count exact |
| Legacy run-time, `runtime/tms9900_rt.asm` | registers, static scratch words | the 32-bit helpers | as div32; it is not, see 3.4 |
| 64-bit division, `builtins/i64/` | words of quotient and remainder, bit count | `__udivmoddi4` and its four callers | C's quotient and remainder; no shift by a full word |
| `mul32.S`, `shift32.S`, `muldi3.c` | none | pure functions | reference arithmetic |
| Start-up: `FreeRTOS/startup.S`, `cart_example/crt0.s`, `startup/startup.asm` | pointers | copy and clear loops | every word of the section, and the loop ends |
| Two-task demo `FreeRTOS/main.c` | two counters | two busy loops | both advance |
| Game of Life, `life.c`, `life2.c`, `life2_2x.c` | two boards, tile maps, pattern and colour tables, key and overlay flags | seed, generation, keys, overlay, draw | the screen shows Conway's generations although most of the work is skipped; the overlay leaves nothing behind |
| Bouncing ball, `ball2.c` | position, velocity and sign per axis, border characters, screen | one iteration of `run_ball` | keeps its speed and goes on; puts back what it covers |
| `ball.c`, `banner.c`, `vdp.S` | positions, screen | per-frame update | video output, not modelled |
| Soft float, small libm, picolibc | – | – | vendored or floating point, not modelled |
| `llvm2xas99.py`, test drivers, benchmarks | – | – | text processing and test programs, not modelled |

How they interact: the demo calls the kernel (queue, event group, delay) and is
preempted by the tick; the compiler calls the division and memory helpers from
any C code, the demo's `% 6` included; programs fill with `memset` the blocks
`malloc` gives them.  The Life programs pass tile maps from one generation to the
next and from the generation to the drawing, and the keyboard comes between.

What is hard here: the interleavings of four tasks through two kernel objects;
time-outs that the code does not expect (see 3.2); carries, wrap-around and odd
addresses in the assembly; the operand order of the compare instruction, about
which the files disagree; long sequences of allocations; cached windows, tile
maps and dirty marks that must not be stale when they are used.  `PROJECT.json`,
"hazards", lists each at its line.

## 2. Modules

```
RoundCount            what the demo promises (abstract)
  ^ implemented by
Rendezvous            the demo, blocking calls without limit, any schedule
  ^ implemented by
RendezvousTimed       tick, priorities, FIFO wake-up, finite time-outs
                                           -- RendezvousProofs  theorems on both

Tms9900               words, pairs, compare and carry (external)
  +- Div32            the division helpers -- Div32Proofs     theorems
  +- LegacyDiv        unsigned division of the older run-time
  +- MemCopy          memcpy and memmove   -- MemCopyProofs   theorems
  +- Memset ------\
                   +- HeapFill   a program that allocates and fills
BumpMalloc -------/                        -- HeapFillProofs  theorems
DivMod64              64-bit division      -- DivMod64Proofs  theorems

Allocator             what malloc promises (abstract)
  ^ implemented by Heap4 and by BumpMalloc
Heap4                 the heap_4-style allocator -- Heap4Proofs  theorems
PartialMap            functions whose domain changes

LifeRule              Conway's generations, each shown (abstract)
  ^ implemented by Life2x and by Life2
LifeBoard             words, lanes, tiles and the bit-parallel rule
  +- LifeProgram      the state the three programs share, and what they promise
       +- Life2x      life2_2x.c           \
       +- Life2       life.c and life2.c    +- CartridgeProofs  theorems
Ball2                 ball2.c              /

Powers                powers of two, for shifts and widths (Div32, DivMod64, Ball2)
Arithmetic            induction, recursion, division and powers, for the proofs
```

`MC*.tla` hold the definitions TLC needs, `MC*.cfg` the instances.  Operators
marked *mutant* are wrong variants of a neighbouring definition, used to check
that a property would notice the bug; no specification refers to them.

### 2.1 Rendezvous

`pc` records each task's place between kernel calls; the labels are explained at
the head of the module.  One action is one outcome of one kernel call together
with the code up to the next call: `Receive` / `ReceiveBlocks` (`xQueueReceive`),
`DelayElapsed` (return from `vTaskDelay`), `RecordCompletion` (the marker's
increment), `WorkerSync` and `ManagerSync` (`xEventGroupSync`), `Send` /
`SendBlocks` (`xQueueSend`), `CountRound`.  The kernel calls are atomic, as they
are in FreeRTOS (critical section or suspended scheduler).  `QueueSend` wakes one
of the blocked receivers, which then *retries*: another worker may take the item
first, exactly the race that makes `NoLostWakeup` worth stating.  A marker's
increment is a read-modify-write of a word only one task writes, hence one step.

### 2.2 RendezvousTimed

Conjoins each action of Rendezvous with scheduling and time.  `Running(t)`: a
worker runs only while the manager (priority 2) is blocked.  `timer[t]` is the
delay or time-out in progress; a woken sleeper that has to wait again continues
the same time-out, as `xTaskCheckForTimeOut` does.  `waiting` is the queue's event
list.  `Tick` ends delays and time-outs.  `MaxLag` bounds how many ticks may pass
before a ready task takes its next step; the demo is run with 50000 cycles to a
tick, and a step takes a few hundred.

### 2.3 Tms9900, Div32, LegacyDiv, MemCopy, Memset

A word is a number below `WordMod = 2 * SignBit`; a carry or borrow is computed
where the code tests it.  The compare instruction is a parameter: `DestFirst =
TRUE` is the documented reading (`KNOWN_PROBLEMS.md:20` and `:119`, `div32.S:224`:
the flags are those of destination minus source), `FALSE` the one `memmove.S:27` and
`startup.S` are written for.  All runs use the documented one, as one assembler
translates all files; the properties of `memcopy` hold under both, `OverlapSafe`
under the other one only.  In Div32 the call
is fixed by the initial state, `fn`, `n` and `d` remember it, and each round of the
loop is a step.  In MemCopy memory holds tags: byte `a` starts as `a`, so the final
contents say where each byte came from.  Registers that are dead at `.Ldone` (the
scratch uses of R0, pointers on an early exit) keep whatever is convenient.
LegacyDiv has the two unsigned routines, a round of the loop a step.

### 2.4 Heap4, BumpMalloc, HeapFill, Allocator

`Heap4!hdr` maps the address of each block to its `BlockLink_t`; absorbed headers
leave the map, so that a read of one would be an error of the evaluation.  The
two walks (first fit, insertion point) are one step per iteration.  `live` is what
the caller holds, a pointer and the size it asked for; it is the only variable of
`Allocator`.  `heap_free(NULL)` changes nothing and is not an action.  Both
allocators bound the sizes asked for to those that do not wrap.

`HeapFill` composes `BumpMalloc` with `Memset`, one thread: `HeapCall` is any step
of the allocator while `memset` is not running, `FillCall` calls `memset` on a block
held that was not filled yet, all of it or all but the first byte (so that odd
starts occur whatever the heap's alignment), `FillStep` is a step of the routine.
A byte is the set of its bits that are 1, so that `SOC` is a union.  That the heap
keeps to its blocks is said byte by byte: `FreeBytesExact` compares the counter
with the number of addresses in free blocks, `NothingElseIsWritten` covers the
padding of odd sizes as well.

### 2.5 DivMod64

`n_uword_bits` is a parameter; `sr` is an unsigned int and wraps at `UIntMod`.
`Shl` and `Shr` apply a function defined for counts below the width only, so that a
shift C leaves undefined is an error of the evaluation and not a value.  Each
early return of `__udivmoddi4` is an action, `StartLoop` the preparation of the
loop, `DivLoop` a round.  The entry points' sign handling is in the operands `n`,
`d` and in `Result`.

### 2.6 LifeBoard, LifeProgram, Life2x, Life2, LifeRule

A board is the set of its live cells; what a word operation does to all its lanes
is written for one.  `Window` and `WindowCount` keep the code's way of counting,
by words and shifts; `LifeRule` counts neighbours on a torus.  `LifeProgram` has the
variables the programs share, the refinement mapping and the two properties stated
of all three, `ImplementsLifeRule` and `ActiveIsNeighbourhood`.  An action of Life2x
is one stage of the frame loop in `main`: `StepBoard` (swap, generation, dirty
marks, tile map), one action per kind of key, `Overlay`, `Draw`; a reseed takes two
steps, `KeySeed` and `Reseed`, because what `seed_board` writes past the board's
end into the other board or the tile map is visible in between.  A key acts when its
code differs from the one scanned before, so `D` after `d` and one reseeding key after
another act again; of the twelve codes that reseed two stand for all.  The memory after
a board is the one the order of declaration gives.  Life2 is `life.c` and
`life2.c` side by side: `Slide` is the window that is loaded for each word or
slides until a gap; the border is drawn into one of the two boards only.  Cells are
counted from the corner of the region, which in the code lies at a multiple of the
tile size (`LIFE_REGION_X0`, `LIFE_REGION_Y0`); that no tile drawn holds cells of the
border is therefore built into the coordinates of the model and not a result of it.

### 2.7 Ball2

One iteration of `run_ball` is `Glide`, `BouncePlain` or `BounceJitterX`/`Y`.
`isqrt16` is the code's digit-by-digit root, a recursion over the eight values of
`bit`.  `Ball2Sizes` asks that the square of the speed fit a `uint16_t`, as it does
with the code's shifts of 8 and 2.  The jitter's direction,
its axis in a corner and whether there is one are nondeterministic.

## 3. Runs

| Run | Instance | Shows |
|---|---|---|
| `rendezvous` | 3 workers, 1 slot, markers mod 3, fair | safety in all interleavings, rounds go on, nobody starves, implements RoundCount |
| `rendezvous_timed` | 3 workers, 8 slots, delays {1, 3}, time-out 16 ticks, lag 1 | no time-out fires, bound on waits, the manager never blocks in a send, implements Rendezvous with its fairness |
| `rendezvous_timeouts` | 2 workers, 1 slot, time-out 3, lag 2 | what survives when calls do time out |
| `div32` | 3-bit words, all 64 x 64 operands, 4 helpers | C division; loop invariant; termination |
| `divmod64` | 3-bit words, all 64 x 63 operands, 4 helpers | C division, truncated, with the one overflow; loop invariant; termination |
| `legacy_div` | 3-bit words, all operands | *violation*: finding 1 |
| `memcopy` | 16-byte memory, all blocks | copy of blocks apart, or in the safe direction; stray writes, termination, inductive invariant |
| `memmove_overlap` | the same memory | *violation*: finding 2 |
| `heap_fill` | 6-byte heap in 16, every safe size | fills stay in their blocks, implements Allocator, `memset` returns |
| `heap4` | 34-byte heap in 64, 12 sizes | list, tiling, count, justified failure, implements Allocator, calls return |
| `life` | 6 x 6 tiles of 2 x 2 cells, 2 tiles to a word, the three programs, 2 and 9 seeds, all keys | tile maps exact, overlay can be cleared, implements LifeRule |
| `ball2` | 3 x 3 screen, 3 fraction bits, 2 characters | speed kept, border shown, bounces for ever |

The properties of each run, as the modules name and state them:

- `rendezvous`: `OneItemEach` (one item per worker and round), `BitsAreWaiters`
  (a bit of the event group stands for a task that waits), `NoLostWakeup`,
  `MarkersFollowRounds`, `RoundsAdvance`, `NoWorkerStarves`, `ImplementsRoundCount`;
- `rendezvous_timed`: `WaitsAreShort`, `SendNeverBlocks`, `ImplementsRendezvous`;
- `rendezvous_timeouts`: `WaitingIsReceivers` and `WaitersHaveBits`, the kernel's
  lists and bits against the tasks' places when calls time out;
- `div32`, `divmod64`: `LoopInvariant`, `DivisionCorrect`, and `Terminates` /
  `Returns`; `legacy_div`: `OutputIsQuotientOrRemainder`;
- `memcopy`: `IInv`, `CopyCorrect`, `WritesStayInside`, `Terminates`;
  `memmove_overlap`: `OverlapSafe`;
- `heap_fill`: `BlocksKeepTheirFill`, `NothingElseIsWritten`, `ImplementsAllocator`,
  `FillReturns`;
- `heap4`: `BlocksTileHeap`, `FreeListCoalesced`, `FreeBytesExact`,
  `FailureJustified` (NULL only when no free block is large enough),
  `ImplementsAllocator`, `CallsReturn`;
- `life`: `ActiveIsNeighbourhood`, `OverlayCanBeCleared`, `ImplementsLifeRule`;
- `ball2`: `SpeedKept`, `BorderShown`, `KeepsBouncing`.

### 3.1 Bounds and why they are enough

Three workers are the code's number; with markers modulo 3 several rounds and a
wrap-around are within reach, and every later round repeats a state.  The
one-slot queue of `rendezvous` makes the manager block, which the code's eight
slots (`rendezvous_timed`, and the theorem for any queue at least as long as the
number of workers) never do.
In the timed runs delays 1 and 3 and lag 1 make both orders of two workers'
delays and ties happen.  `WaitsAreShort` says that 4 of the 16 ticks of a time-out
are always left, the longest delay and a lag of one for each of nine steps having
taken at most 12; a wait could last 3 ticks more before it became a time-out, so the
property does not follow from the expiry of timers, and it is tight: asking for 5
ticks left fails.  A 3-bit word is the smallest in which the divisor can have its
top bit set, a nonzero high word, and a dividend that overflows the hardware
divide.  Sixteen bytes hold leading byte, several words and trailing byte of
each parity on both sides of an overlap.  The heap fits five minimal blocks, so
that a free block with free or live neighbours on both sides occurs, and the
sizes include exact fits, remainders too small to split, the whole heap and the
largest size that does not wrap.  In `heap_fill` the heap starts at an odd
address, has room for three blocks and ends short of the address space, so that
fills of both parities have blocks, padding and foreign memory next to them.
The Life boards hold a glider that crosses every tile, word and edge, and tiles
enough (six across, three words) that some are inactive; one seed of `life2_2x.c`
writes past the last row and column, which the code's offset makes possible.  In
`life.c` and `life2.c` still and moving groups leave gaps of inactive words, which is
when the window is loaded again.  The ball's unit is an eighth of a cell and its jitter one unit of energy
out of four: all the angles the jitter can reach are visited, zero included.

### 3.2 The finite portMAX_DELAY

`FreeRTOSConfig.h:51` sets `INCLUDE_vTaskSuspend` to 0.  The kernel then treats
`portMAX_DELAY` (0xFFFF with 16-bit ticks) as a time-out of 65535 ticks, some 18
minutes, and the tasks ignore the results of `xQueueSend` and `xEventGroupSync`.
`rendezvous_timed` shows that no wait lasts longer than the longest delay plus
`MaxLag` ticks per step the workers take in a round (6 + 9 ticks with the code's
numbers and a lag of one), so the time-out never fires and the timed model
implements the untimed one.  `rendezvous_timeouts` shows what would still hold if
it did.

### 3.3 Fairness

`Rendezvous!Fairness`: weak fairness of each worker, of the manager and of each
delay's end.  `configUSE_PREEMPTION` and `configUSE_TIME_SLICING` are 1 and the
manager blocks once a round, so every ready task runs again; the tick interrupt
ends delays.  `TimedFairSpec` assumes only that the system goes on (weak fairness
of the next-state relation): the bound on lag and the priorities do the rest, and
`ImplementsRendezvous` shows that they imply `Rendezvous!Fairness`, so that what
`rendezvous` says of starvation and progress carries over to the timed demo.
The sequential routines, `ball2` included, assume that the processor goes on.
Heap4 and HeapFill assume that a
call once made runs on, not that calls are made.

### 3.4 Findings and observations

1. `runtime/tms9900_rt.asm:113` (run `legacy_div`): the carry out of the low word
   is added to the high word *before* that word is shifted, so it counts twice.
   65536 / 1 gives 131072.  `div32.S`, which supersedes the file, shifts first.
2. `libtms9900/builtins/memmove.S:28` (run `memmove_overlap`): the file promises an
   "Overlap-safe memory copy" (lines 7-9) and takes `JL` after `C R0,R1` to mean dest <
   src.  `KNOWN_PROBLEMS.md:20` and `:119` and `div32.S:224` say that the flags are those
   of destination minus source; then `JL` is taken when dest > src, and memmove goes
   forward where it has to go backward and backward where it has to go forward.  Two
   bytes moved from address 1 to 0 both end up as the second one.  Read the other way,
   memmove is overlap-safe (`SafeIfSourceFirst`), and `div32.S` is wrong, see
   below.  The two files cannot both be right.

About the compare instruction and `div32.S`: `DivisionCorrect` is checked and proved
for the reading the file itself states.  `PROJECT_JOURNAL.md:1354` notes as a
"Pre-existing bug" that the "Software division path returns incorrect results for some
dividend/divisor combinations where dividend_hi >= divisor (e.g., 0x30000/3)", and no
later entry records a repair.  The source at this commit does not show such an error
under its own reading: the run includes dividends of that form, and `HelpersDivide`
covers all.  With `DestFirst = FALSE` TLC finds the division wrong, the analogue of
0x30000/3 in 3-bit words among the operands, and `UDIV_CMP` subtracting when it must
not.  So either the note describes an older state of the file, or the assembler's `C` is
not the one `div32.S:224` states; in the second case finding 2 does not hold and
`DivisionCorrect` does not either.  A run of 0x30000/3 on the simulator decides.

Met while modelling, and not the subject of a run:

- `main_queue.c:21`, the success criterion "WORKER_A == WORKER_B == WORKER_C ==
  ROUNDS", is not an invariant: a dump taken at an arbitrary instruction shows
  workers one ahead of ROUNDS.  What holds is `MarkersFollowRounds`.
- `memset.S:25` or-s the high byte of `c` into the fill value, where `memset.S:4`
  speaks of the low byte only.  A char extended with zeros is stored as it is, and
  so is -1; any other int whose high byte has a bit that the low byte lacks fills
  with the or of the two: 0xFF80, the char 0x80 extended with its sign, fills with
  0xFF.  `heap_fill` and `FillsAreKept` are about the former.
- `malloc.c:15` and `:18` wrap for requests near 2^16, and the wrapped pointer
  passes the limit check.  `ImplementsAllocator` holds for safe requests only.
- `life2_2x.c:968` clears a snapshot in the frame that set it, before anything is
  drawn: the colours of the F key are visible for part of a frame only.
- `life2_2x.c:405` and `:410`: the wrap of a block's position never applies, as the
  offset is smaller than a block.  Blocks of the last row and column reach past
  the board instead; the run and the theorem show that nothing comes of it.

## 4. Proofs

`RendezvousProofs` (any finite nonempty set of workers, any queue length, any
marker width):

- `Invariance`: `IInv`, the conjunction of `TypeOK`, `SentMatchesPC` (the
  manager's loop counter and place agree), `OneItemEach`, `BitsAreWaiters` and
  `MarkersFollowRounds`, is inductive.  None of these is inductive alone: that a
  worker's marker is right after the rendezvous needs that all bits set means
  all tasks wait, that nobody waits with a second item needs the count of items,
  and both need the loop counter.  The central lemma, `LastToArrive`, says that
  when the last bit is set every worker has been served, hence that the queue is
  empty.
- `TypeCorrect`, `OneItemEachHolds`, `BitsAreWaitersHolds`, `MarkersFollow` follow;
  `SendNeverBlocksHolds` and `NoLostWakeupHolds` by a second induction on top.
- `Refinement`: Rendezvous implements RoundCount, step by step.

`MemCopyProofs` (any even address space, either reading of compare):

- `Invariance`: `IInv` says that at each label the bytes copied so far are a
  prefix (forward) or a suffix (backward) of the block, and that the pointers agree
  with the count.  What a byte copied holds is exact in either direction (`Copied`):
  going the safe way it is the source's byte, as what is still to be read is intact;
  going the wrong way over an overlap it equals the cell it was read from, which had
  been overwritten and stays as it is.
- `CopyIsCorrect`, `NoStrayWrite`, `TypeCorrect`, with no assumption on the
  comparison.  `SafeIfSourceFirst`: were the flags those of source minus destination,
  memmove would be `OverlapSafe`; the run `memmove_overlap` shows that with the
  documented ones it is not.

`CartridgeProofs`, first about Life2x (tiles, words and boards of every size that
fit together as `LifeSizes` says, any seeds):

- `CountIsSum`, `RuleIsConways`: the carry-save adder tree of `life_next_word`
  adds up the eight neighbours, and the simplified rule of `life2.c`, the original
  one of `life.c` and Conway's agree; adder by adder, from `FullAdder` and
  `HalfAdder`.
- `NextCellIsRule`: the shifted words of a window hold the neighbouring cells,
  around the edges too (`Neighbour`), so that a cell computed by words is the
  cell of Conway's rule on the torus.
- `ActiveRows`, `StepIsGeneration`: a row of tiles left out has no cell alive in
  the next generation, as a cell with a live neighbour lies in a row of tiles at
  or next to the neighbour's (`TilesAround`, `ActiveTile`); `step_board` is therefore the whole
  next generation.
- `ActiveIsExact`: the tile map is exact whenever it is used, by induction.
- `OverlayClears`: `OverlayInv` adds to the property that a pending snapshot, which
  will set all tiles back, excuses tiles nobody remembers, and that it is pending
  during one stage only.
- `ShowsConwaysGenerations`: `Spec => ImplementsLifeRule`.  The invariant `LifeInv`
  says that the current board lies within the screen, that the tile map is exact,
  that the screen shows the board when a generation is due, and that in the other
  stages they differ in rows with a dirty tile only.  `StepBoard` then maps to
  `Generation`, `KeySeed` to `Reseed`, `Draw` to `Display`, and every other step
  stutters.

About Life2, instantiated as `Two` on the same boards and screen, for the same sizes
and any seeds:

- `WindowsAre`: the words a window holds when it is used are the neighbours of the
  word in hand, whether it was loaded there, slid there from the word before, or
  was loaded again after a gap; by induction along the row (`WindowsSteps`).  It is
  the fact the flag `need_reload` is for.
- `TwoStepIsGeneration`: a word left out has no cell alive in the next generation,
  and the cells of the border are never counted (`BorderUnread`), although one of
  the two boards holds them; the boards inside are therefore Conway's.
- `TwoActiveIsExact` and `TwoShowsConwaysGenerations` follow from `TwoInv`: the tile map
  is exact for the region, the screen shows the region when a generation is due, and
  differs from it in dirty tiles at most while a drawing is due.

About Ball2 (every screen of at least three by three cells, every unit and energy
shift that `Ball2Sizes` allows, all choices of jitter):

- `RootIs`: `isqrt16` returns the root, rounded down, of every number of 16 bits.
  `RootSoFar` says that there is a number `g`, the digits found, of which the code
  keeps the number less `g * g` and `g` scaled by the digit's weight `p`, and that the
  root lies between `g` and `g + p`; `RootRound` is one digit, `RootSteps` the
  induction over the eight.
- `BallSpeedKept`: the energy left to the other axis never wraps, for an axis is held
  to the root of the whole (`JitteredIs`, `MaxAxisIs`), and what rounding takes away
  is at most twice that root and is not taken again at the next bounce, as each
  jitter starts from the whole energy (`OtherAxisIs`).
- `BallBorderShown`: `BorderPlaces` says that no two cells of the border share a place
  in the array and none lies outside it; the ball stays on the screen (`OnScreen`).
  `BallInv` is both properties with the ranges of position, velocity and sign.

`RendezvousProofs`, about RendezvousTimed (any workers, delays and lag):

- `WaitingIsReceiversHolds`, `WaitersHaveBitsHolds`: with no condition on times and
  sizes, so also when calls do time out.  `ListInv` is both properties and the
  places of the tasks; the lemmas on `Without`, the removal from a list, are by
  induction on its length.
- `TimedInvariance`, under `EnoughRoomAndTime` (the queue holds a round; the time-out
  is longer than the longest delay plus `MaxLag` ticks for each step of the workers
  in a round: 3 items, 8 slots and 65535 ticks satisfy both).  `TimedInv` adds to
  `Rendezvous!IInv` that a worker runs only while the manager is blocked
  (`ManagerFirst`), which timers run where (`TimersMatchPC`), and that for some `c`,
  the ticks of delay still to come, `FitsIn(c)`: a task waiting at the rendezvous has
  waited so little that `c` ticks and `MaxLag` for each step still to be taken fit
  into the bound.
  `WaitsAreShort` is not inductive: that a wait has lasted no longer than the bound
  follows from how far the others have come, which only the finer count says.
- `WaitsAreShortHolds`, and `TimedRefinement`: no `TimesOut` action is ever enabled,
  so every step is one of Rendezvous or leaves its variables alone.

`Heap4Proofs` (every heap and placement `Heap4Assumption` allows, all requests that
do not wrap):

- `Heap4Invariance`: `Heap4Inv` says that every block ends where another starts or
  at the end of the heap (`Tiled`), that the links run through exactly the free
  blocks in address order (`Sorted`), that neighbours are not both free (`Coalesced`),
  that each pointer held is a block with room for its request (`Held`), where the
  two walks are (`Places`), and what the counter is (`Counted`).  In the middle of a
  call one or two blocks are neither free nor allocated; `InHand` names them, and
  the list and the tiling are stated around them.  Splitting and merging are the
  steps that need the whole of it.
- `BlocksTile`, `FreeListIsCoalesced`, `FreeBytesAreExact`, `FailuresAreJustified`
  and `AllocatorRefinement` follow.  The counter's theorem counts addresses: the
  free and the allocated bytes are disjoint and make up the heap.

`HeapFillProofs` (every heap below the end of the address space, requests for which
`Safe` holds):

- `ProgramInvariance`: blocks with their padding are disjoint (`Apart`), each fill
  belongs to a block held (`Fills`), `memset`'s pointer and counts at each label say
  what is left of the fill (`Registers`), the bytes below the pointer are written
  (`Stored`), nothing else is.  A word store is aligned whatever the start because
  the leading byte has been stored by then, which `Registers` remembers.
- `NothingElseIsEverWritten` for any ints; `FillsAreKept` for ints whose high byte
  adds no bit to the low one, see 3.4; `MallocRefinement`.

`Div32Proofs` (words of every width, all operands, under div32's reading of compare,
`CompareAsInDiv32`):

- `DivInvariance`: `DivInv` has the registers' types, the operands at each label, the
  sign kept in R9, and `Divided(k)`: there are numbers `T`, `rest` and `q` such that
  the dividend is `T` times 2^k plus `rest`, `T` is `q` divisors plus the remainder
  register, and the quotient register is `rest` above `q`.  It says what
  `LoopInvariant` says with the quotients named, so that a round is sums and
  products; `NextBit` is that round as arithmetic, and contains the reason why no
  shift loses a bit: the remainder is at most the number divided so far, which has
  as many bits as there were rounds.
- The lemmas before it say what the words of a pair do: `NegatedPair`, `ShiftedPair`,
  `SubtractedPair`, `PairOrder`.  `Pow2` is a recursive function and `Pow2Sum` an
  induction.
- `LoopDivides` and `HelpersDivide` follow, the latter for both signs of both
  operands and with the quotient that wraps.

`DivMod64Proofs` (words of every width of at least two bits, an unsigned int that can
hold the bit counts, `DivMod64Assumption`; all operands but a zero divisor):

- `DivNext`: `DivInv` is `LoopInvariant` with the widths of the words in the loop and,
  at the return, `Divided`: dividend = quotient times divisor plus remainder, and the
  remainder is smaller.  One lemma per action of `__udivmoddi4`.
- The shortcuts rest on what words are of the numbers (`SplitWords`, `HighWords`)
  and on `CtzIs`; the start of the loop on `ClzIs` and `FirstDigit`: the
  part of the dividend that starts out in `r` is less than the divisor (`StartPlace`),
  and the branches that cut the dividend within the low word, between the words and
  within the high one all leave its two parts (`CutFew`, `CutAtWord`, `CutMany`).
  Every `Shl` and `Shr` of these proofs is shown to have a count below the width, so
  none is undefined in C.
- `DistanceIs`: the unsigned difference of the leading zeros is the difference of the
  numbers, or, when that is negative, more than the width of a word, which the two
  branches' limits both exclude.
- `NextDigit` is a round of the loop as arithmetic, `DoubleWords` and `SubtractWords`
  what the shifts and the borrow worked out by hand do to pairs of words.  No bit
  leaves the top of `r`, because the remainder is at most the part of the dividend
  brought down, and its digits with those still in `q` are no more than the words have.
- `LoopKeepsInvariant`; `DivisionIsCorrect`, for the four entry points and both signs of
  both operands, with the one quotient that does not fit (`QuotientValue`, `CutOff`).

`Arithmetic` has the facts the inductions over numbers rest on: a nonempty set
of natural numbers has a least element, induction up to a number for a set, and the
existence of the function a recursion defines.  They take sets and functions as
parameters, not operators, which the provers cannot instantiate.  With them come the
lemmas on products, quotients, remainders and powers of two (`DivModUnique`,
`QuotientIs`, `Pow2Sum`) that the proofs about words share.

The inductive invariants are also checked by TLC: `memcopy` lists `IInv`, the parts
of `Rendezvous!IInv` are the invariants of `rendezvous`, and each of the others was
checked on the instance of its component's run before it was proved.

Every safety property of the runs is thus also a theorem, `OutputIsQuotientOrRemainder`
and `OverlapSafe` aside, which do not hold.  Only model-checked: liveness (`RoundsAdvance`,
`NoWorkerStarves`, `Terminates`, `Returns`, `FillReturns`, `CallsReturn`,
`KeepsBouncing`), and the fairness in `ImplementsRendezvous`, of which
`TimedRefinement` proves the safety part; fairness and ENABLED are outside the
prover's reach.

## 5. Not modelled, and the plan

What the project models is the logic of the repository's own code that has state
and can be wrong in ways a test misses.  Of the lines of C in the tree all but a
few thousand are picolibc and the soft-float code, vendored from other projects:
models of `regcomp.c`, `strftime.c` or character tables would say nothing about
this one, and the share of all lines that is mapped stays small for that reason.

Left out:

- the LLVM backend and the FreeRTOS kernel: submodules, not in the tree; the
  kernel services the demo uses are modelled from their use;
- picolibc, soft float, the small libm: third party, floating point;
- `mul32.S`, `shift32.S`, `muldi3.c`, string utilities: pure functions of a few
  lines without state;
- the signed wrappers of `tms9900_rt.asm`, around the unsigned division that is
  wrong already, and its multiplication and shifts;
- start-up code: single loops over linker symbols (the two hazards at
  `startup.S:58` and `crt0.s:25` depend on the link map);
- `ball.c`, `banner.c`, `vdp.S`, video set-up: output only;
- `llvm2xas99.py`, test drivers, benchmark programs: text processing and tests.

Nothing of the plan for proofs is left.  What would come next are models: the signed
wrappers of the older run-time once its unsigned division is repaired, and the
kernel's lists in place of the external actions when the submodule is there.
