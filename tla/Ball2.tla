------------------------------- MODULE Ball2 --------------------------------
(***************************************************************************)
(* The bouncing ball of ball2.c: a ball in fixed point that turns at the   *)
(* edges of the screen, now and then changes its angle there while it      *)
(* keeps its speed, and counts its visits to every cell of the border.     *)
(* One step is one iteration of the loop in run_ball.  The random numbers  *)
(* are any numbers.                                                        *)
(***************************************************************************)
EXTENDS Powers

CONSTANTS
  SCREEN_COLS, SCREEN_ROWS,
  FP_SHIFT,            \* 8 in the code
  BALL2_ENERGY_SHIFT,  \* 2
  BorderChars          \* the characters a border cell runs through, 36

\* The square of the speed, 2 * 4^(FP_SHIFT - BALL2_ENERGY_SHIFT), is a uint16_t.
Ball2Sizes ==
  /\ SCREEN_COLS \in Nat /\ SCREEN_ROWS \in Nat /\ SCREEN_COLS > 2 /\ SCREEN_ROWS > 2
  /\ FP_SHIFT \in Nat /\ BALL2_ENERGY_SHIFT \in 0..FP_SHIFT
  /\ FP_SHIFT - BALL2_ENERGY_SHIFT <= 7
  /\ BorderChars \in Nat \ {0}

ASSUME Ball2Assumption == Ball2Sizes

VARIABLES
  pos_x, pos_y,    \* in units of 2^-FP_SHIFT cells
  vel_x, vel_y,
  sign_x, sign_y,  \* kept apart, for a velocity may be zero
  border,          \* the characters of the border, as numbers
  shown            \* what each cell shows

ballVars == <<pos_x, pos_y, vel_x, vel_y, sign_x, sign_y, border, shown>>

ScreenCell == (0..(SCREEN_ROWS - 1)) \X (0..(SCREEN_COLS - 1))

FP_ONE == Pow2[FP_SHIFT]
FP_FROM_INT(k) == k * FP_ONE
max_x == FP_FROM_INT(SCREEN_COLS - 1)
max_y == FP_FROM_INT(SCREEN_ROWS - 1)

Square(k) == k * k
abs_u16(k) == IF k < 0 THEN -k ELSE k

\* A velocity along an axis in the unit of the energy, and back.
Scaled(vel) == abs_u16(vel) \div Pow2[BALL2_ENERGY_SHIFT]
Velocity(v, sign) == sign * (v * Pow2[BALL2_ENERGY_SHIFT])

-----------------------------------------------------------------------------
(* The square root, digit by digit                                         *)

\* Mutant: the divisor bit is not added to the root.
RootDigitLost(acc, bit) ==
  IF acc.value >= acc.res + bit
    THEN [value |-> acc.value - (acc.res + bit), res |-> acc.res \div 2]
    ELSE [acc EXCEPT !.res = @ \div 2]

\* One round of the second loop.
RootDigit(acc, bit) ==
  IF acc.value >= acc.res + bit
    THEN [value |-> acc.value - (acc.res + bit), res |-> (acc.res \div 2) + bit]
    ELSE [acc EXCEPT !.res = @ \div 2]

\* The values of bit, from 1 << 14 down to 1.
RootBit(k) == Pow2[16 - (2 * k)]

\* The first loop passes over the bits above value.
isqrt16(value) ==
  LET acc[k \in 0..8] ==
        IF k = 0 THEN [value |-> value, res |-> 0]
        ELSE IF RootBit(k) > value THEN acc[k - 1]
        ELSE RootDigit(acc[k - 1], RootBit(k))
  IN acc[8].res

\* The jitter, never zero.
delta_s ==
  LET q8 == (FP_ONE + 5) \div 10
      s == IF BALL2_ENERGY_SHIFT > 0
             THEN (q8 + Pow2[BALL2_ENERGY_SHIFT - 1]) \div Pow2[BALL2_ENERGY_SHIFT]
             ELSE q8
  IN IF s = 0 THEN 1 ELSE s

\* BALL2_VX_INIT and BALL2_VY_INIT are FP_ONE; BALL2_MIN_AXIS_S is 0.
speed2_s == 2 * Square(Scaled(FP_ONE))
max_axis_s == isqrt16(speed2_s)

-----------------------------------------------------------------------------
(* The border                                                              *)

BORDER_SIDE_LEN == SCREEN_ROWS - 2
BORDER_TOTAL == (2 * SCREEN_COLS) + (2 * BORDER_SIDE_LEN)

\* Mutant: the left side starts one place early, on the last character below.
border_index_overlaps(row, col) ==
  CASE row = 0 -> col
    [] row = SCREEN_ROWS - 1 -> SCREEN_COLS + BORDER_SIDE_LEN + col
    [] row \in 1..(SCREEN_ROWS - 2) /\ col = SCREEN_COLS - 1 -> SCREEN_COLS + row - 1
    [] row \in 1..(SCREEN_ROWS - 2) /\ col = 0 -> (2 * SCREEN_COLS) + BORDER_SIDE_LEN + row - 2
    [] OTHER -> -1

\* Top, right side, bottom, left side; -1 inside.
border_index(row, col) ==
  CASE row = 0 -> col
    [] row = SCREEN_ROWS - 1 -> SCREEN_COLS + BORDER_SIDE_LEN + col
    [] row \in 1..(SCREEN_ROWS - 2) /\ col = SCREEN_COLS - 1 -> SCREEN_COLS + row - 1
    [] row \in 1..(SCREEN_ROWS - 2) /\ col = 0 -> (2 * SCREEN_COLS) + BORDER_SIDE_LEN + row - 1
    [] OTHER -> -1

\* '0' to '9', 'A' to 'Z' and around again.
border_next(v) == (v + 1) % BorderChars

ball_x == pos_x \div FP_ONE
ball_y == pos_y \div FP_ONE

\* init_border, then run_ball up to its loop.
BallInit ==
  /\ pos_x = FP_FROM_INT(SCREEN_COLS \div 2) /\ pos_y = FP_FROM_INT(SCREEN_ROWS \div 2)
  /\ sign_x = 1 /\ sign_y = 1
  /\ vel_x = Velocity(Scaled(FP_ONE), 1) /\ vel_y = Velocity(Scaled(FP_ONE), 1)
  /\ border = [k \in 0..(BORDER_TOTAL - 1) |-> 0]
  /\ shown = [c \in ScreenCell |-> IF c = <<ball_y, ball_x>> THEN "+"
                                   ELSE IF border_index(c[1], c[2]) >= 0 THEN 0 ELSE " "]

-----------------------------------------------------------------------------
(* The loop                                                                *)

next_x == pos_x + vel_x
next_y == pos_y + vel_y
bounced_x == next_x < 0 \/ next_x > max_x
bounced_y == next_y < 0 \/ next_y > max_y

\* A position past an edge is moved to the edge, and the ball turns.
Clamp(next, max) == IF next < 0 THEN 0 ELSE IF next > max THEN max ELSE next
Turn(next, max, sign) == IF next < 0 THEN 1 ELSE IF next > max THEN -1 ELSE sign

\* The axis that takes the jitter keeps within its bounds.
\* Mutant: it is not limited above.
JitteredUnlimited(v, delta) == IF v + delta < 0 THEN 0 ELSE v + delta
Jittered(v, delta) ==
  IF v + delta < 0 THEN 0 ELSE IF v + delta > max_axis_s THEN max_axis_s ELSE v + delta

\* What is left for the other axis; an unsigned difference.
OtherAxis(v) == isqrt16((speed2_s - Square(v)) % Pow2[16])

\* The cell the ball leaves is restored, a cell of the border with its next
\* character, and the ball is drawn in its new one.
Redraw ==
  LET idx == border_index(ball_y, ball_x)
      left == IF idx >= 0 THEN border_next(border[idx]) ELSE " "
  IN /\ border' = IF idx >= 0 THEN [border EXCEPT ![idx] = left] ELSE border
     /\ shown' = [[shown EXCEPT ![<<ball_y, ball_x>>] = left]
                    EXCEPT ![<<ball_y', ball_x'>>] = "+"]

Glide ==
  /\ ~bounced_x /\ ~bounced_y
  /\ pos_x' = next_x /\ pos_y' = next_y
  /\ Redraw
  /\ UNCHANGED <<vel_x, vel_y, sign_x, sign_y>>

\* At an edge: new velocities v_x and v_y along the axes.
BounceWith(v_x, v_y) ==
  /\ bounced_x \/ bounced_y
  /\ pos_x' = Clamp(next_x, max_x) /\ pos_y' = Clamp(next_y, max_y)
  /\ sign_x' = Turn(next_x, max_x, sign_x) /\ sign_y' = Turn(next_y, max_y, sign_y)
  /\ vel_x' = Velocity(v_x, sign_x') /\ vel_y' = Velocity(v_y, sign_y')
  /\ Redraw

BouncePlain == BounceWith(Scaled(vel_x), Scaled(vel_y))

\* The jitter falls on an axis that bounced; in a corner on either of them.
BounceJitterX ==
  /\ bounced_x
  /\ \E delta \in {-delta_s, delta_s} :
       LET v == Jittered(Scaled(vel_x), delta) IN BounceWith(v, OtherAxis(v))
BounceJitterY ==
  /\ bounced_y
  /\ \E delta \in {-delta_s, delta_s} :
       LET v == Jittered(Scaled(vel_y), delta) IN BounceWith(OtherAxis(v), v)

Bounce == BouncePlain \/ BounceJitterX \/ BounceJitterY

BallNext == Glide \/ Bounce

BallSpec == BallInit /\ [][BallNext]_ballVars
BallFairSpec == BallSpec /\ WF_ballVars(BallNext)

-----------------------------------------------------------------------------
(* Properties                                                              *)

\* The square root rounds down at every jitter, and still the ball neither gains
\* speed nor loses more than one rounding, however many jitters there were: the
\* difference speed2_s - v * v never wraps, and the ball never comes to rest.
SpeedKept ==
  LET e == Square(Scaled(vel_x)) + Square(Scaled(vel_y))
  IN speed2_s - (2 * max_axis_s) <= e /\ e <= speed2_s

\* Between two iterations the screen shows the ball, the border as the array has
\* it, and blanks: every cell of the border has a character of its own in the
\* array, and whatever the ball covers is put back.
BorderShown ==
  shown = [c \in ScreenCell |->
             LET idx == border_index(c[1], c[2])
             IN IF c = <<ball_y, ball_x>> THEN "+"
                ELSE IF idx >= 0 THEN border[idx] ELSE " "]

\* The ball bounces again and again, whatever angles the jitter gives it: it does
\* not come to rest, nor slide along without reaching an edge.
KeepsBouncing == []<><<Bounce>>_ballVars

=============================================================================
