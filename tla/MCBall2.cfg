SPECIFICATION BallFairSpec
CONSTANTS
  SCREEN_COLS = 3
  SCREEN_ROWS = 3
  FP_SHIFT = 3
  BALL2_ENERGY_SHIFT = 1
  BorderChars = 2
INVARIANTS
  SpeedKept
  BorderShown
PROPERTY
  KeepsBouncing
