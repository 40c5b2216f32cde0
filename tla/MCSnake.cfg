SPECIFICATION Spec
CONSTANTS
  PW = 4
  PH = 2
  MAX_LEN = 5
  Text <- MCText
  MaxKeys = 1
  MaxScore = 4
INVARIANTS
  SnakeIsWhole
  NoReversal
  ScreenShowsGame
CHECK_DEADLOCK FALSE
