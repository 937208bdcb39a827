SPECIFICATION Spec
CONSTANTS
  WORD = 6
  Configurations <- MCConfigurations
  Shots <- MCShots
  HALF = 4
  MAX_TURN = 3
INVARIANTS HitIsWindow CodeNearEncoder
CHECK_DEADLOCK FALSE
