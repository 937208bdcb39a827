SPECIFICATION FairSpec
CONSTANTS
  MSG_NUM_MAX = 2
  MAX_LIVES = 2
INVARIANTS TypeOK StaleInFront StartupDeaths
PROPERTIES PostReturns
CHECK_DEADLOCK FALSE
