SPECIFICATION FairSpec
CONSTANTS
  WORD = 8
  g_sys_config <- MCConfig
  BUF_NUM = 2
  Result <- MCResult
  Code = {5}
  MAX_PASS <- MCMaxPass
  None = None
INVARIANTS
  TypeOK
  BufInOnePlace
  Deaths
  ResetReclaims
  CountTracks
  VerdictPerPassage
  NeverOlder
PROPERTIES
  ImplementsRejectLine
  EveryPassageDecided
CHECK_DEADLOCK FALSE
