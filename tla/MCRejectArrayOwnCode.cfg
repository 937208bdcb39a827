SPECIFICATION Spec
CONSTANTS
  WORD = 8
  g_sys_config <- MCConfig
  BUF_NUM = 2
  Result <- MCResult
  Code = {5}
  MAX_PASS <- MCMaxPass
  None = None
INVARIANT
  OwnCode
CHECK_DEADLOCK FALSE
