SPECIFICATION Spec
CONSTANTS
  Cmd = {"reset", "sample"}
  Params <- MCParams
  Items = {3}
  None = None
  MAX_CONN = 3
  MAX_CMD = 2
  MAX_MSG = 2
INVARIANT
  HeaderReceived
CHECK_DEADLOCK FALSE
