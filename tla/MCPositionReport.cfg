SPECIFICATION FairSpec
CONSTANTS
  Items = {2, 3}
  BUF_NUM = 2
  None = None
  MAX_REF = 3
  MAX_EVENT = 3
INVARIANTS
  TypeOK
  PairsInOrder
  ReportsInOrder
  Deaths
PROPERTIES
  EventReported
CHECK_DEADLOCK FALSE
