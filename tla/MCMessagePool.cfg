SPECIFICATION FairSpec
CONSTANTS
  MSG_NUM_MAX = 3
  Thread = {"isr", "dis", "recv", "send"}
  Mailbox = {"kt", "local"}
  Reader <- MCReader
  Writers <- MCWriters
  Datum = {"code", "head", "item", "dis"}
  Frame <- MCFrame
  PAYLOAD_NUM_MAX = 3
  None = None
INVARIANTS
  TypeOK
  InOnePlace
  MessageIntact
  SendersServed
PROPERTIES
  ImplementsMailLine
  Returns
CHECK_DEADLOCK FALSE
