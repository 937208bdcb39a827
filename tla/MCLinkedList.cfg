SPECIFICATION Spec
CONSTANTS
  Node = {n1, n2, n3, n4}
  head = head
  Null = Null
SYMMETRY Symmetry
INVARIANTS TypeOK Ring OnePlace
PROPERTIES ImplementsNodeLine
CHECK_DEADLOCK FALSE
