SPECIFICATION Spec
CONSTANTS
  Item = {0, 2, 3, 4, 5}
  MAX_RAISED <- MCMaxRaised
INVARIANT
  OwnInterruptOn
CHECK_DEADLOCK FALSE
