SPECIFICATION FairSpec
CONSTANTS
  Item = {0, 2, 3, 4, 5}
  MAX_RAISED <- MCMaxRaised
INVARIANTS
  TypeOK
  NoLostWakeup
  EachPassageOnce
  InterruptsOn
PROPERTY
  PassageForwarded
CHECK_DEADLOCK FALSE
