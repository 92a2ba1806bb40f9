SPECIFICATION Spec
CONSTANTS
  s1 = s1
  s2 = s2
  Senders <- MCOneSender
  MaxConnects = 2
INVARIANTS
  SingleReceptionLoop
CHECK_DEADLOCK FALSE
