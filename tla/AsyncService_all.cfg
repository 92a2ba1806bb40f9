SPECIFICATION FairSpec
CONSTANTS
  u1 = u1
  u2 = u2
  Users <- MCUsers
  NoOne = NoOne
  MaxStarts = 3
INVARIANTS
  TypeOK
  OneRunner
  ApartIsConsistent
PROPERTIES
  StopReturns
CHECK_DEADLOCK FALSE
