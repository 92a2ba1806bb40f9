SPECIFICATION Spec
CONSTANTS
  w1 = w1
  w2 = w2
  c1 = c1
  c2 = c2
  c3 = c3
  Io = Io
  Waiters <- MCWaiters
  InfiniteWaiters <- MCNobody
  Clients <- MCNobody
  MaxWaits = 1
PROPERTIES
  FlagRetained
