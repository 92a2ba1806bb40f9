SPECIFICATION Spec
CONSTANTS
  w1 = w1
  w2 = w2
  c1 = c1
  c2 = c2
  c3 = c3
  Io = Io
  Waiters <- MCOneWaiter
  InfiniteWaiters <- MCNobody
  Clients <- MCClients
  MaxWaits = 1
INVARIANTS
  HandlesAreOwned
  MessageReachesTheCopy
SYMMETRY ClientSymmetry
