SPECIFICATION FairSpec
CONSTANTS
  w1 = w1
  w2 = w2
  c1 = c1
  c2 = c2
  c3 = c3
  Io = Io
  Waiters <- MCWaiters
  InfiniteWaiters <- MCOneWaiter
  Clients <- MCOneClient
  MaxWaits = 2
INVARIANTS
  TypeOK
  RunsAtMostOnce
  NoShotIsLost
  CalledMeansRan
PROPERTIES
  ImplementsPromise
  TimedWaitsReturn
