SPECIFICATION FairSpec
CONSTANTS
  HeaderSize = 2
  Sizes <- MCSizes
  Offsets <- MCOffsets
  Loops <- MCLoops
  MaxSent = 2
  MaxConnections = 3
INVARIANT
  NothingIsSkipped
PROPERTIES
  HandledWhole
  AlignedDelivers
  ImplementsChannel
CHECK_DEADLOCK FALSE
