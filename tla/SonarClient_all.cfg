SPECIFICATION FairSpec
CONSTANTS
  s1 = s1
  s2 = s2
  Senders <- MCSenders
  MaxConnects = 3
INVARIANTS
  TypeOK
  SendSafe
  ReconnectToken
  ConnectionIsRead
PROPERTIES
  AttemptsEnd
  DeadLinksAreReplaced
CHECK_DEADLOCK FALSE
