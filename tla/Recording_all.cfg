SPECIFICATION Spec
CONSTANTS
  Pings <- MCPings
  ForeignLogs <- MCForeignLogs
  NoMsg = NoMsg
  Date = Date
  MaxMessages = 3
  MaxFiles = 2
  MaxOthers = 1
INVARIANTS
  TypeOK
  QuietFilesAreLogs
  SessionsAreRecorded
  ReadsInOrder
  NothingLeftBehind
  ReplayGivesTheSession
PROPERTIES
  OnlyCutFilesThrow
CHECK_DEADLOCK FALSE
