SPECIFICATION ServerSpec
CONSTANTS
  Owners = {owner1}
  MaxSessions = 2
  MaxClients = 2
  MaxMedia = 3
  Calls = {c1, c2}
  Ids = {i0, i1}
  Codes = {ready, stopped}
  MaxReports = 3
INVARIANTS
  ServerTypeOK
  OneLoopAtATime
  ReleasedAfterExit
  StatusTellsState
  BooksAreExact
  ServerInv
  LiveCallsAreUpToDate
  FeedInv
PROPERTIES
  DestroyOfRunningLoopReturns
  FeedIsAStream
  CancelledCallsAreForgotten
CHECK_DEADLOCK FALSE
