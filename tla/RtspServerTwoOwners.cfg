SPECIFICATION Spec
CONSTANTS
  Owners = {owner1, owner2}
  MaxSessions = 2
  MaxClients = 1
  MaxMedia = 1
INVARIANTS
  ReleasedAfterExit
CHECK_DEADLOCK FALSE
