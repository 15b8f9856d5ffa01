SPECIFICATION FairSpec
CONSTANTS
  Owners = {owner1}
  MaxSessions = 1
  MaxClients = 1
  MaxMedia = 1
PROPERTIES
  DestroyReturns
CHECK_DEADLOCK FALSE
