SPECIFICATION Spec
CONSTANTS
  Owners = {owner1}
  MaxSessions = 2
  MaxClients = 2
  MaxMedia = 2
INVARIANTS
  FullPipelineNeverStale
CHECK_DEADLOCK FALSE
