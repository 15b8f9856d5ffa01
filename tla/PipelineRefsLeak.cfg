SPECIFICATION RefFairSpec
CONSTANTS
  Dumpers = {d1}
  MaxPipelines = 1
  MaxRefs = 9
PROPERTIES
  HandlersDieWithTheBus
CHECK_DEADLOCK FALSE
