SPECIFICATION FairSpec
CONSTANTS
  MAX_ENCODER_RESTARTS = 1
  FORCED_IDR_INTERVAL_FRAMES = 2
  EncoderLatency = 1
  MaxPendingRestarts = 1
INVARIANTS
  TypeOK
  BrokenChainIsRepaired
  AtMostOneStray
  SwallowedIsShort
  GateInv
PROPERTIES
  NoStrayAfterGap
  EveryStreamSyncs
  SafetyNetResyncs
CHECK_DEADLOCK TRUE
