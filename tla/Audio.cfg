SPECIFICATION AudioSpec
CONSTANTS
  AlphaNum = 1
  AlphaDen = 2
  MaxOffset = 3
  Lag = 1
  MaxTime = 11
  Togglers = {t1, t2}
  Keys = {0, 1, 2}
  Cap = 2
  Window = 3
  Rates = {44, 48}
  OpusHz = 48
  BitRates = {0}
  MaxThreads = 2
  MaxSettings = 2
INVARIANTS
  AudioTypeOK
  StampsFitThePipeline
  LatenciesAreOwn
  CaptureIsAlone
  CaptureMatchesMedia
PROPERTIES
  AudioStepsBackAtMost
  AverageFollowsOffset
  JoinReturns
CHECK_DEADLOCK FALSE
