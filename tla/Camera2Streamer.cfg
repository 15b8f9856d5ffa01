SPECIFICATION FairSpec
CONSTANTS
  Cams = {c1, c2}
  NoCam = NoCam
  MAX_ENCODER_RESTARTS = 1
  MaxPending = 1
  MaxLost = 1
  MaxBehind = 1
INVARIANTS
  RunningMeansServed
  HalfSessionHasKeeper
  StreamerInv
PROPERTIES
  HalfSessionSettles
CHECK_DEADLOCK TRUE
