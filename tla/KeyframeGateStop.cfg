SPECIFICATION Spec
CONSTANTS
  MAX_ENCODER_RESTARTS = 1
  FORCED_IDR_INTERVAL_FRAMES = 2
  EncoderLatency = 1
  MaxPendingRestarts = 1
INVARIANTS
  CallbackCodecIsLive
