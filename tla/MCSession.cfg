CONSTANTS
  WINDOW_LEN = 2
  WINDOW_STRIDE = 2
  REF_STRIDE = 2
  FIRING = {1, 2}
  LATRING = 2
  WARMUP = 2
  MAX_FRAMES = 4
  MAX_POLLS = 1
  MAX_FLIGHT = 2
  MAX_FAULTS = 2
SPECIFICATION FairSpec
INVARIANTS RepliesAreOwn InStep StoppedAtExit
PROPERTIES ReturnsOrStops
