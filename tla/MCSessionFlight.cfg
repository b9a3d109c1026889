CONSTANTS
  WINDOW_LEN = 2
  WINDOW_STRIDE = 2
  REF_STRIDE = 2
  FIRING = {1, 2}
  LATRING = 2
  WARMUP = 2
  MAX_FRAMES = 3
  MAX_POLLS = 1
  MAX_FLIGHT = 2
  MAX_FAULTS = 0
SPECIFICATION Spec
INVARIANT OneCommandInFlight
