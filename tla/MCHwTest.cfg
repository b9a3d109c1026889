CONSTANTS
  WINDOW_LEN = 3
  WINDOW_STRIDE = 2
  FIRING = {1, 2}
  FRAMES = 8
  CORRUPT = {1, 4}
  MAX_FLIGHT = 3
  MAX_FAULTS = 2
SPECIFICATION Spec
INVARIANTS NoFalseAlarm PassMeansAgreed
