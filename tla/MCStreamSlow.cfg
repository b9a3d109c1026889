CONSTANTS
  HIST_DEPTH = 8
  WINDOW_LEN = 2
  WINDOW_STRIDE = 2
  MAX_LAG = 7
  MAX_FRAMES = 9
  LAST_RESTART = 3
SPECIFICATION Spec
INVARIANTS TypeOK OverrunReported CreditConserved RingInv
