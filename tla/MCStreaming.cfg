CONSTANTS
  HIST_DEPTH = 8
  WINDOW_LEN = 4
  WINDOW_STRIDE = 3
  MAX_LAG = 2
  MAX_FRAMES = 9
  LAST_RESTART = 9
SPECIFICATION FairSpec
INVARIANTS WindowIntact NoStartLost DetectAttribution
PROPERTIES ImplementsSchedule InferenceCompletes
