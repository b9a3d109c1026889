\* The engines' arithmetic against the reference, the requantiser, the FFT.
\* The benches end: a bounded number of windows, a sweep, a transform.
CHECK_DEADLOCK FALSE
CONSTANTS
  HIST_DEPTH = 16
  WINDOW_LEN = 5
  WINDOW_STRIDE = 1
  DATA_W = 4
  ACC_W = 10
  MULT_W = 5
  NUM_MFCC = 3
  CONV_K = 2
  CONV_OUT_CH = 4
  PARALLEL = 2
  POOL_SIZE = 2
  NUM_CLASSES = 3
  kws_conv_w <- MCConvW
  kws_conv_b <- MCConvB
  KWS_M_CONV = 5
  KWS_S_CONV = 7
  kws_dense_w <- MCDenseW
  kws_dense_b <- MCDenseB
  KWS_M_DENSE = 11
  KWS_S_DENSE = 8
  WINDOWS <- MCWindows
  BASES = {0, 13}
  JUNK = 7
  MAX_ISSUED = 2
  MAX_RESETS = 1
  FFT_LEN = 8
  PRIME = 17
  ROOT = 2
  SIGNALS <- MCSignals
  MULTIPLIERS = {1, 5, 11, 15}
  SHIFTS = {1, 2, 5, 9, 13}
SPECIFICATION FairSpec
INVARIANTS LayersMatch RequantRounds FftIsTransform
PROPERTIES InferenceEnds
