CONSTANTS
  N = 3
  DATA_W = 3
  DEPTH = 4
  SUM_W = 5
  THRESH = 1
  VOTE_MIN = 2
  MIN_CONSEC = 2
  DEBOUNCE = 3
  MAX_RUN = 3
  TARGETS <- MCTargets
  LOGITS <- MCLogits
SPECIFICATION PairSpec
INVARIANTS SumsOfRecent DetectsExactly
PROPERTIES MirrorsReference
