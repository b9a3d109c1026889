CONSTANTS
  HDR_BYTES = 2
  STATS_NUM = 5
  WORD_BYTES = 2
  VERSION_LEN = 3
  EVT_LEN = 3
  DEPTH = 4
  MAX_PIPELINED = 0
  MAX_COMMANDS = 1
  MAX_EVENTS = 1
SPECIFICATION Spec
INVARIANT GrantedEventIsHeld
