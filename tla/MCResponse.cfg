CONSTANTS
  HDR_BYTES = 2
  STATS_NUM = 5
  WORD_BYTES = 2
  VERSION_LEN = 3
  EVT_LEN = 3
  DEPTH = 4
  MAX_PIPELINED = 2
  MAX_COMMANDS = 3
  MAX_EVENTS = 2
SPECIFICATION FairSpec
INVARIANTS PacketsWhole AnsweredInOrder PoppedByteIsTaken NoTxOverflow
PROPERTIES CommandAnswered
