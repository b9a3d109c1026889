CONSTANTS
  SOF = 3
  VERSION = 1
  DATA_FEATURE = 2
  COMMANDS <- MCCommands
  NUM_MFCC = 2
  MAX_PAYLOAD = 3
  FIELD_BYTES = 1
  TIMEOUT_CYCLES = 2
  PACKETS <- MCPackets
  VALUES <- MCValues
  MAX_PACKETS = 2
  MAX_FAULTS = 1
SPECIFICATION PairSpec
INVARIANTS Authentic CommittedWhole IntactDispatched HuntsAfterSilence IndexInRange
PROPERTIES LockStep
