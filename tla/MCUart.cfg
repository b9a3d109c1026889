CONSTANTS
  DEPTH = 4
  VALUES = {1, 2, 3}
  CLKS_PER_BIT = 16
  DATA_BITS = 6
  BYTES <- TestBytes
  DRIFT = 4
  PULSES = {1, 3, 9}
  GAPS = {0, 5, 17}
SPECIFICATION FairSpec
INVARIANTS ReceivedAsDriven SentAsTaken
PROPERTIES ImplementsQueue EveryByteArrives
