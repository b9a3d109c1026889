CONSTANTS
  FRAME_LEN = 5
  HOP_LEN = 2
  FILES <- AllFiles
  CLIP_SAMPLES = 14
  WIN_FRAMES = 3
  JITTER = 1
  WHOLE_MAX_SAMPLES = 18
  RATES = {1100, 1150}
  NOISE_LEN = 16
  OPTIONS <- AllOptions
  MANIFESTS <- AllManifests
  MIC_N_BUF = 3
  MIC_BUF_LEN = 4
  MAX_HEARD = 25
  SOURCES = {"wav", "mic", "synth"}
SPECIFICATION Spec
CHECK_DEADLOCK FALSE
INVARIANTS LiveIsTheSignal MicInOrder RecordsAreTrue
