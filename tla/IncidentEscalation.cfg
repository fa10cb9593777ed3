\* a filesystem dips below its threshold while headroom is short
CONSTANTS
  g1 = g1
  Categories = {"disk"}
  Gpus = {}
  ExpectedGpus = 0
  Threshold = 2
  Critical = 4
  Margin = 1
  OpenCycles = 2
  OpenSeconds = 0
  RecoveryCycles = 2
  Samples <- DiskSamples
  QueueSize = 0
  Window = 1
  MaxRestarts = 0
  MaxRemovals = 0
SPECIFICATION UnstoredSpec
PROPERTY
  EscalatesAboveThreshold
