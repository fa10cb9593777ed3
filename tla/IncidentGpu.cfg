\* blind spots and departures of a GPU; nothing is stored
CONSTANTS
  g1 = g1
  Categories = {"gpu_availability", "gpu_count", "gpu_temperature", "cpu"}
  Gpus = {g1}
  ExpectedGpus = 1
  Threshold = 2
  Critical = 4
  Margin = 1
  OpenCycles = 2
  OpenSeconds = 0
  RecoveryCycles = 2
  Samples <- GpuSamples
  QueueSize = 0
  Window = 2
  MaxRestarts = 0
  MaxRemovals = 0
SPECIFICATION UnstoredFairSpec
PROPERTIES
  ResolveConfirmed
  Recovers
  Opens
