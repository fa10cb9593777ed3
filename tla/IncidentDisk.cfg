\* a filesystem whose critical line moves; nothing is stored
CONSTANTS
  g1 = g1
  Categories = {"connectivity", "disk"}
  Gpus = {}
  ExpectedGpus = 0
  Threshold = 2
  Critical = 4
  Margin = 1
  OpenCycles = 2
  OpenSeconds = 1
  RecoveryCycles = 2
  Samples <- DiskSamples
  QueueSize = 0
  Window = 3
  MaxRestarts = 0
  MaxRemovals = 1
SPECIFICATION UnstoredSpec
INVARIANTS
  TrackerAgrees
PROPERTIES
  OpenConfirmed
  ChangeConfirmed
  ResolveConfirmed
