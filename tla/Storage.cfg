\* the writer: a queue and a batch of two, three writes, two flushes; the GPU
\* history: hours of two instants and three to be sampled, the clock beyond them; the
\* incidents: a disk whose conditions open and recover at once, one restart and one
\* removal; the other machines are instantiated in MCStorage; the process may stop, so
\* may the model
CHECK_DEADLOCK FALSE
CONSTANTS
  f1 = f1
  f2 = f2
  Kinds = {"gpu", "incident"}
  Capacity = 2
  BatchSize = 2
  Lines = {1, 2}
  Calls <- FlushCalls
  MaxWrites = 3
  Times = {0, 1, 3}
  Clock = {0, 2, 6}
  HourLength = 2
  Retention = 1
  RollupHours = 4
  Values = {1, 2}
  Thresholds = {2, 3}
  MaxSamples = 3
  Categories = {"disk"}
  Gpus = {}
  ExpectedGpus = 0
  Threshold = 2
  Critical = 4
  Margin = 1
  OpenCycles = 1
  OpenSeconds = 0
  RecoveryCycles = 1
  Samples <- DiskSamples
  QueueSize = 2
  Window = 0
  MaxRestarts = 1
  MaxRemovals = 1
SYMMETRY Flushers
SPECIFICATION StorageSpec
INVARIANTS
  CacheAgrees
  BarriersHeld
  RollupExact
  OccupancyExact
  UsageCountsUnits
  DurableAgrees
PROPERTIES
  Implements
  FlushHonest
