\* one host that is removed and added again while its probe runs
CONSTANTS
  h1 = h1
  h2 = h2
  Hosts = {h1}
  Pool = {w1, w2}
  Configs <- OneHost
  MaxEdits = 1
  MaxUpdates = 2
SPECIFICATION Spec
SYMMETRY Workers
INVARIANTS
  IInv
  SubmittableHosts
  OwnIncarnation
  PollingTruthful
  NoLostWakeup
