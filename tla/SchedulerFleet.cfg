\* two hosts share workers whose limit an update lowers
CONSTANTS
  h1 = h1
  h2 = h2
  Hosts = {h1, h2}
  Pool = {w1, w2}
  Configs <- TwoHosts
  MaxEdits = 0
  MaxUpdates = 1
SPECIFICATION Spec
SYMMETRY Workers
PROPERTIES
  WorkerLimit
  RequestKept
