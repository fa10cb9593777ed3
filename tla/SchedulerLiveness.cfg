\* one host, every discovery mode, an update that overtakes it
CONSTANTS
  h1 = h1
  h2 = h2
  Hosts = {h1}
  Pool = {w1}
  Configs <- OneHost
  MaxEdits = 0
  MaxUpdates = 1
SPECIFICATION FairSpec
PROPERTIES
  ManualProbeServed
  StopTerminates
  ProbedAgain
  InventoryConverges
