\* two handlers and one edit by hand; payloads of two GPUs, processes and disks with
\* one fault; seven instants of a cadence; two probe threads; three versions of the
\* program and two attempts to update it; a discovery of four aliases; it, a payload
\* and a shutdown end, and so does the model
CHECK_DEADLOCK FALSE
CONSTANTS
  h1 = h1
  h2 = h2
  p1 = p1
  p2 = p2
  Handlers <- HandlerThreads
  Scanned = {"a", "b", "c", "e", "git", "m"}
  CodeHosts = {"git"}
  Documents <- WrittenByHand
  Requests <- EveryRequest
  Faults = {"write", "apply"}
  MaxEdits = 1
  Samples <- EverySample
  Machines <- MonitoredMachines
  MaxGpus = 2
  MaxProcesses = 2
  MaxDisks = 2
  MaxFaults = 1
  Interval = 1
  IdleStretch = 4
  UnattendedStretch = 6
  Modes = {"m1", "m2"}
  LastInstant = 7
  Known <- Aliases
  Fleet <- FleetOf
  Setups <- SetupsOfFour
  Ways <- EveryWay
  MaxLinks = 4
  MaxFailures = 1
  Probes <- ProbeThreads
  Versions = {1, 2, 3}
  Attempts = {1, 2}
SYMMETRY Threads
SPECIFICATION ControlSpec
INVARIANTS
  ChangesAccepted
  MigrationAccepted
  DiscoverySound
  ScriptUnderstood
  NothingInvented
  NobodyLeftWaiting
  UpdatesOwned
PROPERTIES
  NoChangeLost
  SkippedOnlyWhenFresh
