\* two saves of the settings, no failure and no edit by hand
CHECK_DEADLOCK FALSE
CONSTANTS
  h1 = h1
  h2 = h2
  Handlers <- HandlerThreads
  Scanned = {"a", "b", "c", "e", "git", "m"}
  CodeHosts = {"git"}
  Documents <- WrittenByHand
  Requests <- TwoIntervals
  Faults = {}
  MaxEdits = 0
SPECIFICATION ConfigSpec
INVARIANT CadenceConfigured
