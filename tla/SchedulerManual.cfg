\* a manual request meets a changed interval
CONSTANTS
  h1 = h1
  h2 = h2
  Hosts = {h1}
  Pool = {w1}
  Configs <- TwoIntervals
  MaxEdits = 0
  MaxUpdates = 1
SPECIFICATION Spec
INVARIANT
  ManualNotSleptOn
