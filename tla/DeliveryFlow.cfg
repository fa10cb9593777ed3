\* one host, two conditions, a pairing table for one of them
CHECK_DEADLOCK FALSE
CONSTANTS
  h1 = h1
  Conditions <- TwoConditions
  Subscriptions <- Subscribed
  Actions = {"silenced"}
  QueueSize = 2
  PairSize = 1
  BindSize = 2
  MaxAttempts = 2
  MaxEvents = 3
  MaxTroubles = 2
SPECIFICATION FairSpec
INVARIANTS
  NoHangingAlert
  AlertsArrive
PROPERTIES
  RecoveriesPair
  NoRepeatedOpen
  Settles
