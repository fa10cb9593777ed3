\* a condition is acknowledged while its event waits
CHECK_DEADLOCK FALSE
CONSTANTS
  h1 = h1
  Conditions <- OneCondition
  Subscriptions <- Subscribed
  Actions = {"acknowledged"}
  QueueSize = 2
  PairSize = 1
  BindSize = 4
  MaxAttempts = 2
  MaxEvents = 2
  MaxTroubles = 1
SPECIFICATION Spec
PROPERTY
  ActionableSent
