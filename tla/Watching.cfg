SPECIFICATION Spec
CONSTANTS
  HeartbeatWarn = 1
  HeartbeatCrit = 2
  SilentWarn = 3
  SilentCrit = 4
  Freshness = 1
  Ahead = 1
  Queues = {"short", "long"}
  MaxTime = 5
  MaxBeats = 2
  MaxStarts = 1
INVARIANTS HealthyMeansAlive DeadIsCritical
PROPERTIES RevokedStays
CHECK_DEADLOCK FALSE
