SPECIFICATION Spec
CONSTANTS
  HeartbeatWarn = 1
  HeartbeatCrit = 2
  SilentWarn = 3
  SilentCrit = 4
  Freshness = 1
  Ahead = 0
  Queues = {"short", "long"}
  MaxTime = 5
  MaxBeats = 2
  MaxStarts = 1
INVARIANTS SilentMeansQuiet
CHECK_DEADLOCK FALSE
