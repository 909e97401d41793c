SPECIFICATION FairSpec
CONSTANTS
  MaxRow = 3
  BatchSize = 2
  MaxAttempts = 1
  MaxTicks = 3
  MaxFailures = 1
  MaxResyncs = 0
  MaxForm = 1
  MayRevoke = FALSE
  MayPause = TRUE
  Shared = {2}
  Meta = {}
  Poison = {3}
  Malformed = {}
  MayRefuse = FALSE
  MaxLate = 1
  MaxOutages = 1
  CountOutages = TRUE
  MayLosePower = TRUE
INVARIANTS NothingSkipped
PROPERTIES EveryRowArchived
CHECK_DEADLOCK FALSE
