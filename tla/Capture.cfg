SPECIFICATION Spec
CONSTANTS
  MaxRow = 3
  BatchSize = 2
  MaxAttempts = 1
  MaxTicks = 3
  MaxFailures = 1
  MaxResyncs = 1
  MaxForm = 2
  MayRevoke = TRUE
  MayPause = FALSE
  Shared = {2}
  Meta = {1}
  Poison = {}
  Malformed = {3}
  MayRefuse = TRUE
  MaxLate = 1
  MaxOutages = 0
  CountOutages = FALSE
  MayLosePower = FALSE
INVARIANTS NothingSkipped ArchiveIsCaptured AwaitedBatch RepeatsNeedACause
PROPERTIES WriteOnce
CHECK_DEADLOCK FALSE
