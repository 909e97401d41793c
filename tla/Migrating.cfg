SPECIFICATION FairSpec
CONSTANTS
  Runner = {d1, d2, d3}
  MaxRelease = 2
INVARIANTS AppliedOnce InOrder SuccessMeansMigrated
PROPERTIES EveryRunReports
CHECK_DEADLOCK FALSE
