SPECIFICATION Spec
CONSTANTS
  Device = {d1}
  Code = {c1, c2}
  MaxKeys = 2
INVARIANTS RegisteredKeyIsHeld MarkerMeansReady ConsumedIsEnrolled OneCodePerDevice
CHECK_DEADLOCK FALSE
