SPECIFICATION Spec
CONSTANTS
  r1 = r1  r2 = r2  a1 = a1
  MaxCommands = 1
  Kinds = {"resync"}
  Req = {r1}
  Admin = {a1}
  MaxServerFaults = 0
  BatchLimit = 2
  MaxLosses = 0
  CountLosses = FALSE
  RowsLapse = TRUE
  MaxAgentFaults = 0
  MaxAcks = 1
  MaxBeats = 0
  Prompt = FALSE
INVARIANTS CanceledNeverRuns
CHECK_DEADLOCK FALSE
