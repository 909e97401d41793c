SPECIFICATION FairSpec
CONSTANTS
  r1 = r1  r2 = r2  a1 = a1
  MaxCommands = 1
  Kinds = {"pause", "restart_machine", "revoke"}
  Req = {r1}
  Admin = {a1}
  MaxServerFaults = 1
  BatchLimit = 2
  MaxLosses = 1
  CountLosses = TRUE
  RowsLapse = TRUE
  MaxAgentFaults = 1
  MaxAcks = 1
  MaxBeats = 0
  Prompt = TRUE
PROPERTIES EveryCommandCloses EveryCommandAnswered
CHECK_DEADLOCK FALSE
