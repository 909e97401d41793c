SPECIFICATION Spec
CONSTANTS
  r1 = r1  r2 = r2  a1 = a1
  MaxCommands = 1
  Kinds = {"diagnose", "pause", "restart_agent", "restart_machine", "revoke", "upgrade"}
  Req = {r1, r2}
  Admin = {a1}
  MaxServerFaults = 0
  BatchLimit = 2
  MaxLosses = 0
  CountLosses = FALSE
  RowsLapse = TRUE
  MaxAgentFaults = 1
  MaxAcks = 2
  MaxBeats = 0
  Prompt = FALSE
INVARIANTS RestartsAtMostOnce RepeatsNeedAFault SuccessMeansRun SuccessIsLogged UnofferedNeverSeen RevokedIsWiped
PROPERTY KeepsLedger
CHECK_DEADLOCK FALSE
