SPECIFICATION ConsoleSpec
CONSTANTS
  t1 = t1  e1 = e1  e2 = e2  a1 = a1  None = None
  MaxCommands = 1
  Kinds = {"diagnose", "revoke"}
  Req = {}
  Admin = {a1}
  MaxServerFaults = 0
  BatchLimit = 1
  MaxLosses = 0
  CountLosses = FALSE
  RowsLapse = FALSE
  Tab = {t1}
  Email = {e1, e2}
  SessionTtl = 1
  StepUpTtl = 0
  MaxTime = 2
INVARIANTS DestructiveIsVouched
PROPERTIES EveryClickSettles
