SPECIFICATION FairSpec
CONSTANTS
  r1 = r1  r2 = r2  a1 = a1
  MaxCommands = 2
  Kinds = {"pause", "resume"}
  Req = {r1}
  Admin = {a1}
  MaxServerFaults = 0
  BatchLimit = 2
  MaxLosses = 0
  CountLosses = TRUE
  RowsLapse = FALSE
  MaxAgentFaults = 0
  MaxAcks = 1
  MaxBeats = 1
  Prompt = TRUE
PROPERTIES PausedConverges
