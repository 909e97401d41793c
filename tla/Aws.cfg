SPECIFICATION FairSpec
CONSTANTS
  d1 = d1  d2 = d2  c1 = c1
  Device = {d1, d2}
  Sender = d1
  Code = {c1}
  MaxRow = 2
  MaxForm = 2
  BatchLimit = 2
  MaxReceives = 2
INVARIANTS TypeOK CodePairsOne AttestedIsEnrolled UsedCodeEnrolled IndexedIsStored OneObjectPerPost AcceptedIsKept
PROPERTIES IndexWriteOnce EveryRecordSettles
CHECK_DEADLOCK FALSE
