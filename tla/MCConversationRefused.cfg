SPECIFICATION FairSpec
CONSTANTS
  p1 = p1
  p2 = p2
  a1 = a1
  a2 = a2
  None = None
  Producers = {p1}
  Attempts = {}
  Refused = {1}
  MaxEpochs = 1
  MaxRecords = 2
  MaxPending = 1
  Folding = {p1}
PROPERTY EveryRecordIsAnswered
CHECK_DEADLOCK FALSE
