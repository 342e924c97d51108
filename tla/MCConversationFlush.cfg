SPECIFICATION FairSpec
CONSTANTS
  p1 = p1
  p2 = p2
  a1 = a1
  a2 = a2
  None = None
  Producers = {p1}
  Attempts = {a1}
  Refused = {}
  MaxEpochs = 1
  MaxRecords = 3
  MaxPending = 2
  Folding = {}
INVARIANTS
  BatchesHaveOneOwner
PROPERTY EveryRecordIsAnswered
CHECK_DEADLOCK FALSE
