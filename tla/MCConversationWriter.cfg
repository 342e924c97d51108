SPECIFICATION Spec
CONSTANTS
  p1 = p1
  p2 = p2
  a1 = a1
  a2 = a2
  None = None
  Producers = {p1, p2}
  Attempts = {}
  Refused = {3}
  MaxEpochs = 2
  MaxRecords = 3
  MaxPending = 0
  Folding = {p1}
INVARIANTS
  TypeOK
  RecordsLandOnce
  ClaimsFollowEachOther
  TailLandsInOrder
  FoldsNeverRepeat
PROPERTIES
  HostsNeverGoBack
  LandedBatchesAreConfirmed
  LogPromiseIsKept
CHECK_DEADLOCK FALSE
CONSTRAINT FewCallsWhenFolding
