SPECIFICATION FairCoordinatorSpec
CONSTANTS
  s1 = s1
  s2 = s2
  k1 = k1
  g1 = g1
  None = None
  Submissions = {s1, s2}
  Sessions = {k1}
  Agents = {g1}
  Owners = {o1}
  SessionOf <- OneSession
  AgentOf <- OneAgent
  Malformed = {}
  Durabilities <- OneDurability
  DefaultMaxAttempts = 2
  DefaultTimeout = 1
  MaxAttemptIds = 2
  MaxTime = 1
  MaxFaults = 1
INVARIANTS
  CoordinatorTypeOK
  NoWakeIsLost
  TasksAreTracked
PROPERTIES
  NothingStartsAfterShutdown
  CoordinatorMakesProgress
CHECK_DEADLOCK FALSE
CONSTRAINT TroubleForOne
