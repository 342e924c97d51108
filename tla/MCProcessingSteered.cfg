SPECIFICATION ProcessingSpec
CONSTANTS
  s1 = s1
  s2 = s2
  k1 = k1
  g1 = g1
  x1 = x1
  x2 = x2
  Submissions = {s1, s2}
  Sessions = {k1}
  Agents = {g1}
  Owners = {o1}
  SessionOf <- OneSession
  AgentOf <- OneAgent
  Malformed = {}
  Durabilities <- TwoTries
  DefaultMaxAttempts = 2
  DefaultTimeout = 1
  None = None
  MaxAttemptIds = 2
  MaxTime = 0
  Executors = {x1}
  MaxTurns = 2
  MaxCycles = 0
  MaxCrashes = 1
INVARIANT SteeredInputIsAnswered
CHECK_DEADLOCK FALSE
