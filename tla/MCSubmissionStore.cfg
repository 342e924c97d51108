SPECIFICATION Spec
CONSTANTS
  s1 = s1
  s2 = s2
  s3 = s3
  k1 = k1
  a1 = a1
  None = None
  Submissions = {s1, s2, s3}
  Sessions = {k1}
  Agents = {a1}
  Owners = {n1}
  SessionOf <- MCSessionOf
  AgentOf <- MCAgentOf
  Malformed = {s3}
  Durabilities <- MCDurabilities
  DefaultMaxAttempts = 2
  DefaultTimeout = 1
  MaxAttemptIds = 2
  MaxTime = 1
CONSTRAINT ClockForTwo
SYMMETRY Symmetric
INVARIANTS
  TypeOK
  JoinsFollowTheirHost
  ColumnsMatchStatus
PROPERTIES
  SettledIsFinal
  ObligationIsKept
  HostSettlementReleasesJoins
CHECK_DEADLOCK FALSE
