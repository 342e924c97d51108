SPECIFICATION ApprovalsSpec
CONSTANTS
  s1 = s1
  s2 = s2
  k1 = k1
  k2 = k2
  a1 = a1
  p1 = p1
  p2 = p2
  g1 = g1
  None = None
  Submissions = {s1, s2}
  Sessions = {k1, k2}
  Agents = {a1}
  Owners = {n1}
  SessionOf <- MCSessionOf
  AgentOf <- MCAgentOf
  Malformed = {}
  Durabilities <- MCDurabilities
  DefaultMaxAttempts = 2
  DefaultTimeout = 1
  MaxAttemptIds = 2
  MaxTime = 0
  Proposals = {p1, p2}
  SubmissionOf <- MCOwnSubmission
  Groups = {g1}
  GroupOf <- MCGroupOf
  HostAnswers = {"approved", "rejected"}
  CallModes = {"ask"}
  ApprovalLifetimes <- MCNoLifetime
  GrantLifetimes <- MCNoLifetime
INVARIANTS
  ExecutesInAdmissionOrder
PROPERTIES
  PromiseIsKept
CHECK_DEADLOCK FALSE
