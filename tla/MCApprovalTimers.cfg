SPECIFICATION ApprovalsSpec
CONSTANTS
  s1 = s1
  s2 = s2
  k1 = k1
  k2 = k2
  a1 = a1
  p1 = p1
  p2 = p2
  g1 = g1
  None = None
  Submissions = {s1}
  Sessions = {k1, k2}
  Agents = {a1}
  Owners = {n1, n2}
  SessionOf <- MCSessionOf
  AgentOf <- MCAgentOf
  Malformed = {}
  Durabilities <- MCDurabilities
  DefaultMaxAttempts = 2
  DefaultTimeout = 1
  MaxAttemptIds = 3
  MaxTime = 3
  Proposals = {p1}
  SubmissionOf <- MCSameSubmission
  Groups = {g1}
  GroupOf <- MCNoGroup
  HostAnswers = {"approved", "rejected", "expired", "canceled", "aborted"}
  CallModes = {"ask"}
  ApprovalLifetimes <- MCLifetimes
  GrantLifetimes <- MCOneLifetime
INVARIANTS
  ApprovalsTypeOK
  WaitingHasPendingDecision
  AbortedNeverWaits
  RunningIsCharged
PROPERTIES
  ApprovalWaitKeepsBudget
CHECK_DEADLOCK FALSE
