SPECIFICATION FairApprovalsSpec
CONSTANTS
  s1 = s1
  s2 = s2
  k1 = k1
  k2 = k2
  a1 = a1
  p1 = p1
  p2 = p2
  g1 = g1
  None = None
  Submissions = {s1}
  Sessions = {k1, k2}
  Agents = {a1}
  Owners = {n1}
  SessionOf <- MCSessionOf
  AgentOf <- MCAgentOf
  Malformed = {}
  Durabilities <- MCDurabilities
  DefaultMaxAttempts = 2
  DefaultTimeout = 1
  MaxAttemptIds = 1
  MaxTime = 1
  Proposals = {p1, p2}
  SubmissionOf <- MCSameSubmission
  Groups = {g1}
  GroupOf <- MCGroupOf
  HostAnswers = {"approved", "rejected"}
  CallModes = {"ask", "granted", "denied"}
  ApprovalLifetimes <- MCLifetimes
  GrantLifetimes <- MCOneLifetime
INVARIANTS
  DeniedIsNeverApproved
PROPERTIES
  FirstDecisionWins
  GrantsApproveWhatTheyCover
  ParkedSubmissionWakes
CHECK_DEADLOCK FALSE
