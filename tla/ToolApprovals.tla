---------------------------- MODULE ToolApprovals ----------------------------
(***************************************************************************)
(* Durable tool approvals on top of the submission ledger: the tables      *)
(* flue_tool_approvals and flue_tool_escalation_grants, the operations of  *)
(* AgentSubmissionStoreImpl that write them, and the parking of a          *)
(* submission until its proposals are decided.                             *)
(*                                                                         *)
(* As in SubmissionStore every operation is one transaction, hence one     *)
(* action, and attempts that lost their submission may still call.  The    *)
(* callers' choices the store relies on are guards: a session proposes     *)
(* only for a submission it has run, and decides by mode or by grant only  *)
(* as the mode frozen with the proposal says (Session.applyToolEscalation).*)
(***************************************************************************)
EXTENDS SubmissionStore

CONSTANTS
  Proposals,         \* proposal ids: one per gated tool call
  SubmissionOf,      \* the submission that made the call
  Groups,            \* escalation groups
  GroupOf,           \* the group of the call's tool, or None
  CallModes,         \* escalation modes the agents' renders declare
  HostAnswers,       \* decisions hosts send
  ApprovalLifetimes, \* approval.expiresInMs of the tools (None: no deadline)
  GrantLifetimes     \* escalation expiresInMs (None: until revoked)

ASSUME ProposalsAssumption ==
  /\ None \notin Groups
  /\ None \notin Proposals
  /\ Proposals \cap {"host", "mode"} = {}
  /\ SubmissionOf \in [Proposals -> Submissions]
  /\ GroupOf \in [Proposals -> Groups \cup {None}]
  /\ CallModes \subseteq {"ask", "granted", "denied"}
  /\ HostAnswers \subseteq {"approved", "rejected", "expired", "canceled", "aborted"}
  /\ ApprovalLifetimes \subseteq (Nat \ {0}) \cup {None}
  /\ GrantLifetimes \subseteq (Nat \ {0}) \cup {None}

VARIABLES
  approvals, \* flue_tool_approvals, by proposal id
  grants     \* flue_tool_escalation_grants, by the proposal that created them

approvalVars == <<rows, lastSequence, lastAttempt, now, approvals, grants>>

-----------------------------------------------------------------------------
(* Proposals and grants *)

Modes == {"ask", "granted", "denied"}
Decided == {"approved", "rejected", "expired", "canceled", "aborted"}
Deciders == {None, "host", "mode"} \cup Proposals

Approval == [status      : {"absent", "pending"} \cup Decided,
             requestedAt : Nat,
             expiresAt   : Nat \cup {None},
             mode        : Modes,                       \* escalation.mode
             lifetime    : Nat \cup {None},             \* escalation.expiresInMs, if grouped
             via         : Deciders]                    \* decided_via

Grant == [status    : {"absent", "active", "revoked"},
          grantedAt : Nat,
          expiresAt : Nat \cup {None}]

NoApproval == [status |-> "absent", requestedAt |-> 0, expiresAt |-> None,
               mode |-> "ask", lifetime |-> None, via |-> None]
NoGrant == [status |-> "absent", grantedAt |-> 0, expiresAt |-> None]

After(lifetime) == IF lifetime = None THEN None ELSE now + lifetime

Pending(p) == approvals[p].status = "pending"
Overdue(p) == approvals[p].expiresAt # None /\ approvals[p].expiresAt <= now
PendingFor(s) == {p \in Proposals : SubmissionOf[p] = s /\ Pending(p)}

\* A grant covers a call by the time the call was requested.
OpenAt(grant, at) == grant.expiresAt = None \/ grant.expiresAt > at

\* Mutant: revoked grants still count.
EverGranted(g, at) ==
  LET active == {p \in Proposals : /\ GroupOf[p] = g
                                   /\ grants[p].status # "absent"
                                   /\ OpenAt(grants[p], at)}
  IN  {p \in active : \A q \in active : grants[q].grantedAt <= grants[p].grantedAt}

\* The most recent unrevoked grant of the group that had not expired at a time.
\* Grants of the same instant are ordered by their ids, here in any order.
ActiveGrants(g, at) ==
  LET active == {p \in Proposals : /\ GroupOf[p] = g
                                   /\ grants[p].status = "active"
                                   /\ OpenAt(grants[p], at)}
  IN  {p \in active : \A q \in active : grants[q].grantedAt <= grants[p].grantedAt}

-----------------------------------------------------------------------------
ApprovalsInit ==
  /\ Init
  /\ approvals = [p \in Proposals |-> NoApproval]
  /\ grants = [p \in Proposals |-> NoGrant]

\* INSERT OR IGNORE of a pending proposal; its deadline, its mode and the life
\* of a grant it may create are frozen with it.  The attempt that proposes may
\* be one that already lost the submission.
CreateApproval(p, mode, lifetime, grantLifetime) ==
  LET s == SubmissionOf[p]
  IN  /\ approvals[p].status = "absent"
      /\ rows[s].attemptCount > 0 \/ (rows[s].inputApplied /\ rows[s].joinedInto = None)
      /\ GroupOf[p] = None => mode = "ask"
      /\ approvals' = [approvals EXCEPT ![p] =
           [status |-> "pending", requestedAt |-> now, expiresAt |-> After(lifetime),
            mode |-> mode, lifetime |-> grantLifetime, via |-> None]]
      /\ UNCHANGED <<rows, lastSequence, lastAttempt, now, grants>>

\* The running attempt gives its submission up until a proposal is decided; the
\* unused part of its budget is kept in the row.
Parked(r) ==
  [r EXCEPT !.status = "waiting", !.remaining = r.timeoutAt - now, !.timeoutAt = 0,
            !.attempt = NoAttempt, !.startedAt = 0, !.owner = None, !.lease = "none"]

\* Mutants: the park forgets the abort, the deadline, or the pending proposal.
ParkAborted(s, a) ==
  /\ Runs(s, a) /\ rows[s].timeoutAt > now /\ PendingFor(s) # {}
  /\ Write(s, Parked(rows[s])) /\ UNCHANGED <<approvals, grants>>
ParkLate(s, a) ==
  /\ Runs(s, a) /\ ~rows[s].abortRequested /\ PendingFor(s) # {}
  /\ Write(s, Parked(rows[s])) /\ UNCHANGED <<approvals, grants>>
ParkUndecided(s, a) ==
  /\ Runs(s, a) /\ ~rows[s].abortRequested /\ rows[s].timeoutAt > now
  /\ Write(s, Parked(rows[s])) /\ UNCHANGED <<approvals, grants>>

Park(s, a) ==
  /\ Runs(s, a)
  /\ ~rows[s].abortRequested
  /\ rows[s].timeoutAt > now
  /\ PendingFor(s) # {}
  /\ Write(s, Parked(rows[s]))
  /\ UNCHANGED <<approvals, grants>>

\* Mutant: the resumed row forgets the unused budget.
ResumedAfresh(r) ==
  [r EXCEPT !.status = "queued",
            !.attemptCount = IF r.attemptCount > 0 THEN r.attemptCount - 1 ELSE 0,
            !.timeoutAt = 0, !.remaining = None, !.attempt = NoAttempt,
            !.startedAt = 0, !.owner = None, !.lease = "none"]

\* The last decision puts a parked submission back in the queue.  The wait does
\* not count as an attempt.
Resumed(r) ==
  [r EXCEPT !.status = "queued",
            !.attemptCount = IF r.attemptCount > 0 THEN r.attemptCount - 1 ELSE 0,
            !.timeoutAt = 0,
            !.remaining = IF r.remaining = None THEN 1 ELSE r.remaining,
            !.attempt = NoAttempt, !.startedAt = 0, !.owner = None, !.lease = "none"]

ResumeIfNoPending(s, P) ==
  IF /\ \E p \in P : SubmissionOf[p] = s
     /\ PendingFor(s) \subseteq P
     /\ rows[s].status = "waiting"
    THEN Resumed(rows[s])
    ELSE rows[s]

\* A deciding transaction: the proposals P, all pending, get their verdicts,
\* then each of their submissions is resumed if that was its last one.
DecideAll(P, verdict) ==
  /\ approvals' = [p \in Proposals |->
       IF p \in P
         THEN [approvals[p] EXCEPT !.status = verdict[p].status, !.via = verdict[p].via]
         ELSE approvals[p]]
  /\ rows' = [s \in Submissions |-> ResumeIfNoPending(s, P)]
  /\ UNCHANGED <<lastSequence, lastAttempt, now>>

\* What a decision becomes: a late one is an expiry, and no approval reaches a
\* call made under "denied".
Verdict(p, status, via) ==
  IF Overdue(p) THEN [status |-> "expired", via |-> None]
  ELSE IF status = "approved" /\ approvals[p].mode = "denied"
    THEN [status |-> "rejected", via |-> "mode"]
  ELSE [status |-> status, via |-> via]

\* Mutant: a decision overwrites an earlier one.
DecideAgain(p, status, via) ==
  approvals[p].status # "absent" /\ DecideAll({p}, [q \in {p} |-> Verdict(q, status, via)])

Decide(p, status, via) ==
  Pending(p) /\ DecideAll({p}, [q \in {p} |-> Verdict(q, status, via)])

Escalates(p, escalate) ==
  escalate /\ GroupOf[p] # None /\ Verdict(p, "approved", "host").status = "approved"

\* A host answers with any decided status; an approval covers one call only.
HostDecides(p, status, escalate) ==
  /\ ~(status = "approved" /\ Escalates(p, escalate))
  /\ Decide(p, status, "host")
  /\ UNCHANGED grants

\* Mutants: the escalation also approves denied calls, or decided ones.
CoveredDenied(p, grant) ==
  {q \in Proposals : /\ q # p /\ Pending(q) /\ ~Overdue(q)
                     /\ GroupOf[q] = GroupOf[p]
                     /\ OpenAt(grant, approvals[q].requestedAt)}
CoveredDecided(p, grant) ==
  {q \in Proposals : /\ q # p /\ approvals[q].status # "absent" /\ ~Overdue(q)
                     /\ GroupOf[q] = GroupOf[p]
                     /\ approvals[q].mode # "denied"
                     /\ OpenAt(grant, approvals[q].requestedAt)}

\* Pending calls of p's group that a grant approves along with p.
Covered(p, grant) ==
  {q \in Proposals : /\ q # p /\ Pending(q) /\ ~Overdue(q)
                     /\ GroupOf[q] = GroupOf[p]
                     /\ approvals[q].mode # "denied"
                     /\ OpenAt(grant, approvals[q].requestedAt)}

\* Mutant: only the submission of the decided call is resumed.
ApproveWithoutWaking(p, g, grant) ==
  LET P == {p} \cup Covered(p, grant)
  IN  /\ approvals' = [q \in Proposals |->
           IF q \in P THEN [approvals[q] EXCEPT !.status = "approved",
                                                !.via = IF q = p THEN "host" ELSE g]
           ELSE approvals[q]]
      /\ rows' = [s \in Submissions |-> ResumeIfNoPending(s, {p})]
      /\ UNCHANGED <<lastSequence, lastAttempt, now>>

ApproveWithCovered(p, g, grant) ==
  LET others == Covered(p, grant)
  IN  DecideAll({p} \cup others,
        [q \in {p} \cup others |->
           [status |-> "approved", via |-> IF q = p THEN "host" ELSE g]])

\* A host approves a call and with it the group, under the grant the group has
\* or a new one.
HostEscalates(p) ==
  /\ Pending(p)
  /\ Escalates(p, TRUE)
  /\ IF ActiveGrants(GroupOf[p], now) # {}
       THEN \E g \in ActiveGrants(GroupOf[p], now) :
              ApproveWithCovered(p, g, grants[g]) /\ UNCHANGED grants
       ELSE LET grant == [status |-> "active", grantedAt |-> now,
                          expiresAt |-> After(approvals[p].lifetime)]
            IN  /\ grants' = [grants EXCEPT ![p] = grant]
                /\ ApproveWithCovered(p, p, grant)

\* The session applies the mode frozen with the proposal.
ModeDecides(p) ==
  /\ GroupOf[p] # None
  /\ \/ approvals[p].mode = "granted" /\ Decide(p, "approved", "mode")
     \/ approvals[p].mode = "denied" /\ Decide(p, "rejected", "mode")
  /\ UNCHANGED grants

\* The session asks for a grant that covers the call.
GrantDecides(p) ==
  /\ GroupOf[p] # None
  /\ approvals[p].mode = "ask"
  /\ \E g \in ActiveGrants(GroupOf[p], approvals[p].requestedAt) :
       Decide(p, "approved", g)
  /\ UNCHANGED grants

\* The runtime closes what a failed or aborted submission left pending.
RuntimeCloses(p, status) ==
  /\ Decide(p, status, None)
  /\ UNCHANGED grants

\* Mutant: the sweep resumes nobody.
ExpireWithoutResume ==
  LET overdue == {p \in Proposals : Pending(p) /\ Overdue(p)}
  IN  /\ overdue # {}
      /\ approvals' = [p \in Proposals |->
           IF p \in overdue THEN [approvals[p] EXCEPT !.status = "expired"] ELSE approvals[p]]
      /\ UNCHANGED <<rows, lastSequence, lastAttempt, now, grants>>

\* The sweep over overdue proposals.
ExpireOverdue ==
  LET overdue == {p \in Proposals : Pending(p) /\ Overdue(p)}
  IN  /\ overdue # {}
      /\ DecideAll(overdue, [p \in overdue |-> [status |-> "expired", via |-> None]])
      /\ UNCHANGED grants

RevokeEscalation(g) ==
  LET unrevoked == {p \in Proposals : GroupOf[p] = g /\ grants[p].status = "active"}
  IN  /\ unrevoked # {}
      /\ grants' = [p \in Proposals |->
           IF p \in unrevoked THEN [grants[p] EXCEPT !.status = "revoked"] ELSE grants[p]]
      /\ UNCHANGED <<rows, lastSequence, lastAttempt, now, approvals>>

\* The abort closes the proposals of the session's parked submissions and puts
\* those back in the queue, in one transaction.
AbortSession(k) ==
  /\ RequestSessionAbort(k)
  /\ approvals' = [p \in Proposals |->
       IF /\ Pending(p)
          /\ SessionOf[SubmissionOf[p]] = k
          /\ rows[SubmissionOf[p]].status = "waiting"
         THEN [approvals[p] EXCEPT !.status = "aborted"]
         ELSE approvals[p]]
  /\ UNCHANGED grants

-----------------------------------------------------------------------------
\* The ledger operations that leave both tables alone.
LedgerStep ==
  /\ \/ AdmissionStep
     \/ AttemptStep
     \/ SettlementStep
     \/ JoinStep
     \/ \E o \in Owners : RenewLeases(o)
     \/ Tick
  /\ UNCHANGED <<approvals, grants>>

ParkingStep ==
  \/ \E p \in Proposals, mode \in CallModes, lifetime \in ApprovalLifetimes,
        grantLifetime \in GrantLifetimes :
       CreateApproval(p, mode, lifetime, grantLifetime)
  \/ \E s \in Submissions, a \in AttemptIds : Park(s, a)

DecisionStep ==
  \E p \in Proposals :
    \/ \E status \in HostAnswers, escalate \in BOOLEAN :
         HostDecides(p, status, escalate)
    \/ HostEscalates(p)
    \/ ModeDecides(p)
    \/ GrantDecides(p)
    \/ \E status \in {"expired", "canceled", "aborted"} : RuntimeCloses(p, status)

ApprovalsNext ==
  \/ LedgerStep
  \/ ParkingStep
  \/ DecisionStep
  \/ ExpireOverdue
  \/ \E g \in Groups : RevokeEscalation(g)
  \/ \E k \in Sessions : AbortSession(k)

ApprovalsSpec == ApprovalsInit /\ [][ApprovalsNext]_approvalVars

\* Time passes, and while a submission is unsettled the coordinator's scheduled
\* passes come back and sweep.
Sweep == (\E s \in Submissions : Unsettled(s)) /\ ExpireOverdue

FairApprovalsSpec ==
  /\ ApprovalsSpec
  /\ WF_approvalVars(Tick /\ UNCHANGED <<approvals, grants>>)
  /\ WF_approvalVars(Sweep)

-----------------------------------------------------------------------------
(* Properties *)

\* Every table has its type, the ledger's included.
ApprovalsTypeOK ==
  /\ TypeOK
  /\ approvals \in [Proposals -> Approval]
  /\ grants \in [Proposals -> Grant]

\* No lost wakeup: a parked submission has an undecided proposal.  Its wake is
\* part of the transaction that decides its last one, whichever of the host, a
\* grant given for another submission's call, the sweep or an abort does so,
\* and a park that arrives after that decision does not happen.
WaitingHasPendingDecision ==
  \A s \in Submissions : rows[s].status = "waiting" => PendingFor(s) # {}

\* Abort beats approval: a submission asked to abort is not parked, neither
\* left so by the abort nor parked again by the attempt it interrupts.
AbortedNeverWaits ==
  \A s \in Submissions : ~(rows[s].status = "waiting" /\ rows[s].abortRequested)

\* The refund of the attempt an approval wait used is never one too many: what
\* runs or waits is charged for at least one attempt.
RunningIsCharged ==
  \A s \in Submissions :
    rows[s].status \in {"running", "waiting"} => rows[s].attemptCount > 0

\* What is left of the execution budget the agent configured.
Left(r) ==
  IF r.remaining # None THEN r.remaining
  ELSE IF r.timeoutAt > now THEN r.timeoutAt - now
  ELSE 0

\* Waiting for a decision neither costs nor refills execution time: from the
\* stamp of the budget on, whatever parks, resumes, claims and recoveries
\* follow, the time left never grows, and parked it stands still.
ApprovalWaitKeepsBudget ==
  [][\A s \in Submissions :
       /\ rows[s].inputApplied /\ rows'[s].inputApplied => Left(rows[s])' <= Left(rows[s])
       /\ rows[s].status = "waiting" /\ rows'[s].status = "waiting"
            => rows'[s].remaining = rows[s].remaining]_approvalVars

\* First decision wins: a decided proposal keeps its status and its decider,
\* so a late host answer cannot reverse an expiry, an abort or another host.
FirstDecisionWins ==
  [][\A p \in Proposals :
       approvals[p].status \in Decided => approvals'[p] = approvals[p]]_approvalVars

\* A call made under "denied" is never approved: not by a host that saw it
\* pending after a crash, not by a sibling's escalation, not by a grant.
DeniedIsNeverApproved ==
  \A p \in Proposals : approvals[p].mode = "denied" => approvals[p].status # "approved"

\* A grant approves only what it covers: a pending call of its own group, made
\* before the grant expired and still within its own deadline, and only while
\* the grant is not revoked.
GrantsApproveWhatTheyCover ==
  [][\A p, g \in Proposals :
       approvals[p].via = None /\ approvals'[p].via = g =>
         /\ approvals'[p].status = "approved"
         /\ GroupOf[g] = GroupOf[p] /\ GroupOf[p] # None
         /\ grants'[g].status = "active"
         /\ OpenAt(grants'[g], approvals[p].requestedAt)
         /\ ~Overdue(p)]_approvalVars

\* The time bound lets the deadline of p pass.
DeadlineComes(p) == approvals[p].expiresAt # None /\ approvals[p].expiresAt <= MaxTime

\* A parked submission wakes: unless one of its open proposals has no deadline,
\* it does not wait for ever even if no host ever answers.
ParkedSubmissionWakes ==
  \A s \in Submissions :
    rows[s].status = "waiting" ~>
      rows[s].status # "waiting" \/ \E p \in PendingFor(s) : ~DeadlineComes(p)
=============================================================================
