------------------------- MODULE ToolApprovalsProofs -------------------------
(***************************************************************************)
(* Proofs about ToolApprovals.  The invariant of the ledger (Inv of        *)
(* SubmissionStoreProofs) is carried over the approval operations, which   *)
(* also write its rows, and extended by what the tables of proposals and   *)
(* grants promise.                                                         *)
(***************************************************************************)
EXTENDS ToolApprovals, LedgerRefinementProofs

-----------------------------------------------------------------------------
(* The inductive invariant *)

AInv ==
  /\ Inv
  /\ ApprovalsTypeOK
  /\ WaitingHasPendingDecision
  /\ AbortedNeverWaits
  /\ RunningIsCharged
  /\ DeniedIsNeverApproved

\* A step parks nobody: what waits after it waited before it, unchanged.
ParksNobody == \A s \in Submissions : rows'[s].status = "waiting" => rows'[s] = rows[s]

\* A step charges what it makes run.
ChargesWhatRuns ==
  \A s \in Submissions :
    rows'[s].status \in {"running", "waiting"} => rows'[s].attemptCount > 0

LEMMA ApprovalFacts ==
  ASSUME AInv, NEW p \in Proposals
  PROVE  /\ approvals[p] \in Approval
         /\ grants[p] \in Grant
         /\ SubmissionOf[p] \in Submissions
         /\ GroupOf[p] \in Groups \cup {None}
         /\ p # None /\ p # "host" /\ p # "mode"
BY ProposalsAssumption DEF AInv, ApprovalsTypeOK

LEMMA AfterType ==
  ASSUME now \in Nat, NEW lifetime \in Nat \cup {None}
  PROVE  After(lifetime) \in Nat \cup {None}
BY DEF After

-----------------------------------------------------------------------------
(* The ledger's own steps *)

LEMMA FanOutParksNobody ==
  ASSUME Inv, NEW h \in Submissions, NEW error, SettleWithJoins(h, error)
  PROVE  /\ ParksNobody
         /\ \A s \in Submissions : rows'[s].status = "running" => rows'[s] = rows[s]
<1> SUFFICES ASSUME NEW s \in Submissions, rows'[s].status \in {"running", "waiting"}
             PROVE  rows'[s] = rows[s]
  BY DEF ParksNobody
<1>1. rows[s] \in Row /\ rows'[s] = FanOut(s, h, error)
  BY RowFacts DEF SettleWithJoins
<1>2. Settled(rows[s], error).status = "settled" /\ Released(rows[s]).status = "queued"
  BY <1>1 DEF Settled, Released, Row
<1> QED BY <1>1, <1>2 DEF FanOut

\* No step of the ledger parks a submission, and a claim and a replacement
\* charge what they start.
LEMMA LedgerStepsPark ==
  ASSUME Inv, RunningIsCharged, LedgerStep
  PROVE  ParksNobody /\ ChargesWhatRuns
<1> SUFFICES ASSUME NEW s \in Submissions, rows'[s].status \in {"running", "waiting"}
             PROVE  /\ rows'[s].status = "waiting" => rows'[s] = rows[s]
                    /\ rows'[s].attemptCount > 0
  BY DEF ParksNobody, ChargesWhatRuns
<1>0. /\ rows[s] \in Row
      /\ ColumnsAgree(rows[s])
      /\ rows[s].status \in {"running", "waiting"} => rows[s].attemptCount > 0
  BY RowFacts DEF RunningIsCharged
<1>s. rows'[s] = rows[s] => rows'[s].attemptCount > 0
  BY <1>0
<1>1. CASE AdmissionStep
  <2>1. PICK t \in Submissions : Admit(t) \/ MarkCanonicalReady(t)
    BY <1>1 DEF AdmissionStep
  <2>2. CASE s # t
    BY <1>s, <2>1, <2>2 DEF Admit, MarkCanonicalReady, Write, Inv, TypeOK
  <2>3. CASE s = t /\ Admit(t)
    <3>1. rows'[s].status = "queued"
      BY <2>3 DEF Admit, AbsentRow, Inv, TypeOK
    <3> QED BY <3>1
  <2>4. CASE s = t /\ MarkCanonicalReady(t)
    <3>1. rows'[s].status = "queued"
      BY <1>0, <2>4 DEF MarkCanonicalReady, Write, Row, Inv, TypeOK
    <3> QED BY <3>1
  <2> QED BY <2>1, <2>2, <2>3, <2>4
<1>2. CASE AttemptStep
  <2>1. PICK t \in Submissions :
          \/ \E o \in Owners : Claim(t, o)
          \/ \E a \in AttemptIds :
               \/ \E d \in Durabilities : MarkInputApplied(t, a, d)
               \/ \E o \in Owners : ReplaceAttempt(t, a, o)
               \/ Requeue(t, a)
          \/ LeaseLapses(t)
    BY <1>2 DEF AttemptStep
  <2>2. CASE s # t
    BY <1>s, <2>1, <2>2 DEF Claim, MarkInputApplied, ReplaceAttempt, Requeue, LeaseLapses,
       Write, WriteWithNewAttempt, Inv, TypeOK
  <2>3. CASE s = t /\ \E o \in Owners : Claim(t, o)
    BY <1>0, <2>3 DEF Claim, Claimed, WriteWithNewAttempt, Inv, TypeOK, Row
  <2>4. CASE s = t /\ \E a \in AttemptIds, d \in Durabilities : MarkInputApplied(t, a, d)
    BY <1>0, <2>4 DEF MarkInputApplied, Stamped, Runs, Write, Inv, TypeOK, Row
  <2>5. CASE s = t /\ \E a \in AttemptIds, o \in Owners : ReplaceAttempt(t, a, o)
    BY <1>0, <2>5 DEF ReplaceAttempt, Replaced, Runs, WriteWithNewAttempt, Inv, TypeOK, Row
  <2>6. CASE s = t /\ \E a \in AttemptIds : Requeue(t, a)
    BY <1>0, <2>6 DEF Requeue, Requeued, Write, Inv, TypeOK, Row
  <2>7. CASE s = t /\ LeaseLapses(t)
    BY <1>0, <2>7 DEF LeaseLapses, ColumnsAgree, Write, Inv, TypeOK, Row
  <2> QED BY <2>1, <2>2, <2>3, <2>4, <2>5, <2>6, <2>7
<1>3. CASE SettlementStep
  <2>1. PICK t \in Submissions :
          \/ \E a \in AttemptIds :
               \/ \E outcome \in Outcomes : ReserveSettlement(t, a, outcome)
               \/ FinalizeSettlement(t, a)
               \/ Complete(t, a)
               \/ \E error \in {"failed", "aborted"} : Fail(t, a, error)
          \/ \E error \in {"failed", "aborted"} : SettleQueued(t, error)
          \/ TerminateMalformed(t)
    BY <1>3 DEF SettlementStep
  <2>2. CASE \E a \in AttemptIds, outcome \in Outcomes : ReserveSettlement(t, a, outcome)
    BY <1>0, <1>s, <2>2 DEF ReserveSettlement, Reserved, Write, Inv, TypeOK, Row
  <2>3. CASE \E error \in {"failed", "aborted"} : SettleQueued(t, error)
    BY <1>0, <1>s, <2>3 DEF SettleQueued, Settled, Write, Inv, TypeOK, Row
  <2>4. CASE \E error : SettleWithJoins(t, error)
    BY <1>s, <2>4, FanOutParksNobody DEF ParksNobody
  <2> QED
    BY <2>1, <2>2, <2>3, <2>4 DEF FinalizeSettlement, Complete, Fail, TerminateMalformed
<1>4. CASE JoinStep
  <2>1. PICK h \in Submissions, a \in AttemptIds :
          \/ ClaimJoinable(h, a)
          \/ \E t \in Submissions : FinalizeJoined(h, a, t) \/ RevertJoining(h, a, t)
    BY <1>4 DEF JoinStep
  <2>2. CASE ClaimJoinable(h, a)
    BY <1>0, <1>s, <2>2 DEF ClaimJoinable, Joining, Row
  <2>3. CASE \E t \in Submissions : FinalizeJoined(h, a, t)
    BY <1>0, <1>s, <2>3 DEF FinalizeJoined, Write, Inv, TypeOK, Row
  <2>4. CASE \E t \in Submissions : RevertJoining(h, a, t)
    BY <1>0, <1>s, <2>4 DEF RevertJoining, Released, Write, Inv, TypeOK, Row
  <2> QED BY <2>1, <2>2, <2>3, <2>4
<1>5. CASE \E o \in Owners : RenewLeases(o)
  <2>1. \/ rows'[s] = rows[s]
        \/ /\ rows[s].status = "running"
           /\ rows'[s] = [rows[s] EXCEPT !.lease = "live"]
    BY <1>5 DEF RenewLeases
  <2> QED BY <1>0, <2>1 DEF Row
<1>6. CASE Tick
  BY <1>s, <1>6 DEF Tick
<1> QED BY <1>1, <1>2, <1>3, <1>4, <1>5, <1>6 DEF LedgerStep

LEMMA LedgerStepKeepsAInv ==
  ASSUME AInv, LedgerStep
  PROVE  AInv'
<1>1. Inv'
  BY NextInv DEF AInv, LedgerStep, Next
<1>2. approvals' = approvals /\ grants' = grants
  BY DEF LedgerStep
<1>3. ParksNobody /\ ChargesWhatRuns
  BY LedgerStepsPark DEF AInv
<1>4. ApprovalsTypeOK' /\ DeniedIsNeverApproved'
  BY <1>1, <1>2 DEF AInv, Inv, ApprovalsTypeOK, DeniedIsNeverApproved
<1>5. WaitingHasPendingDecision' /\ AbortedNeverWaits'
  BY <1>2, <1>3
  DEF AInv, ParksNobody, WaitingHasPendingDecision, AbortedNeverWaits, PendingFor, Pending
<1>6. RunningIsCharged'
  BY <1>3 DEF ChargesWhatRuns, RunningIsCharged
<1> QED BY <1>1, <1>4, <1>5, <1>6 DEF AInv

-----------------------------------------------------------------------------
(* The steps of the approval tables *)

LEMMA ParkedIsSafe ==
  ASSUME Inv, NEW s \in Submissions, rows[s].status = "running", rows[s].timeoutAt > now
  PROVE  SafeWrite(s, Parked(rows[s]))
<1> DEFINE n == rows[s].timeoutAt - now
           q == [rows[s] EXCEPT !.status = "waiting", !.remaining = n, !.timeoutAt = 0,
                                !.attempt = NoAttempt, !.startedAt = 0, !.owner = None,
                                !.lease = "none"]
<1>1. rows[s] \in Row /\ now \in Nat /\ lastAttempt \in Nat /\ ColumnsAgree(rows[s])
  BY RowFacts
<1>2. n \in Nat
  BY <1>1 DEF Row
<1> HIDE DEF n
<1>3. q \in Row
  BY <1>1, <1>2 DEF Row, Status, UnsettledStatus, LeaseStates, NoAttempt
<1>4. rows[s].joinedInto = None
  BY <1>1 DEF ColumnsAgree
<1>5. /\ q.status = "waiting" /\ q.sequence = rows[s].sequence /\ q.attempt = NoAttempt
      /\ q.joinedInto = rows[s].joinedInto /\ q.owner = None
      /\ q.lease = "none" /\ q.ready = rows[s].ready /\ q.error = rows[s].error
      /\ q.settlement = rows[s].settlement
  BY <1>1 DEF Row
<1> HIDE DEF q
<1>6. SafeWrite(s, q)
  BY <1>1, <1>3, <1>4, <1>5
  DEF SafeWrite, ColumnsAgree, KeepsPlace, KeepsAttempt, ExecutingRow, Executing, Unsettled,
      Runs, UnsettledStatus, NoAttempt
<1> QED BY <1>6 DEF Parked, q, n

LEMMA ResumedRow ==
  ASSUME NEW r \in Row
  PROVE  /\ Resumed(r) \in Row
         /\ Resumed(r).status = "queued"
         /\ Resumed(r).sequence = r.sequence /\ Resumed(r).attempt = NoAttempt
         /\ Resumed(r).joinedInto = r.joinedInto /\ Resumed(r).owner = None
         /\ Resumed(r).lease = "none" /\ Resumed(r).ready = r.ready
         /\ Resumed(r).error = r.error /\ Resumed(r).settlement = r.settlement
<1> DEFINE c == IF r.attemptCount > 0 THEN r.attemptCount - 1 ELSE 0
           n == IF r.remaining = None THEN 1 ELSE r.remaining
           q == [r EXCEPT !.status = "queued", !.attemptCount = c, !.timeoutAt = 0,
                          !.remaining = n, !.attempt = NoAttempt, !.startedAt = 0,
                          !.owner = None, !.lease = "none"]
<1>1. c \in Nat /\ n \in Nat \cup {None}
  BY DEF Row
<1> HIDE DEF c, n
<1>2. q \in Row
  BY <1>1 DEF Row, Status, UnsettledStatus, LeaseStates, NoAttempt
<1>3. /\ q.status = "queued" /\ q.sequence = r.sequence /\ q.attempt = NoAttempt
      /\ q.joinedInto = r.joinedInto /\ q.owner = None
      /\ q.lease = "none" /\ q.ready = r.ready /\ q.error = r.error
      /\ q.settlement = r.settlement
  BY DEF Row
<1>4. Resumed(r) = q
  BY DEF Resumed, q, c, n
<1> QED BY <1>2, <1>3, <1>4

LEMMA ResumeIsSafe ==
  ASSUME Inv, NEW s \in Submissions, NEW P
  PROVE  SafeWrite(s, ResumeIfNoPending(s, P))
<1>1. rows[s] \in Row /\ ColumnsAgree(rows[s]) /\ lastAttempt \in Nat
  BY RowFacts
<1>2. CASE ResumeIfNoPending(s, P) = rows[s]
  BY <1>2, UnchangedRowIsSafe
<1>3. CASE rows[s].status = "waiting" /\ ResumeIfNoPending(s, P) = Resumed(rows[s])
  <2> DEFINE q == Resumed(rows[s])
  <2>1. /\ q \in Row
        /\ q.status = "queued"
        /\ q.sequence = rows[s].sequence /\ q.attempt = NoAttempt
        /\ q.joinedInto = rows[s].joinedInto /\ q.owner = None
        /\ q.lease = "none" /\ q.ready = rows[s].ready
        /\ q.error = rows[s].error /\ q.settlement = rows[s].settlement
    BY <1>1, ResumedRow
  <2> HIDE DEF q
  <2>2. SafeWrite(s, q)
    BY <1>1, <1>3, <2>1
    DEF SafeWrite, ColumnsAgree, KeepsPlace, KeepsAttempt, ExecutingRow, Executing, Unsettled,
        Runs, UnsettledStatus, NoAttempt
  <2> QED BY <1>3, <2>2 DEF q
<1> QED BY <1>2, <1>3 DEF ResumeIfNoPending

\* Deciding any pending proposals, in whatever way, resumes exactly the parked
\* submissions that have nothing left to wait for.
LEMMA DecideAllKeepsLedger ==
  ASSUME AInv, NEW P \in SUBSET Proposals, NEW verdict, DecideAll(P, verdict),
         \A p \in P : verdict[p].status # "pending"
  PROVE  /\ Inv'
         /\ WaitingHasPendingDecision'
         /\ AbortedNeverWaits'
         /\ RunningIsCharged'
<1>1. rows' = [s \in Submissions |-> ResumeIfNoPending(s, P)]
  BY DEF DecideAll
<1>2. lastSequence' = lastSequence /\ lastAttempt' = lastAttempt /\ now' = now /\ now \in Nat
  BY DEF DecideAll, AInv, Inv, TypeOK
<1>3. \A s \in Submissions : SafeWrite(s, rows'[s])
  BY <1>1, ResumeIsSafe DEF AInv
<1>4. rows' = [s \in Submissions |-> rows'[s]]
  BY <1>1
<1>5. Inv'
  BY <1>2, <1>3, <1>4, SafeWritesKeepInv DEF AInv
<1>6. ASSUME NEW s \in Submissions, rows'[s].status \in {"running", "waiting"}
      PROVE  /\ rows'[s] = rows[s]
             /\ rows[s].status = "waiting" =>
                  ~(\E p \in P : SubmissionOf[p] = s) \/ ~(PendingFor(s) \subseteq P)
  <2>1. Resumed(rows[s]).status = "queued"
    BY ResumedRow, RowFacts DEF AInv
  <2> QED BY <1>1, <1>6, <2>1 DEF ResumeIfNoPending
<1>7. ASSUME NEW s \in Submissions, rows'[s].status = "waiting"
      PROVE  PendingFor(s)' # {}
  <2>1. /\ rows[s].status = "waiting"
        /\ ~(\E p \in P : SubmissionOf[p] = s) \/ ~(PendingFor(s) \subseteq P)
    BY <1>6, <1>7
  <2>2. PICK p \in PendingFor(s) : p \notin P
    BY <2>1 DEF AInv, WaitingHasPendingDecision, PendingFor
  <2>3. approvals'[p] = approvals[p]
    BY <2>2 DEF DecideAll, PendingFor
  <2> QED BY <2>2, <2>3 DEF PendingFor, Pending
<1>8. AbortedNeverWaits' /\ RunningIsCharged'
  BY <1>6 DEF AInv, AbortedNeverWaits, RunningIsCharged
<1> QED BY <1>5, <1>7, <1>8 DEF WaitingHasPendingDecision

-----------------------------------------------------------------------------
(* Decisions *)

\* What may be written as the verdict of a pending proposal.
SoundVerdict(p, v) ==
  /\ v.status \in Decided /\ v.via \in Deciders
  /\ approvals[p].mode = "denied" => v.status # "approved"
  /\ \A g \in Proposals : v.via = g =>
       /\ v.status = "approved"
       /\ GroupOf[g] = GroupOf[p] /\ GroupOf[p] # None
       /\ grants'[g].status = "active"
       /\ OpenAt(grants'[g], approvals[p].requestedAt)
       /\ ~Overdue(p)

Verdicts(P) == [P -> [status : Decided, via : Deciders]]

\* A step decides pending proposals soundly, and does nothing else but grant.
DecidesSoundly ==
  \E P \in SUBSET {p \in Proposals : Pending(p)} : \E verdict \in Verdicts(P) :
    /\ DecideAll(P, verdict)
    /\ \A p \in P : SoundVerdict(p, verdict[p])

LEMMA SoundDecide ==
  ASSUME AInv, NEW p \in Proposals, NEW status, NEW via,
         Decide(p, status, via), SoundVerdict(p, Verdict(p, status, via))
  PROVE  DecidesSoundly
<1> DEFINE v == Verdict(p, status, via)
           P == {p}
           verdict == [q \in P |-> v]
<1>1. Pending(p) /\ DecideAll(P, verdict)
  BY DEF Decide
<1>2. SoundVerdict(p, v)
  OBVIOUS
<1>3. v \in [status : Decided, via : Deciders]
  <2>1. v = [status |-> v.status, via |-> v.via]
    BY DEF Verdict
  <2> HIDE DEF v
  <2> QED BY <1>2, <2>1 DEF SoundVerdict
<1> HIDE DEF v
<1>4. P \in SUBSET {q \in Proposals : Pending(q)} /\ verdict \in Verdicts(P)
  BY <1>1, <1>3 DEF Verdicts
<1>5. \A q \in P : SoundVerdict(q, verdict[q])
  BY <1>2
<1> HIDE DEF P, verdict
<1> QED BY <1>1, <1>4, <1>5 DEF DecidesSoundly

\* A decider that names no grant decides soundly: the store turns a late
\* decision into an expiry and the approval of a denied call into a rejection.
LEMMA SoundWithoutGrant ==
  ASSUME AInv, NEW p \in Proposals, NEW status \in Decided, NEW via \in {None, "host", "mode"}
  PROVE  SoundVerdict(p, Verdict(p, status, via))
<1>1. None \in Deciders /\ "mode" \in Deciders /\ via \in Deciders
  BY DEF Deciders
<1>2. \A g \in Proposals : g # None /\ g # "host" /\ g # "mode"
  BY ProposalsAssumption
<1>3. "expired" \in Decided /\ "rejected" \in Decided
  BY DEF Decided
<1> QED BY <1>1, <1>2, <1>3 DEF SoundVerdict, Verdict

LEMMA SoundWithGrant ==
  ASSUME AInv, NEW p \in Proposals, GroupOf[p] # None, approvals[p].mode = "ask",
         NEW g \in ActiveGrants(GroupOf[p], approvals[p].requestedAt),
         grants' = grants
  PROVE  SoundVerdict(p, Verdict(p, "approved", g))
<1>1. /\ g \in Proposals /\ GroupOf[g] = GroupOf[p] /\ grants[g].status = "active"
      /\ OpenAt(grants[g], approvals[p].requestedAt)
  BY DEF ActiveGrants
<1>2. None \in Deciders /\ g \in Deciders /\ "expired" \in Decided /\ "approved" \in Decided
  BY <1>1 DEF Deciders, Decided
<1>3. \A h \in Proposals : h # None
  BY ProposalsAssumption
<1>4. CASE Overdue(p)
  BY <1>2, <1>3, <1>4 DEF SoundVerdict, Verdict
<1>5. CASE ~Overdue(p)
  BY <1>1, <1>2, <1>5 DEF SoundVerdict, Verdict
<1> QED BY <1>4, <1>5

\* The calls an escalating approval takes along are covered by its grant.
LEMMA SoundEscalation ==
  ASSUME AInv, NEW p \in Proposals, Pending(p), Escalates(p, TRUE),
         NEW g \in Proposals, NEW grant, grants'[g] = grant,
         GroupOf[g] = GroupOf[p], grant.status = "active",
         ApproveWithCovered(p, g, grant)
  PROVE  DecidesSoundly
<1> DEFINE P == {p} \cup Covered(p, grant)
           verdict == [q \in P |-> [status |-> "approved", via |-> IF q = p THEN "host" ELSE g]]
<1>1. DecideAll(P, verdict)
  BY DEF ApproveWithCovered
<1>2. P \in SUBSET {q \in Proposals : Pending(q)}
  BY DEF Covered
<1>3. "host" \in Deciders /\ g \in Deciders /\ "approved" \in Decided
  BY DEF Deciders, Decided
<1>4. verdict \in Verdicts(P)
  BY <1>3 DEF Verdicts
<1>5. GroupOf[p] # None /\ approvals[p].mode # "denied"
  BY DEF Escalates, Verdict
<1>6. ASSUME NEW q \in P PROVE SoundVerdict(q, verdict[q])
  <2>1. CASE q = p
    <3>1. verdict[q] = [status |-> "approved", via |-> "host"]
      BY <2>1
    <3>2. \A h \in Proposals : h # "host"
      BY ProposalsAssumption
    <3> QED BY <1>3, <1>5, <2>1, <3>1, <3>2 DEF SoundVerdict
  <2>2. CASE q # p
    <3>1. verdict[q] = [status |-> "approved", via |-> g]
      BY <2>2
    <3>2. /\ q \in Proposals /\ ~Overdue(q) /\ GroupOf[q] = GroupOf[p]
          /\ approvals[q].mode # "denied" /\ OpenAt(grant, approvals[q].requestedAt)
      BY <2>2 DEF Covered
    <3> HIDE DEF P, verdict
    <3> QED BY <1>3, <1>5, <3>1, <3>2 DEF SoundVerdict
  <2> QED BY <2>1, <2>2
<1> HIDE DEF P, verdict
<1> QED BY <1>1, <1>2, <1>4, <1>6 DEF DecidesSoundly

LEMMA HostEscalatesSoundly ==
  ASSUME AInv, NEW p \in Proposals, HostEscalates(p)
  PROVE  DecidesSoundly /\ grants' \in [Proposals -> Grant]
<1>1. Pending(p) /\ Escalates(p, TRUE) /\ grants \in [Proposals -> Grant]
  BY DEF HostEscalates, AInv, ApprovalsTypeOK
<1>2. CASE ActiveGrants(GroupOf[p], now) # {}
  <2>1. PICK g \in ActiveGrants(GroupOf[p], now) :
          ApproveWithCovered(p, g, grants[g]) /\ UNCHANGED grants
    BY <1>2 DEF HostEscalates
  <2>2. g \in Proposals /\ GroupOf[g] = GroupOf[p] /\ grants[g].status = "active"
    BY DEF ActiveGrants
  <2> QED BY <1>1, <2>1, <2>2, SoundEscalation
<1>3. CASE ActiveGrants(GroupOf[p], now) = {}
  <2> DEFINE e == After(approvals[p].lifetime)
             grant == [status |-> "active", grantedAt |-> now, expiresAt |-> e]
  <2>1. grants' = [grants EXCEPT ![p] = grant] /\ ApproveWithCovered(p, p, grant)
    BY <1>3 DEF HostEscalates
  <2>2. now \in Nat /\ approvals[p].lifetime \in Nat \cup {None}
    BY ApprovalFacts DEF Approval, AInv, Inv, TypeOK
  <2>3. e \in Nat \cup {None}
    BY <2>2, AfterType
  <2> HIDE DEF e
  <2>4. grant \in Grant /\ grant.status = "active"
    BY <2>2, <2>3 DEF Grant
  <2> HIDE DEF grant
  <2>5. grants'[p] = grant /\ grants' \in [Proposals -> Grant]
    BY <1>1, <2>1, <2>4
  <2> QED BY <1>1, <2>1, <2>4, <2>5, SoundEscalation
<1> QED BY <1>2, <1>3

\* Every deciding step of the approvals decides soundly.
LEMMA DecisionsAreSound ==
  ASSUME AInv, DecisionStep \/ ExpireOverdue
  PROVE  DecidesSoundly /\ grants' \in [Proposals -> Grant]
<1>0. grants \in [Proposals -> Grant]
  BY DEF AInv, ApprovalsTypeOK
<1>1. CASE DecisionStep
  <2>1. PICK p \in Proposals :
          \/ \E status \in HostAnswers, escalate \in BOOLEAN : HostDecides(p, status, escalate)
          \/ HostEscalates(p)
          \/ ModeDecides(p)
          \/ GrantDecides(p)
          \/ \E status \in {"expired", "canceled", "aborted"} : RuntimeCloses(p, status)
    BY <1>1 DEF DecisionStep
  <2>2. CASE \E status \in HostAnswers, escalate \in BOOLEAN : HostDecides(p, status, escalate)
    <3>1. PICK status \in HostAnswers : Decide(p, status, "host") /\ UNCHANGED grants
      BY <2>2 DEF HostDecides
    <3>2. status \in Decided
      BY ProposalsAssumption DEF Decided
    <3> QED BY <1>0, <3>1, <3>2, SoundWithoutGrant, SoundDecide
  <2>3. CASE HostEscalates(p)
    BY <2>3, HostEscalatesSoundly
  <2>4. CASE ModeDecides(p)
    <3>1. PICK status \in {"approved", "rejected"} : Decide(p, status, "mode") /\ UNCHANGED grants
      BY <2>4 DEF ModeDecides
    <3>2. status \in Decided
      BY DEF Decided
    <3> QED BY <1>0, <3>1, <3>2, SoundWithoutGrant, SoundDecide
  <2>5. CASE GrantDecides(p)
    <3>1. /\ GroupOf[p] # None /\ approvals[p].mode = "ask" /\ grants' = grants
          /\ \E g \in ActiveGrants(GroupOf[p], approvals[p].requestedAt) :
               Decide(p, "approved", g)
      BY <2>5 DEF GrantDecides
    <3>2. PICK g \in ActiveGrants(GroupOf[p], approvals[p].requestedAt) :
            Decide(p, "approved", g)
      BY <3>1
    <3>3. SoundVerdict(p, Verdict(p, "approved", g))
      BY <3>1, SoundWithGrant
    <3> QED BY <1>0, <3>1, <3>2, <3>3, SoundDecide
  <2>6. CASE \E status \in {"expired", "canceled", "aborted"} : RuntimeCloses(p, status)
    <3>1. PICK status \in {"expired", "canceled", "aborted"} :
            Decide(p, status, None) /\ UNCHANGED grants
      BY <2>6 DEF RuntimeCloses
    <3>2. status \in Decided
      BY DEF Decided
    <3> QED BY <1>0, <3>1, <3>2, SoundWithoutGrant, SoundDecide
  <2> QED BY <2>1, <2>2, <2>3, <2>4, <2>5, <2>6
<1>2. CASE ExpireOverdue
  <2> DEFINE P == {p \in Proposals : Pending(p) /\ Overdue(p)}
             verdict == [p \in P |-> [status |-> "expired", via |-> None]]
  <2>1. DecideAll(P, verdict) /\ grants' = grants
    BY <1>2 DEF ExpireOverdue
  <2>2. P \in SUBSET {p \in Proposals : Pending(p)} /\ verdict \in Verdicts(P)
    BY DEF Verdicts, Decided, Deciders
  <2>3. ASSUME NEW p \in P PROVE SoundVerdict(p, verdict[p])
    <3>1. verdict[p] = [status |-> "expired", via |-> None]
      OBVIOUS
    <3>2. \A g \in Proposals : g # None
      BY ProposalsAssumption
    <3> HIDE DEF P, verdict
    <3> QED BY <3>1, <3>2 DEF SoundVerdict, Decided, Deciders
  <2> HIDE DEF P, verdict
  <2> QED BY <1>0, <2>1, <2>2, <2>3 DEF DecidesSoundly
<1> QED BY <1>1, <1>2

-----------------------------------------------------------------------------
(* Every step keeps the invariant *)

\* The new row of a decided proposal.
LEMMA DecidedRows ==
  ASSUME AInv, NEW P \in SUBSET Proposals, NEW verdict \in Verdicts(P), DecideAll(P, verdict),
         NEW p \in Proposals
  PROVE  /\ p \in P => /\ approvals'[p] \in Approval
                       /\ approvals'[p].status = verdict[p].status
                       /\ approvals'[p].via = verdict[p].via
                       /\ approvals'[p].mode = approvals[p].mode
         /\ p \notin P => approvals'[p] = approvals[p]
<1>1. CASE p \in P
  <2> DEFINE st == verdict[p].status
             v == verdict[p].via
  <2>1. st \in Decided /\ v \in Deciders
    BY <1>1 DEF Verdicts
  <2>2. approvals'[p] = [approvals[p] EXCEPT !.status = st, !.via = v]
    BY <1>1 DEF DecideAll
  <2> HIDE DEF st, v
  <2>3. /\ approvals'[p] \in Approval /\ approvals'[p].status = st
        /\ approvals'[p].via = v /\ approvals'[p].mode = approvals[p].mode
    BY <2>1, <2>2, ApprovalFacts DEF Approval
  <2> QED BY <1>1, <2>3 DEF st, v
<1>2. CASE p \notin P
  BY <1>2 DEF DecideAll
<1> QED BY <1>1, <1>2

LEMMA DecidesSoundlyKeepsAInv ==
  ASSUME AInv, DecidesSoundly, grants' \in [Proposals -> Grant]
  PROVE  AInv'
<1>1. PICK P \in SUBSET {p \in Proposals : Pending(p)} : \E verdict \in Verdicts(P) :
        /\ DecideAll(P, verdict)
        /\ \A p \in P : SoundVerdict(p, verdict[p])
  BY DEF DecidesSoundly
<1>2. PICK verdict \in Verdicts(P) :
        /\ DecideAll(P, verdict)
        /\ \A p \in P : SoundVerdict(p, verdict[p])
  BY <1>1
<1>3. \A p \in P : verdict[p].status # "pending"
  BY <1>2 DEF SoundVerdict, Decided
<1>4. /\ Inv' /\ WaitingHasPendingDecision' /\ AbortedNeverWaits' /\ RunningIsCharged'
  BY <1>2, <1>3, DecideAllKeepsLedger
<1>5. \A p \in Proposals : approvals'[p] \in Approval
  BY <1>2, DecidedRows, ApprovalFacts
<1>6. approvals' = [p \in Proposals |-> approvals'[p]]
  BY <1>2 DEF DecideAll
<1>7. ApprovalsTypeOK'
  BY <1>4, <1>5, <1>6 DEF Inv, ApprovalsTypeOK
<1>8. DeniedIsNeverApproved'
  BY <1>2, DecidedRows DEF AInv, DeniedIsNeverApproved, SoundVerdict
<1> QED BY <1>4, <1>7, <1>8 DEF AInv

LEMMA CreateApprovalKeepsAInv ==
  ASSUME AInv, NEW p \in Proposals, NEW mode \in CallModes,
         NEW lifetime \in ApprovalLifetimes, NEW grantLifetime \in GrantLifetimes,
         CreateApproval(p, mode, lifetime, grantLifetime)
  PROVE  AInv'
<1> DEFINE e == After(lifetime)
           q == [status |-> "pending", requestedAt |-> now, expiresAt |-> e,
                 mode |-> mode, lifetime |-> grantLifetime, via |-> None]
<1>1. /\ rows' = rows /\ lastSequence' = lastSequence /\ lastAttempt' = lastAttempt
      /\ now' = now /\ grants' = grants
  BY DEF CreateApproval
<1>2. approvals' = [approvals EXCEPT ![p] = q] /\ approvals[p].status = "absent"
  BY DEF CreateApproval
<1>3. now \in Nat
  BY DEF AInv, Inv, TypeOK
<1>4. e \in Nat \cup {None}
  BY <1>3, AfterType, ProposalsAssumption
<1> HIDE DEF e
<1>5. q \in Approval
  BY <1>3, <1>4, ProposalsAssumption DEF Approval, Modes, Deciders
<1>6. Inv'
  BY <1>1, NextInv DEF AInv, vars
<1>7. ApprovalsTypeOK'
  BY <1>1, <1>2, <1>5, <1>6 DEF AInv, Inv, ApprovalsTypeOK
<1>8. \A t \in Proposals : approvals'[t] = IF t = p THEN q ELSE approvals[t]
  BY <1>2 DEF AInv, ApprovalsTypeOK
<1>9. \A s \in Submissions : PendingFor(s) \subseteq PendingFor(s)'
  BY <1>2, <1>8 DEF PendingFor, Pending
<1>10. WaitingHasPendingDecision' /\ AbortedNeverWaits' /\ RunningIsCharged'
  BY <1>1, <1>9 DEF AInv, WaitingHasPendingDecision, AbortedNeverWaits, RunningIsCharged
<1>11. DeniedIsNeverApproved'
  BY <1>8 DEF AInv, DeniedIsNeverApproved
<1> QED BY <1>6, <1>7, <1>10, <1>11 DEF AInv

LEMMA ParkKeepsAInv ==
  ASSUME AInv, NEW s \in Submissions, NEW a \in AttemptIds, Park(s, a)
  PROVE  AInv'
<1> DEFINE q == Parked(rows[s])
<1>1. /\ rows[s].status = "running" /\ ~rows[s].abortRequested /\ rows[s].timeoutAt > now
      /\ PendingFor(s) # {} /\ Write(s, q) /\ approvals' = approvals /\ grants' = grants
  BY DEF Park, Runs
<1>2. Inv'
  BY <1>1, ParkedIsSafe, WriteKeepsInv DEF AInv
<1>3. rows[s] \in Row /\ rows[s].attemptCount > 0
  BY <1>1, RowFacts DEF AInv, RunningIsCharged
<1>4. q.abortRequested = rows[s].abortRequested /\ q.attemptCount = rows[s].attemptCount
  BY <1>3 DEF Parked, Row
<1>5. \A t \in Submissions : rows'[t] = IF t = s THEN q ELSE rows[t]
  BY <1>1 DEF Write, AInv, Inv, TypeOK
<1> HIDE DEF q
<1>6. WaitingHasPendingDecision'
  BY <1>1, <1>5 DEF AInv, WaitingHasPendingDecision, PendingFor, Pending
<1>7. AbortedNeverWaits' /\ RunningIsCharged'
  BY <1>1, <1>3, <1>4, <1>5 DEF AInv, AbortedNeverWaits, RunningIsCharged
<1>8. ApprovalsTypeOK' /\ DeniedIsNeverApproved'
  BY <1>1, <1>2 DEF AInv, Inv, ApprovalsTypeOK, DeniedIsNeverApproved
<1> QED BY <1>2, <1>6, <1>7, <1>8 DEF AInv

LEMMA RevokeEscalationKeepsAInv ==
  ASSUME AInv, NEW g \in Groups, RevokeEscalation(g)
  PROVE  AInv'
<1>1. /\ rows' = rows /\ lastSequence' = lastSequence /\ lastAttempt' = lastAttempt
      /\ now' = now /\ approvals' = approvals
  BY DEF RevokeEscalation
<1>2. Inv'
  BY <1>1, NextInv DEF AInv, vars
<1>3. grants' \in [Proposals -> Grant]
  BY ApprovalFacts DEF RevokeEscalation, Grant
<1> QED
  BY <1>1, <1>2, <1>3
  DEF AInv, Inv, ApprovalsTypeOK, WaitingHasPendingDecision, AbortedNeverWaits,
      RunningIsCharged, DeniedIsNeverApproved, PendingFor, Pending

LEMMA AbortSessionKeepsAInv ==
  ASSUME AInv, NEW k \in Sessions, AbortSession(k)
  PROVE  AInv'
<1>1. RequestSessionAbort(k) /\ grants' = grants
  BY DEF AbortSession
<1>2. Inv'
  BY <1>1, RequestSessionAbortKeepsInv DEF AInv
<1>3. ASSUME NEW p \in Proposals
      PROVE  /\ approvals'[p] \in Approval
             /\ approvals'[p].mode = approvals[p].mode
             /\ approvals'[p].status = "approved" => approvals[p].status = "approved"
  <2>1. \/ approvals'[p] = [approvals[p] EXCEPT !.status = "aborted"]
        \/ approvals'[p] = approvals[p]
    BY DEF AbortSession
  <2> QED BY <2>1, ApprovalFacts DEF Approval, Decided
<1>4. approvals' = [p \in Proposals |-> approvals'[p]]
  BY DEF AbortSession
<1>5. ApprovalsTypeOK'
  BY <1>1, <1>2, <1>3, <1>4 DEF AInv, Inv, ApprovalsTypeOK
<1>6. DeniedIsNeverApproved'
  BY <1>3 DEF AInv, DeniedIsNeverApproved
<1>7. ASSUME NEW s \in Submissions, rows'[s].status \in {"running", "waiting"}
      PROVE  /\ rows'[s].status = rows[s].status
             /\ rows'[s].attemptCount = rows[s].attemptCount
             /\ rows'[s].status = "waiting" => rows'[s] = rows[s] /\ SessionOf[s] # k
  <2>1. \/ rows'[s] = rows[s] /\ (rows[s].status = "waiting" => SessionOf[s] # k)
        \/ rows'[s] = AbortedRow(rows[s])
    BY <1>1 DEF RequestSessionAbort, Abortable, UnsettledStatus
  <2>2. /\ AbortedRow(rows[s]).status =
             IF rows[s].status = "waiting" THEN "queued" ELSE rows[s].status
        /\ AbortedRow(rows[s]).attemptCount = rows[s].attemptCount
    BY RowFacts DEF AInv, AbortedRow, Row
  <2> QED BY <1>7, <2>1, <2>2
<1>8. WaitingHasPendingDecision'
  <2> SUFFICES ASSUME NEW s \in Submissions, rows'[s].status = "waiting"
               PROVE  PendingFor(s)' # {}
    BY DEF WaitingHasPendingDecision
  <2>1. rows[s].status = "waiting" /\ SessionOf[s] # k
    BY <1>7
  <2>2. PICK p \in PendingFor(s) : TRUE
    BY <2>1 DEF AInv, WaitingHasPendingDecision
  <2>3. approvals'[p] = approvals[p] /\ SubmissionOf[p] = s /\ p \in Proposals
    BY <2>1, <2>2 DEF AbortSession, PendingFor
  <2> QED BY <2>2, <2>3 DEF PendingFor, Pending
<1>9. AbortedNeverWaits' /\ RunningIsCharged'
  BY <1>7 DEF AInv, AbortedNeverWaits, RunningIsCharged
<1> QED BY <1>2, <1>5, <1>6, <1>8, <1>9 DEF AInv

LEMMA InitAInv == ApprovalsInit => AInv
<1> SUFFICES ASSUME ApprovalsInit PROVE AInv
  OBVIOUS
<1>1. Inv
  BY InitInv DEF ApprovalsInit
<1>2. NoApproval \in Approval /\ NoGrant \in Grant
  BY DEF NoApproval, NoGrant, Approval, Grant, Modes, Deciders
<1>3. ApprovalsTypeOK
  BY <1>1, <1>2 DEF Inv, ApprovalsTypeOK, ApprovalsInit
<1>4. \A s \in Submissions : rows[s].status = "absent"
  BY DEF ApprovalsInit, Init, AbsentRow
<1>5. \A p \in Proposals : approvals[p].status = "absent"
  BY DEF ApprovalsInit, NoApproval
<1> QED
  BY <1>1, <1>3, <1>4, <1>5
  DEF AInv, WaitingHasPendingDecision, AbortedNeverWaits, RunningIsCharged,
      DeniedIsNeverApproved

LEMMA NextAInv == AInv /\ [ApprovalsNext]_approvalVars => AInv'
<1> SUFFICES ASSUME AInv, [ApprovalsNext]_approvalVars PROVE AInv'
  OBVIOUS
<1>1. CASE LedgerStep
  BY <1>1, LedgerStepKeepsAInv
<1>2. CASE ParkingStep
  BY <1>2, CreateApprovalKeepsAInv, ParkKeepsAInv DEF ParkingStep
<1>3. CASE DecisionStep \/ ExpireOverdue
  BY <1>3, DecisionsAreSound, DecidesSoundlyKeepsAInv
<1>4. CASE \E g \in Groups : RevokeEscalation(g)
  BY <1>4, RevokeEscalationKeepsAInv
<1>5. CASE \E k \in Sessions : AbortSession(k)
  BY <1>5, AbortSessionKeepsAInv
<1>6. CASE UNCHANGED approvalVars
  <2>1. /\ rows' = rows /\ lastSequence' = lastSequence /\ lastAttempt' = lastAttempt
        /\ now' = now /\ approvals' = approvals /\ grants' = grants
    BY <1>6 DEF approvalVars
  <2>2. Inv'
    BY <2>1, NextInv DEF AInv, vars
  <2> QED
    BY <2>1, <2>2
    DEF AInv, Inv, ApprovalsTypeOK, WaitingHasPendingDecision, AbortedNeverWaits,
        RunningIsCharged, DeniedIsNeverApproved, PendingFor, Pending
<1> QED BY <1>1, <1>2, <1>3, <1>4, <1>5, <1>6 DEF ApprovalsNext

LEMMA SpecAInv == ApprovalsSpec => []AInv
BY InitAInv, NextAInv, PTL DEF ApprovalsSpec

\* The three tables keep their types.
THEOREM ApprovalTypesCorrect == ApprovalsSpec => []ApprovalsTypeOK
BY SpecAInv, PTL DEF AInv

\* No wakeup is lost: whatever decides the last open proposal of a parked
\* submission resumes it.
THEOREM NoLostWakeup == ApprovalsSpec => []WaitingHasPendingDecision
BY SpecAInv, PTL DEF AInv

\* Neither an abort nor the attempt it interrupts leaves a submission parked.
THEOREM AbortBeatsApproval == ApprovalsSpec => []AbortedNeverWaits
BY SpecAInv, PTL DEF AInv

\* The refund of an approval wait never makes a running submission free.
THEOREM RunsAreCharged == ApprovalsSpec => []RunningIsCharged
BY SpecAInv, PTL DEF AInv

\* No host, mode, grant or sibling's escalation approves a denied call.
THEOREM DeniedStaysDenied == ApprovalsSpec => []DeniedIsNeverApproved
BY SpecAInv, PTL DEF AInv

\* Parked submissions included, a session executes in admission order.
THEOREM AdmissionOrderWithApprovals == ApprovalsSpec => []ExecutesInAdmissionOrder
BY SpecAInv, PTL DEF AInv, Inv

-----------------------------------------------------------------------------
(* What a step never does *)

LEMMA StepKeepsDecisions ==
  ASSUME AInv, [ApprovalsNext]_approvalVars, NEW p \in Proposals,
         approvals[p].status \in Decided
  PROVE  approvals'[p] = approvals[p]
<1>1. ~Pending(p) /\ approvals[p].status # "absent"
  BY DEF Pending, Decided
<1>2. CASE LedgerStep \/ UNCHANGED approvalVars
  BY <1>2 DEF LedgerStep, approvalVars
<1>3. CASE ParkingStep
  BY <1>1, <1>3 DEF ParkingStep, CreateApproval, Park, AInv, ApprovalsTypeOK
<1>4. CASE DecisionStep \/ ExpireOverdue
  BY <1>1, <1>4, DecisionsAreSound DEF DecidesSoundly, DecideAll
<1>5. CASE \E g \in Groups : RevokeEscalation(g)
  BY <1>5 DEF RevokeEscalation
<1>6. CASE \E k \in Sessions : AbortSession(k)
  BY <1>1, <1>6 DEF AbortSession
<1> QED BY <1>2, <1>3, <1>4, <1>5, <1>6 DEF ApprovalsNext

\* First decision wins.
THEOREM DecisionsAreFinal == ApprovalsSpec => FirstDecisionWins
<1>1. AInv /\ [ApprovalsNext]_approvalVars =>
        [\A p \in Proposals :
           approvals[p].status \in Decided => approvals'[p] = approvals[p]]_approvalVars
  BY StepKeepsDecisions
<1> QED BY <1>1, SpecAInv, PTL DEF ApprovalsSpec, FirstDecisionWins

LEMMA StepGrantsSoundly ==
  ASSUME AInv, [ApprovalsNext]_approvalVars, NEW p \in Proposals, NEW g \in Proposals,
         approvals[p].via = None, approvals'[p].via = g
  PROVE  /\ approvals'[p].status = "approved"
         /\ GroupOf[g] = GroupOf[p] /\ GroupOf[p] # None
         /\ grants'[g].status = "active"
         /\ OpenAt(grants'[g], approvals[p].requestedAt)
         /\ ~Overdue(p)
<1>1. g # None /\ approvals'[p] # approvals[p]
  BY ProposalsAssumption
<1>2. CASE LedgerStep \/ UNCHANGED approvalVars
  BY <1>1, <1>2 DEF LedgerStep, approvalVars
<1>3. CASE ParkingStep
  BY <1>1, <1>3 DEF ParkingStep, CreateApproval, Park, AInv, ApprovalsTypeOK
<1>4. CASE DecisionStep \/ ExpireOverdue
  <2>1. PICK P \in SUBSET {q \in Proposals : Pending(q)} : \E verdict \in Verdicts(P) :
          /\ DecideAll(P, verdict)
          /\ \A q \in P : SoundVerdict(q, verdict[q])
    BY <1>4, DecisionsAreSound DEF DecidesSoundly
  <2>2. PICK verdict \in Verdicts(P) :
          /\ DecideAll(P, verdict)
          /\ \A q \in P : SoundVerdict(q, verdict[q])
    BY <2>1
  <2>3. p \in P
    BY <1>1, <2>2 DEF DecideAll
  <2>4. approvals'[p].status = verdict[p].status /\ approvals'[p].via = verdict[p].via
    BY <2>2, <2>3, DecidedRows
  <2> QED BY <2>2, <2>3, <2>4 DEF SoundVerdict
<1>5. CASE \E k \in Groups : RevokeEscalation(k)
  BY <1>1, <1>5 DEF RevokeEscalation
<1>6. CASE \E k \in Sessions : AbortSession(k)
  <2>1. approvals'[p] = [approvals[p] EXCEPT !.status = "aborted"]
    BY <1>1, <1>6 DEF AbortSession
  <2>2. approvals'[p].via = approvals[p].via
    BY <2>1, ApprovalFacts DEF Approval
  <2> QED BY <1>1, <2>2
<1> QED BY <1>2, <1>3, <1>4, <1>5, <1>6 DEF ApprovalsNext

\* A grant approves only what it covers, and only while it is active.
THEOREM GrantsAreRespected == ApprovalsSpec => GrantsApproveWhatTheyCover
<1>1. AInv /\ [ApprovalsNext]_approvalVars =>
        [\A p, g \in Proposals :
           approvals[p].via = None /\ approvals'[p].via = g =>
             /\ approvals'[p].status = "approved"
             /\ GroupOf[g] = GroupOf[p] /\ GroupOf[p] # None
             /\ grants'[g].status = "active"
             /\ OpenAt(grants'[g], approvals[p].requestedAt)
             /\ ~Overdue(p)]_approvalVars
  BY StepGrantsSoundly
<1> QED BY <1>1, SpecAInv, PTL DEF ApprovalsSpec, GrantsApproveWhatTheyCover

-----------------------------------------------------------------------------
(* The execution budget across approval waits *)

\* What a step may do to the status and the budget columns of a row: leave
\* them, drop the input that was applied, claim, stamp, confirm a join, park,
\* or resume.
LeavesBudget(r, q) ==
  /\ q.remaining = r.remaining /\ q.timeoutAt = r.timeoutAt
  /\ q.inputApplied = r.inputApplied
  /\ q.status = r.status \/ q.status \notin {"queued", "running", "waiting"}
DropsInput(r, q) ==
  /\ q.status = "queued" /\ ~q.inputApplied /\ q.remaining \in {None, r.remaining}
ClaimsBudget(r, q) ==
  /\ r.status = "queued" /\ q.status = "running"
  /\ q.inputApplied = r.inputApplied
  /\ q.remaining = None /\ q.timeoutAt = ClaimDeadline(r)
StampsBudget(r, q) ==
  /\ q.status = "running" /\ r.status = "running"
  /\ ~r.inputApplied /\ q.remaining = r.remaining
ConfirmsJoin(r, q) ==
  /\ r.status = "joining" /\ q.status = "joined"
  /\ q.remaining = r.remaining /\ q.timeoutAt = r.timeoutAt
SavesBudget(r, q) ==
  /\ r.status = "running" /\ q.status = "waiting" /\ q.inputApplied = r.inputApplied
  /\ r.timeoutAt > now /\ q.remaining = r.timeoutAt - now
KeepsSavedBudget(r, q) ==
  /\ r.status = "waiting" /\ q.status = "queued" /\ q.inputApplied = r.inputApplied
  /\ r.remaining # None => q.remaining = r.remaining
  /\ r.remaining = None => q.remaining = 1

BudgetStep(r, q) ==
  \/ LeavesBudget(r, q)
  \/ DropsInput(r, q)
  \/ ClaimsBudget(r, q)
  \/ StampsBudget(r, q)
  \/ ConfirmsJoin(r, q)
  \/ SavesBudget(r, q)
  \/ KeepsSavedBudget(r, q)

LEMMA UnchangedBudget ==
  ASSUME NEW r, NEW q, q = r
  PROVE  BudgetStep(r, q)
BY DEF BudgetStep, LeavesBudget

LEMMA FanOutBudget ==
  ASSUME AInv, NEW h \in Submissions, NEW error, SettleWithJoins(h, error),
         NEW s \in Submissions
  PROVE  BudgetStep(rows[s], rows'[s])
<1>1. rows[s] \in Row /\ rows'[s] = FanOut(s, h, error)
  BY RowFacts DEF SettleWithJoins, AInv
<1>2. CASE rows'[s] = rows[s]
  BY <1>2, UnchangedBudget
<1>3. CASE rows'[s] = Settled(rows[s], error)
  <2>1. LeavesBudget(rows[s], rows'[s])
    BY <1>1, <1>3 DEF Settled, Row, LeavesBudget
  <2> QED BY <2>1 DEF BudgetStep
<1>4. CASE rows'[s] = Released(rows[s])
  <2>1. DropsInput(rows[s], rows'[s])
    BY <1>1, <1>4 DEF Released, Row, DropsInput
  <2> QED BY <2>1 DEF BudgetStep
<1> QED BY <1>1, <1>2, <1>3, <1>4 DEF FanOut

LEMMA AttemptStepBudget ==
  ASSUME AInv, AttemptStep, NEW s \in Submissions
  PROVE  BudgetStep(rows[s], rows'[s])
<1> DEFINE r == rows[s]
           q == rows'[s]
<1>0. r \in Row /\ rows \in [Submissions -> Row]
  BY RowFacts DEF AInv, Inv, TypeOK
<1>1. PICK t \in Submissions :
        \/ \E o \in Owners : Claim(t, o)
        \/ \E a \in AttemptIds :
             \/ \E d \in Durabilities : MarkInputApplied(t, a, d)
             \/ \E o \in Owners : ReplaceAttempt(t, a, o)
             \/ Requeue(t, a)
        \/ LeaseLapses(t)
  BY DEF AttemptStep
<1>2. CASE s # t
  <2>1. q = r
    BY <1>0, <1>1, <1>2 DEF Claim, MarkInputApplied, ReplaceAttempt, Requeue, LeaseLapses,
       Write, WriteWithNewAttempt
  <2> QED BY <2>1, UnchangedBudget
<1>3. CASE s = t /\ \E o \in Owners : Claim(t, o)
  <2>1. PICK o \in Owners : q = Claimed(r, lastAttempt + 1, o)
    BY <1>0, <1>3 DEF Claim, WriteWithNewAttempt
  <2>2. r.status = "queued"
    BY <1>3 DEF Claim, Runnable
  <2>3. ClaimsBudget(r, q)
    BY <1>0, <2>1, <2>2 DEF Claimed, Row, ClaimsBudget
  <2> QED BY <2>3 DEF BudgetStep
<1>4. CASE s = t /\ \E a \in AttemptIds, d \in Durabilities : MarkInputApplied(t, a, d)
  <2>1. PICK d \in Durabilities : q = Stamped(r, d)
    BY <1>0, <1>4 DEF MarkInputApplied, Write
  <2>2. r.status = "running"
    BY <1>4 DEF MarkInputApplied, Runs
  <2>3. CASE r.inputApplied
    BY <2>1, <2>3, UnchangedBudget DEF Stamped
  <2>4. CASE ~r.inputApplied
    <3>1. StampsBudget(r, q)
      BY <1>0, <2>1, <2>2, <2>4 DEF Stamped, Row, StampsBudget
    <3> QED BY <3>1 DEF BudgetStep
  <2> QED BY <2>3, <2>4
<1>5. CASE s = t /\ \E a \in AttemptIds, o \in Owners : ReplaceAttempt(t, a, o)
  <2>1. PICK o \in Owners : q = Replaced(r, lastAttempt + 1, o)
    BY <1>0, <1>5 DEF ReplaceAttempt, WriteWithNewAttempt
  <2>2. LeavesBudget(r, q)
    BY <1>0, <2>1 DEF Replaced, Row, LeavesBudget
  <2> QED BY <2>2 DEF BudgetStep
<1>6. CASE s = t /\ \E a \in AttemptIds : Requeue(t, a)
  <2>1. q = Requeued(r)
    BY <1>0, <1>6 DEF Requeue, Write
  <2>2. DropsInput(r, q)
    BY <1>0, <2>1 DEF Requeued, Row, DropsInput
  <2> QED BY <2>2 DEF BudgetStep
<1>7. CASE s = t /\ LeaseLapses(t)
  <2>1. q = [r EXCEPT !.lease = "lapsed"]
    BY <1>0, <1>7 DEF LeaseLapses, Write
  <2>2. LeavesBudget(r, q)
    BY <1>0, <2>1 DEF Row, LeavesBudget
  <2> QED BY <2>2 DEF BudgetStep
<1> QED BY <1>1, <1>2, <1>3, <1>4, <1>5, <1>6, <1>7

LEMMA SettlementStepBudget ==
  ASSUME AInv, SettlementStep, NEW s \in Submissions
  PROVE  BudgetStep(rows[s], rows'[s])
<1> DEFINE r == rows[s]
           q == rows'[s]
<1>0. r \in Row /\ rows \in [Submissions -> Row]
  BY RowFacts DEF AInv, Inv, TypeOK
<1>1. PICK t \in Submissions :
        \/ \E a \in AttemptIds :
             \/ \E outcome \in Outcomes : ReserveSettlement(t, a, outcome)
             \/ FinalizeSettlement(t, a)
             \/ Complete(t, a)
             \/ \E error \in {"failed", "aborted"} : Fail(t, a, error)
        \/ \E error \in {"failed", "aborted"} : SettleQueued(t, error)
        \/ TerminateMalformed(t)
  BY DEF SettlementStep
<1>2. CASE \E error : SettleWithJoins(t, error)
  BY <1>2, FanOutBudget
<1>3. CASE q = r
  BY <1>3, UnchangedBudget
<1>4. CASE \E a \in AttemptIds, outcome \in Outcomes : ReserveSettlement(t, a, outcome)
  <2>1. PICK a \in AttemptIds, outcome \in Outcomes : Write(t, Reserved(rows[t], a, outcome))
    BY <1>4 DEF ReserveSettlement
  <2>2. q = r \/ q = Reserved(r, a, outcome)
    BY <1>0, <2>1 DEF Write
  <2>3. CASE q = Reserved(r, a, outcome)
    <3>1. LeavesBudget(r, q)
      BY <1>0, <2>3 DEF Reserved, Row, LeavesBudget
    <3> QED BY <3>1 DEF BudgetStep
  <2> QED BY <1>3, <2>2, <2>3
<1>5. CASE \E error \in {"failed", "aborted"} : SettleQueued(t, error)
  <2>1. PICK error \in {"failed", "aborted"} : Write(t, Settled(rows[t], error))
    BY <1>5 DEF SettleQueued
  <2>2. q = r \/ q = Settled(r, error)
    BY <1>0, <2>1 DEF Write
  <2>3. CASE q = Settled(r, error)
    <3>1. LeavesBudget(r, q)
      BY <1>0, <2>3 DEF Settled, Row, LeavesBudget
    <3> QED BY <3>1 DEF BudgetStep
  <2> QED BY <1>3, <2>2, <2>3
<1> QED BY <1>1, <1>2, <1>4, <1>5 DEF FinalizeSettlement, Complete, Fail, TerminateMalformed

LEMMA JoinStepBudget ==
  ASSUME AInv, JoinStep, NEW s \in Submissions
  PROVE  BudgetStep(rows[s], rows'[s])
<1> DEFINE r == rows[s]
           q == rows'[s]
<1>0. r \in Row /\ rows \in [Submissions -> Row]
  BY RowFacts DEF AInv, Inv, TypeOK
<1>1. PICK h \in Submissions, a \in AttemptIds :
        \/ ClaimJoinable(h, a)
        \/ \E t \in Submissions : FinalizeJoined(h, a, t) \/ RevertJoining(h, a, t)
  BY DEF JoinStep
<1>2. CASE q = r
  BY <1>2, UnchangedBudget
<1>3. CASE q = Joining(r, h)
  <2>1. LeavesBudget(r, q)
    BY <1>0, <1>3 DEF Joining, Row, LeavesBudget
  <2> QED BY <2>1 DEF BudgetStep
<1>4. CASE r.status = "joining" /\ q = [r EXCEPT !.status = "joined", !.inputApplied = TRUE]
  <2>1. ConfirmsJoin(r, q)
    BY <1>0, <1>4 DEF Row, ConfirmsJoin
  <2> QED BY <2>1 DEF BudgetStep
<1>5. CASE q = Released(r)
  <2>1. DropsInput(r, q)
    BY <1>0, <1>5 DEF Released, Row, DropsInput
  <2> QED BY <2>1 DEF BudgetStep
<1> QED BY <1>0, <1>1, <1>2, <1>3, <1>4, <1>5
        DEF ClaimJoinable, FinalizeJoined, RevertJoining, Write

LEMMA LedgerStepBudget ==
  ASSUME AInv, LedgerStep, NEW s \in Submissions
  PROVE  BudgetStep(rows[s], rows'[s])
<1>0. rows[s] \in Row /\ rows \in [Submissions -> Row]
  BY RowFacts DEF AInv, Inv, TypeOK
<1>1. CASE AdmissionStep
  <2>1. PICK t \in Submissions : Admit(t) \/ MarkCanonicalReady(t)
    BY <1>1 DEF AdmissionStep
  <2>2. CASE s # t
    <3>1. rows'[s] = rows[s]
      BY <1>0, <2>1, <2>2 DEF Admit, MarkCanonicalReady, Write
    <3> QED BY <3>1, UnchangedBudget
  <2>3. CASE s = t /\ Admit(t)
    <3>1. DropsInput(rows[s], rows'[s])
      BY <1>0, <2>3 DEF Admit, AbsentRow, DropsInput
    <3> QED BY <3>1 DEF BudgetStep
  <2>4. CASE s = t /\ MarkCanonicalReady(t)
    <3>1. rows'[s] = [rows[s] EXCEPT !.ready = TRUE]
      BY <1>0, <2>4 DEF MarkCanonicalReady, Write
    <3>2. LeavesBudget(rows[s], rows'[s])
      BY <1>0, <3>1 DEF Row, LeavesBudget
    <3> QED BY <3>2 DEF BudgetStep
  <2> QED BY <2>1, <2>2, <2>3, <2>4
<1>2. CASE \E o \in Owners : RenewLeases(o)
  <2>1. \/ rows'[s] = rows[s]
        \/ rows'[s] = [rows[s] EXCEPT !.lease = "live"]
    BY <1>2 DEF RenewLeases
  <2>2. CASE rows'[s] = [rows[s] EXCEPT !.lease = "live"]
    <3>1. LeavesBudget(rows[s], rows'[s])
      BY <1>0, <2>2 DEF Row, LeavesBudget
    <3> QED BY <3>1 DEF BudgetStep
  <2> QED BY <2>1, <2>2, UnchangedBudget
<1>3. CASE Tick
  BY <1>3, UnchangedBudget DEF Tick
<1> QED BY <1>1, <1>2, <1>3, AttemptStepBudget, SettlementStepBudget, JoinStepBudget
        DEF LedgerStep

LEMMA StepBudget ==
  ASSUME AInv, [ApprovalsNext]_approvalVars, NEW s \in Submissions
  PROVE  BudgetStep(rows[s], rows'[s])
<1>0. rows[s] \in Row /\ rows \in [Submissions -> Row] /\ now \in Nat
  BY RowFacts DEF AInv, Inv, TypeOK
<1>1. CASE LedgerStep
  BY <1>1, LedgerStepBudget
<1>2. CASE \E t \in Submissions, a \in AttemptIds : Park(t, a)
  <2>1. PICK t \in Submissions : /\ rows[t].status = "running" /\ rows[t].timeoutAt > now
                                 /\ Write(t, Parked(rows[t]))
    BY <1>2 DEF Park, Runs
  <2>2. CASE s # t
    <3>1. rows'[s] = rows[s]
      BY <1>0, <2>1, <2>2 DEF Write
    <3> QED BY <3>1, UnchangedBudget
  <2>3. CASE s = t
    <3>1. rows'[s] = Parked(rows[s])
      BY <1>0, <2>1, <2>3 DEF Write
    <3>2. SavesBudget(rows[s], rows'[s])
      BY <1>0, <2>1, <2>3, <3>1 DEF Parked, Row, SavesBudget
    <3> QED BY <3>2 DEF BudgetStep
  <2> QED BY <2>2, <2>3
<1>3. CASE rows'[s] = rows[s]
  BY <1>3, UnchangedBudget
<1>4. CASE DecisionStep \/ ExpireOverdue
  <2>1. PICK P \in SUBSET {p \in Proposals : Pending(p)} :
          \E verdict \in Verdicts(P) : DecideAll(P, verdict)
    BY <1>4, DecisionsAreSound DEF DecidesSoundly
  <2>2. \/ rows'[s] = rows[s]
        \/ rows[s].status = "waiting" /\ rows'[s] = Resumed(rows[s])
    BY <2>1 DEF DecideAll, ResumeIfNoPending
  <2>3. CASE rows[s].status = "waiting" /\ rows'[s] = Resumed(rows[s])
    <3>1. KeepsSavedBudget(rows[s], rows'[s])
      BY <1>0, <2>3 DEF Resumed, Row, KeepsSavedBudget
    <3> QED BY <3>1 DEF BudgetStep
  <2> QED BY <1>3, <2>2, <2>3
<1>5. CASE \E k \in Sessions : AbortSession(k)
  <2>1. rows'[s] = rows[s] \/ rows'[s] = AbortedRow(rows[s])
    BY <1>5 DEF AbortSession, RequestSessionAbort
  <2>2. CASE rows'[s] = AbortedRow(rows[s]) /\ rows[s].status = "waiting"
    <3>1. DropsInput(rows[s], rows'[s])
      BY <1>0, <2>2 DEF AbortedRow, Row, DropsInput
    <3> QED BY <3>1 DEF BudgetStep
  <2>3. CASE rows'[s] = AbortedRow(rows[s]) /\ rows[s].status # "waiting"
    <3>1. LeavesBudget(rows[s], rows'[s])
      BY <1>0, <2>3 DEF AbortedRow, Row, LeavesBudget
    <3> QED BY <3>1 DEF BudgetStep
  <2> QED BY <1>3, <2>1, <2>2, <2>3
<1> QED BY <1>1, <1>2, <1>3, <1>4, <1>5
        DEF ApprovalsNext, ParkingStep, CreateApproval, RevokeEscalation, approvalVars

\* The saved budget is positive, there while a submission waits, kept until it
\* is claimed again, and gone while it runs.
BudgetAgrees(r) ==
  /\ r.status = "running" => r.remaining = None
  /\ r.status = "waiting" => r.remaining # None
  /\ r.status = "queued" /\ r.inputApplied => r.remaining # None
  /\ r.remaining # None => r.remaining > 0

BudgetIsSaved == \A s \in Submissions : BudgetAgrees(rows[s])

LEMMA BudgetStepKeepsAgreement ==
  ASSUME NEW r \in Row, NEW q \in Row, now \in Nat, BudgetAgrees(r), BudgetStep(r, q)
  PROVE  BudgetAgrees(q)
<1>1. None \notin Nat
  BY SubmissionsAssumption
<1>2. CASE LeavesBudget(r, q)
  BY <1>2 DEF LeavesBudget, BudgetAgrees
<1>3. CASE DropsInput(r, q)
  BY <1>3 DEF DropsInput, BudgetAgrees
<1>4. CASE ClaimsBudget(r, q)
  BY <1>4 DEF ClaimsBudget, BudgetAgrees
<1>5. CASE StampsBudget(r, q)
  BY <1>5 DEF StampsBudget, BudgetAgrees
<1>6. CASE ConfirmsJoin(r, q)
  BY <1>6 DEF ConfirmsJoin, BudgetAgrees
<1>7. CASE SavesBudget(r, q)
  <2>1. q.remaining \in Nat /\ q.remaining > 0
    BY <1>7 DEF SavesBudget, Row
  <2> QED BY <1>1, <1>7, <2>1 DEF SavesBudget, BudgetAgrees
<1>8. CASE KeepsSavedBudget(r, q)
  BY <1>1, <1>8 DEF KeepsSavedBudget, BudgetAgrees
<1> QED BY <1>2, <1>3, <1>4, <1>5, <1>6, <1>7, <1>8 DEF BudgetStep

LEMMA SpecBudget == ApprovalsSpec => []BudgetIsSaved
<1>1. ApprovalsInit => BudgetIsSaved
  BY DEF ApprovalsInit, Init, AbsentRow, BudgetIsSaved, BudgetAgrees
<1>2. AInv /\ AInv' /\ BudgetIsSaved /\ [ApprovalsNext]_approvalVars => BudgetIsSaved'
  <2> SUFFICES ASSUME AInv, AInv', BudgetIsSaved, [ApprovalsNext]_approvalVars,
                      NEW s \in Submissions
               PROVE  BudgetAgrees(rows'[s])
    BY DEF BudgetIsSaved
  <2>1. rows[s] \in Row /\ rows'[s] \in Row /\ now \in Nat
    BY DEF AInv, Inv, TypeOK
  <2> QED BY <2>1, StepBudget, BudgetStepKeepsAgreement DEF BudgetIsSaved
<1> QED BY <1>1, <1>2, SpecAInv, PTL DEF ApprovalsSpec

\* The time left never grows from the stamp on.
LEMMA BudgetStepKeepsLeft ==
  ASSUME NEW r \in Row, NEW q \in Row, now \in Nat, now' \in Nat, now <= now',
         q = r \/ now' = now,
         BudgetAgrees(r), BudgetAgrees(q), BudgetStep(r, q), r.inputApplied, q.inputApplied
  PROVE  (IF q.remaining # None THEN q.remaining
          ELSE IF q.timeoutAt > now' THEN q.timeoutAt - now' ELSE 0) <= Left(r)
<1>1. /\ None \notin Nat
      /\ r.timeoutAt \in Nat /\ q.timeoutAt \in Nat
      /\ r.remaining \in Nat \cup {None} /\ q.remaining \in Nat \cup {None}
  BY SubmissionsAssumption DEF Row
<1>2. CASE q.remaining = r.remaining /\ q.timeoutAt = r.timeoutAt
  BY <1>1, <1>2 DEF Left
<1>3. CASE now' = now
  <2>1. CASE ClaimsBudget(r, q)
    <3>1. r.remaining \in Nat /\ r.remaining > 0 /\ q.remaining = None
      BY <1>1, <2>1 DEF ClaimsBudget, BudgetAgrees
    <3>2. q.timeoutAt = now + r.remaining
      BY <1>1, <2>1, <3>1 DEF ClaimsBudget, ClaimDeadline
    <3>3. Left(r) = r.remaining
      BY <1>1, <3>1 DEF Left
    <3> QED BY <1>1, <1>3, <3>1, <3>2, <3>3
  <2>2. CASE SavesBudget(r, q)
    <3>1. r.remaining = None /\ r.timeoutAt > now /\ q.remaining = r.timeoutAt - now
      BY <2>2 DEF SavesBudget, BudgetAgrees
    <3>2. Left(r) = r.timeoutAt - now
      BY <3>1 DEF Left
    <3> QED BY <1>1, <3>1, <3>2
  <2>3. CASE KeepsSavedBudget(r, q)
    <3>1. r.remaining # None /\ q.remaining = r.remaining
      BY <2>3 DEF KeepsSavedBudget, BudgetAgrees
    <3> QED BY <1>1, <3>1 DEF Left
  <2> QED
    BY <1>2, <2>1, <2>2, <2>3
    DEF BudgetStep, LeavesBudget, DropsInput, StampsBudget, ConfirmsJoin
<1> QED BY <1>2, <1>3

LEMMA ClockStep ==
  ASSUME AInv, [ApprovalsNext]_approvalVars
  PROVE  /\ now \in Nat /\ now' \in Nat /\ now <= now'
         /\ rows' = rows \/ now' = now
<1>1. now \in Nat
  BY DEF AInv, Inv, TypeOK
<1>2. CASE Tick
  BY <1>1, <1>2 DEF Tick
<1>3. CASE now' = now
  BY SMTT(40), <1>1, <1>3
<1>4. CASE LedgerStep
  BY <1>2, <1>3, <1>4
  DEF LedgerStep, AdmissionStep, Admit, MarkCanonicalReady, AttemptStep, Claim, MarkInputApplied,
      ReplaceAttempt, Requeue, LeaseLapses, SettlementStep, ReserveSettlement, FinalizeSettlement,
      Complete, Fail, SettleQueued, TerminateMalformed, JoinStep, ClaimJoinable, FinalizeJoined,
      RevertJoining, RenewLeases, Write, WriteWithNewAttempt, SettleWithJoins
<1>5. CASE ParkingStep
  BY <1>3, <1>5 DEF ParkingStep, CreateApproval, Park, Write
<1>6. CASE DecisionStep \/ ExpireOverdue
  BY <1>3, <1>6, DecisionsAreSound DEF DecidesSoundly, DecideAll
<1>7. CASE \E g \in Groups : RevokeEscalation(g)
  BY <1>3, <1>7 DEF RevokeEscalation
<1>8. CASE \E k \in Sessions : AbortSession(k)
  BY <1>3, <1>8 DEF AbortSession, RequestSessionAbort
<1>9. CASE UNCHANGED approvalVars
  BY <1>3, <1>9 DEF approvalVars
<1> QED BY <1>4, <1>5, <1>6, <1>7, <1>8, <1>9 DEF ApprovalsNext

\* An approval wait neither costs nor refills execution time.
THEOREM WaitsKeepTheBudget == ApprovalsSpec => ApprovalWaitKeepsBudget
<1>1. AInv /\ AInv' /\ BudgetIsSaved /\ BudgetIsSaved' /\ [ApprovalsNext]_approvalVars =>
        [\A s \in Submissions :
           /\ rows[s].inputApplied /\ rows'[s].inputApplied => Left(rows[s])' <= Left(rows[s])
           /\ rows[s].status = "waiting" /\ rows'[s].status = "waiting"
                => rows'[s].remaining = rows[s].remaining]_approvalVars
  <2> SUFFICES ASSUME AInv, AInv', BudgetIsSaved, BudgetIsSaved',
                      [ApprovalsNext]_approvalVars, NEW s \in Submissions
               PROVE  /\ rows[s].inputApplied /\ rows'[s].inputApplied =>
                           Left(rows[s])' <= Left(rows[s])
                      /\ rows[s].status = "waiting" /\ rows'[s].status = "waiting"
                           => rows'[s].remaining = rows[s].remaining
    OBVIOUS
  <2>1. /\ rows[s] \in Row /\ rows'[s] \in Row
        /\ BudgetAgrees(rows[s]) /\ BudgetAgrees(rows'[s])
    BY DEF AInv, Inv, TypeOK, BudgetIsSaved
  <2>2. BudgetStep(rows[s], rows'[s])
    BY StepBudget
  <2>3. /\ now \in Nat /\ now' \in Nat /\ now <= now'
        /\ rows'[s] = rows[s] \/ now' = now
    BY ClockStep
  <2>4. rows[s].inputApplied /\ rows'[s].inputApplied => Left(rows[s])' <= Left(rows[s])
    BY <2>1, <2>2, <2>3, BudgetStepKeepsLeft DEF Left
  <2>5. rows[s].status = "waiting" /\ rows'[s].status = "waiting"
          => rows'[s].remaining = rows[s].remaining
    BY <2>2
    DEF BudgetStep, LeavesBudget, DropsInput, ClaimsBudget, StampsBudget, ConfirmsJoin,
        SavesBudget, KeepsSavedBudget
  <2> QED BY <2>4, <2>5
<1> QED BY <1>1, SpecAInv, SpecBudget, PTL DEF ApprovalsSpec, ApprovalWaitKeepsBudget

-----------------------------------------------------------------------------
(* What a step never does to the ledger, approvals included *)

\* A step is one of the ledger's, or leaves what settles or has settled alone
\* and settles nothing.
LEMMA ApprovalStepsSettleNothing ==
  ASSUME AInv, [ApprovalsNext]_approvalVars, NEW s \in Submissions
  PROVE  \/ Next
         \/ /\ rows[s].status \in {"settled", "terminalizing"} => rows'[s] = rows[s]
            /\ Unsettled(s) => rows'[s].status # "settled"
<1>0. rows[s] \in Row /\ rows \in [Submissions -> Row]
  BY RowFacts DEF AInv, Inv, TypeOK
<1>1. CASE LedgerStep
  BY <1>1 DEF LedgerStep, Next
<1>2. CASE rows'[s] = rows[s]
  BY <1>2 DEF Unsettled, UnsettledStatus
<1>3. CASE \E t \in Submissions, a \in AttemptIds : Park(t, a)
  <2>1. \/ rows'[s] = rows[s]
        \/ rows[s].status = "running" /\ rows'[s] = Parked(rows[s])
    BY <1>0, <1>3 DEF Park, Runs, Write
  <2> QED BY <1>0, <1>2, <2>1 DEF Parked, Row
<1>4. CASE DecisionStep \/ ExpireOverdue
  <2>1. PICK P \in SUBSET {p \in Proposals : Pending(p)} :
          \E verdict \in Verdicts(P) : DecideAll(P, verdict)
    BY <1>4, DecisionsAreSound DEF DecidesSoundly
  <2>2. \/ rows'[s] = rows[s]
        \/ rows[s].status = "waiting" /\ rows'[s] = Resumed(rows[s])
    BY <2>1 DEF DecideAll, ResumeIfNoPending
  <2> QED BY <1>0, <1>2, <2>2, ResumedRow
<1>5. CASE \E k \in Sessions : AbortSession(k)
  BY <1>5 DEF AbortSession, Next
<1> QED BY <1>1, <1>2, <1>3, <1>4, <1>5
        DEF ApprovalsNext, ParkingStep, CreateApproval, RevokeEscalation, approvalVars

\* First terminal state wins, also over parks, decisions and resumes.
THEOREM FirstTerminalStateWinsWithApprovals == ApprovalsSpec => SettledIsFinal
<1>1. AInv /\ [ApprovalsNext]_approvalVars =>
        [\A s \in Submissions : rows[s].status = "settled" => rows'[s] = rows[s]]_vars
  BY ApprovalStepsSettleNothing, StepKeepsSettledRows DEF AInv
<1> QED BY <1>1, SpecAInv, PTL DEF ApprovalsSpec, SettledIsFinal

\* A reserved settlement is kept, also over parks, decisions and resumes.
THEOREM ObligationsAreKeptWithApprovals == ApprovalsSpec => ObligationIsKept
<1>1. AInv /\ [ApprovalsNext]_approvalVars =>
        [\A s \in Submissions :
           rows[s].status = "terminalizing" =>
             \/ rows'[s].status = "settled" /\ rows'[s].error = ErrorOf(rows[s].settlement)
             \/ rows'[s] = [rows[s] EXCEPT !.lease = rows'[s].lease]]_vars
  <2> SUFFICES ASSUME AInv, [ApprovalsNext]_approvalVars, NEW s \in Submissions,
                      rows[s].status = "terminalizing"
               PROVE  \/ rows'[s].status = "settled" /\ rows'[s].error = ErrorOf(rows[s].settlement)
                      \/ rows'[s] = [rows[s] EXCEPT !.lease = rows'[s].lease]
    OBVIOUS
  <2>1. CASE Next
    BY <2>1, StepKeepsObligations DEF AInv
  <2>2. CASE rows'[s] = rows[s]
    BY <2>2, RowFacts DEF AInv, Row
  <2> QED BY <2>1, <2>2, ApprovalStepsSettleNothing
<1> QED BY <1>1, SpecAInv, PTL DEF ApprovalsSpec, ObligationIsKept

\* A host that settles after any number of approval waits still takes its
\* joined deliveries along.
THEOREM HostsReleaseTheirJoinsWithApprovals == ApprovalsSpec => HostSettlementReleasesJoins
<1>1. AInv /\ [ApprovalsNext]_approvalVars =>
        [\A s, h \in Submissions :
           Attached(s, h) /\ Executing(h) /\ rows'[h].status = "settled" =>
             \/ /\ rows[s].status = "joined"
                /\ rows'[s].status = "settled"
                /\ rows'[s].error = rows'[h].error
             \/ /\ rows[s].status = "joining"
                /\ rows'[s].status = "queued"
                /\ rows'[s].joinedInto = None]_vars
  <2> SUFFICES ASSUME AInv, [ApprovalsNext]_approvalVars,
                      NEW s \in Submissions, NEW h \in Submissions,
                      Attached(s, h), Executing(h), rows'[h].status = "settled"
               PROVE  \/ /\ rows[s].status = "joined"
                         /\ rows'[s].status = "settled"
                         /\ rows'[s].error = rows'[h].error
                      \/ /\ rows[s].status = "joining"
                         /\ rows'[s].status = "queued"
                         /\ rows'[s].joinedInto = None
    OBVIOUS
  <2>1. Unsettled(h)
    BY DEF Executing, Unsettled, UnsettledStatus
  <2>2. Next
    BY <2>1, ApprovalStepsSettleNothing
  <2> QED BY <2>2, StepReleasesJoins DEF AInv
<1> QED BY <1>1, SpecAInv, PTL DEF ApprovalsSpec, HostSettlementReleasesJoins

\* Joined deliveries stay behind the head of their session while it is parked.
THEOREM JoinStructureWithApprovals == ApprovalsSpec => []JoinsFollowTheirHost
BY SpecAInv, PTL DEF AInv, Inv

\* The columns of parked and resumed rows agree with their status.
THEOREM RowsConsistentWithApprovals == ApprovalsSpec => []ColumnsMatchStatus
BY SpecAInv, PTL DEF AInv, Inv

-----------------------------------------------------------------------------
(* The promise to callers *)

\* Parking puts a row back to wait for people, decisions and expiries put it
\* back in the queue, and grants are not seen.
LEMMA ApprovalStepIsQuiet ==
  ASSUME AInv, ApprovalsNext, ~LedgerStep
  PROVE  Quiet
<1>0. rows \in [Submissions -> Row]
  BY DEF AInv, Inv, TypeOK
<1>1. CASE ParkingStep
  <2>1. CASE \E s \in Submissions, a \in AttemptIds : Park(s, a)
    <3>1. PICK s \in Submissions : rows[s].status = "running" /\ Write(s, Parked(rows[s]))
      BY <2>1 DEF Park, Runs
    <3>2. PutsBack(rows[s], Parked(rows[s]))
      BY <1>0, <3>1 DEF Parked, PutsBack, Seen, ExecutingRow, Row
    <3> QED BY <3>1, <3>2, WriteIsQuiet DEF Write, AInv
  <2>2. CASE rows' = rows /\ lastSequence' = lastSequence
    BY <2>2, SameRowPutsBack DEF Quiet
  <2> QED BY <1>1, <2>1, <2>2 DEF ParkingStep, CreateApproval
<1>2. CASE DecisionStep \/ ExpireOverdue
  <2>1. PICK P \in SUBSET {p \in Proposals : Pending(p)} :
          \E verdict \in Verdicts(P) : DecideAll(P, verdict)
    BY <1>2, DecisionsAreSound DEF DecidesSoundly
  <2>2. /\ lastSequence' = lastSequence
        /\ \A s \in Submissions :
             \/ rows'[s] = rows[s]
             \/ rows[s].status = "waiting" /\ rows'[s] = Resumed(rows[s])
    BY <2>1 DEF DecideAll, ResumeIfNoPending
  <2>3. ASSUME NEW s \in Submissions PROVE PutsBack(rows[s], rows'[s])
    <3>1. /\ Resumed(rows[s]).status = "queued"
          /\ Resumed(rows[s]).sequence = rows[s].sequence
          /\ Resumed(rows[s]).error = rows[s].error
      BY <1>0, ResumedRow
    <3> QED BY <2>2, <3>1 DEF PutsBack, Seen, ExecutingRow
  <2> QED BY <2>2, <2>3 DEF Quiet
<1>3. CASE \E g \in Groups : RevokeEscalation(g)
  BY <1>3, SameRowPutsBack DEF RevokeEscalation, Quiet
<1>4. CASE \E k \in Sessions : AbortSession(k)
  BY <1>4, AbortIsQuiet DEF AbortSession, AInv
<1> QED BY <1>1, <1>2, <1>3, <1>4 DEF ApprovalsNext

\* The ledger's own steps are its Next with the tables of approvals unchanged.
LEMMA ApprovalNextMaps ==
  ASSUME AInv, ApprovalsNext
  PROVE  Promise!Next
<1>1. CASE LedgerStep
  BY <1>1, NextMaps DEF LedgerStep, Next, AInv
<1>2. CASE ~LedgerStep
  BY <1>2, ApprovalStepIsQuiet, QuietIsPutBack
<1> QED BY <1>1, <1>2

\* With approvals, grants, timers and aborts the ledger still implements the
\* promise made to callers, for any number of proposals and grants.
THEOREM ApprovalsKeepPromise == ApprovalsSpec => PromiseIsKept
<1>1. ApprovalsInit => Promise!Init
  BY InitMaps DEF ApprovalsInit
<1>2. AInv /\ [ApprovalsNext]_approvalVars => [Promise!Next]_(Promise!workVars)
  <2>1. ASSUME UNCHANGED approvalVars PROVE UNCHANGED Promise!workVars
    BY <2>1 DEF approvalVars, Promise!workVars, SeenAs, Executing
  <2> QED BY <2>1, ApprovalNextMaps
<1> QED BY <1>1, <1>2, SpecAInv, PTL DEF ApprovalsSpec, PromiseIsKept, Promise!Spec
=============================================================================
