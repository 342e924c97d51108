------------------------ MODULE LedgerRefinementProofs ------------------------
(***************************************************************************)
(* The ledger implements AcceptedWork: initial states map to initial       *)
(* states, and every step to Accept, Start, PutBack (of nothing, for the   *)
(* steps callers do not see) or Finish.                                    *)
(***************************************************************************)
EXTENDS LedgerRefinement, SubmissionStoreProofs

Seen(r) ==
  IF r.status = "absent" THEN "new"
  ELSE IF r.status = "settled" THEN "done"
  ELSE IF ExecutingRow(r) THEN "active"
  ELSE "waiting"

LEMMA SeenRow ==
  ASSUME NEW s \in Submissions
  PROVE  SeenAs(s) = Seen(rows[s]) /\ SeenAs(s)' = Seen(rows'[s])
BY DEF SeenAs, Seen, Executing, ExecutingRow

LEMMA OpenRow ==
  ASSUME Inv, NEW s \in Submissions
  PROVE  /\ Unsettled(s) <=> Seen(rows[s]) \in {"waiting", "active"}
         /\ Executing(s) => Seen(rows[s]) = "active"
         /\ rows[s].status \in {"queued", "joining", "joined"} => Seen(rows[s]) = "waiting"
BY RowFacts DEF Unsettled, UnsettledStatus, Seen, ExecutingRow, Executing, Row, Status

\* What callers see of a row that a step writes: nothing, or that it is back.
PutsBack(r, q) ==
  /\ q.sequence = r.sequence /\ q.error = r.error
  /\ \/ Seen(q) = Seen(r)
     \/ Seen(r) = "active" /\ Seen(q) = "waiting"

Quiet == lastSequence' = lastSequence /\ \A s \in Submissions : PutsBack(rows[s], rows'[s])

LEMMA QuietIsPutBack ==
  ASSUME Quiet
  PROVE  Promise!Next
<1> DEFINE W == {s \in Submissions : Seen(rows[s]) # Seen(rows'[s])}
<1>1. \A s \in Submissions :
        /\ rows'[s].sequence = rows[s].sequence /\ rows'[s].error = rows[s].error
        /\ s \in W => SeenAs(s) = "active" /\ SeenAs(s)' = "waiting"
        /\ s \notin W => SeenAs(s)' = SeenAs(s)
  BY SeenRow DEF Quiet, PutsBack
<1>2. W \in SUBSET Submissions
  OBVIOUS
<1> HIDE DEF W
<1>3. Promise!PutBack(W)
  BY <1>1, <1>2 DEF Promise!PutBack, Quiet
<1> QED BY <1>2, <1>3 DEF Promise!Next

LEMMA AdmitIsAccept ==
  ASSUME Inv, NEW s \in Submissions, Admit(s)
  PROVE  Promise!Next
<1>1. AbsentRow.error = rows[s].error
  BY RowFacts DEF Admit, ColumnsAgree
<1>2. /\ rows' = [t \in Submissions |->
                    IF t = s THEN [AbsentRow EXCEPT !.status = "queued",
                                                    !.sequence = lastSequence + 1]
                    ELSE rows[t]]
      /\ lastSequence' = lastSequence + 1
  BY DEF Admit, Inv, TypeOK
<1>3. /\ rows'[s].status = "queued" /\ rows'[s].sequence = lastSequence + 1
      /\ rows'[s].error = rows[s].error
      /\ \A t \in Submissions : t # s => rows'[t] = rows[t]
  BY <1>1, <1>2 DEF AbsentRow
<1>4. SeenAs(s) = "new" /\ SeenAs(s)' = "waiting"
  BY <1>3, SeenRow DEF Admit, Seen, ExecutingRow
<1>5. \A t \in Submissions : t # s => SeenAs(t)' = SeenAs(t)
  BY <1>3, SeenRow
<1>6. Promise!Accept(s)
  BY <1>2, <1>3, <1>4, <1>5 DEF Promise!Accept
<1> QED BY <1>6 DEF Promise!Next

LEMMA HeadIsFirst ==
  ASSUME Inv, NEW s \in Submissions, IsHead(s)
  PROVE  Promise!IsFirst(s)
<1> SUFFICES ASSUME NEW t \in Submissions, Promise!Ahead(t, s)
             PROVE  ~Promise!Open(t)
  BY DEF Promise!IsFirst
<1>1. Earlier(t, s)
  BY DEF Promise!Ahead, Earlier, SameSession
<1>2. ~Unsettled(t)
  BY <1>1 DEF IsHead
<1> QED BY <1>2, OpenRow, SeenRow DEF Promise!Open

LEMMA ClaimIsStart ==
  ASSUME Inv, NEW s \in Submissions, NEW o \in Owners, Claim(s, o)
  PROVE  Promise!Next
<1> DEFINE q == Claimed(rows[s], lastAttempt + 1, o)
<1>1. rows' = [t \in Submissions |-> IF t = s THEN q ELSE rows[t]] /\ lastSequence' = lastSequence
  BY DEF Claim, WriteWithNewAttempt, Inv, TypeOK
<1>2. /\ q.status = "running" /\ q.sequence = rows[s].sequence /\ q.error = rows[s].error
  BY RowFacts DEF Claimed, Row
<1> HIDE DEF q
<1>3. rows[s].status = "queued" /\ IsHead(s)
  BY DEF Claim, Runnable
<1>4. SeenAs(s) = "waiting" /\ SeenAs(s)' = "active"
  BY <1>1, <1>2, <1>3, SeenRow DEF Seen, ExecutingRow
<1>5. \A t \in Submissions : t # s => SeenAs(t)' = SeenAs(t)
  BY <1>1, SeenRow
<1>6. Promise!IsFirst(s)
  BY <1>3, HeadIsFirst
<1>7. Promise!Start(s)
  BY <1>1, <1>2, <1>4, <1>5, <1>6 DEF Promise!Start
<1> QED BY <1>7 DEF Promise!Next

LEMMA SettleIsFinish ==
  ASSUME Inv, NEW h \in Submissions, NEW error \in Errors, Unsettled(h),
         SettleWithJoins(h, error)
  PROVE  Promise!Next
<1> DEFINE W == {s \in Submissions : s # h /\ rows[s].joinedInto = h /\ rows[s].status = "joined"}
<1>1. lastSequence' = lastSequence
  BY DEF SettleWithJoins
<1>2. ASSUME NEW s \in Submissions
      PROVE  /\ rows'[s].sequence = rows[s].sequence
             /\ s = h \/ s \in W => Seen(rows'[s]) = "done" /\ rows'[s].error = error
             /\ ~(s = h \/ s \in W) =>
                  Seen(rows'[s]) = Seen(rows[s]) /\ rows'[s].error = rows[s].error
  <2>1. rows[s] \in Row /\ rows'[s] = FanOut(s, h, error)
    BY RowFacts DEF SettleWithJoins
  <2>2. CASE s = h \/ s \in W
    <3>1. rows'[s] = Settled(rows[s], error)
      BY <2>1, <2>2 DEF FanOut
    <3> QED BY <2>1, <2>2, <3>1 DEF Settled, Row, Seen
  <2>3. CASE ~(s = h \/ s \in W) /\ rows[s].joinedInto = h /\ rows[s].status = "joining"
    <3>1. rows'[s] = Released(rows[s])
      BY <2>1, <2>3 DEF FanOut
    <3> QED BY <2>1, <2>3, <3>1 DEF Released, Row, Seen, ExecutingRow
  <2>4. CASE ~(s = h \/ s \in W) /\ ~(rows[s].joinedInto = h /\ rows[s].status = "joining")
    <3>1. rows'[s] = rows[s]
      BY <2>1, <2>4 DEF FanOut
    <3> QED BY <2>4, <3>1
  <2> QED BY <2>2, <2>3, <2>4
<1>3. ASSUME NEW s \in W
      PROVE  Promise!Ahead(h, s) /\ SeenAs(s) = "waiting" /\ IsHead(h)
  <2>1. Attached(s, h)
    BY <1>3 DEF Attached
  <2>2. Earlier(h, s) /\ IsHead(h)
    BY <2>1 DEF Inv, JoinsFollowTheirHost
  <2> QED BY <1>3, <2>2, OpenRow, SeenRow DEF Promise!Ahead, Earlier, SameSession
<1>4. W # {} => Promise!IsFirst(h)
  BY <1>3, HeadIsFirst
<1>5. Promise!Open(h)
  BY OpenRow, SeenRow DEF Promise!Open
<1>6. \A s \in Submissions :
        /\ s = h \/ s \in W => SeenAs(s)' = "done"
        /\ ~(s = h \/ s \in W) => SeenAs(s)' = SeenAs(s)
  BY <1>2, SeenRow
<1>7. W \in SUBSET Submissions
  OBVIOUS
<1>8. \A s \in W : Promise!Ahead(h, s) /\ SeenAs(s) = "waiting"
  BY <1>3
<1> HIDE DEF W
<1>9. Promise!Finish(h, W, error)
  BY <1>1, <1>2, <1>4, <1>5, <1>6, <1>7, <1>8 DEF Promise!Finish
<1> QED BY <1>7, <1>9 DEF Promise!Next

\* A queued row settles alone.
LEMMA SettleQueuedIsFinish ==
  ASSUME Inv, NEW h \in Submissions, NEW error \in Errors, SettleQueued(h, error)
  PROVE  Promise!Next
<1> DEFINE q == Settled(rows[h], error)
<1>1. rows' = [t \in Submissions |-> IF t = h THEN q ELSE rows[t]] /\ lastSequence' = lastSequence
  BY DEF SettleQueued, Write, Inv, TypeOK
<1>2. q.status = "settled" /\ q.sequence = rows[h].sequence /\ q.error = error
  BY RowFacts DEF Settled, Row
<1> HIDE DEF q
<1>3. Promise!Open(h)
  BY OpenRow, SeenRow DEF Promise!Open, SettleQueued
<1>4. SeenAs(h)' = "done"
  BY <1>1, <1>2, SeenRow DEF Seen
<1>5. \A t \in Submissions : t # h => SeenAs(t)' = SeenAs(t)
  BY <1>1, SeenRow
<1>6. Promise!Finish(h, {}, error)
  BY <1>1, <1>2, <1>3, <1>4, <1>5 DEF Promise!Finish
<1>7. {} \in SUBSET Submissions
  OBVIOUS
<1> QED BY <1>6, <1>7 DEF Promise!Next

-----------------------------------------------------------------------------
(* The steps callers do not see, or see as work put back *)

LEMMA SameRowPutsBack ==
  ASSUME NEW r, NEW q, q = r
  PROVE  PutsBack(r, q)
BY DEF PutsBack

LEMMA WriteIsQuiet ==
  ASSUME Inv, NEW s \in Submissions, NEW q, PutsBack(rows[s], q),
         rows' = [rows EXCEPT ![s] = q], lastSequence' = lastSequence
  PROVE  Quiet
<1>1. \A t \in Submissions : rows'[t] = IF t = s THEN q ELSE rows[t]
  BY DEF Inv, TypeOK
<1> QED BY <1>1, SameRowPutsBack DEF Quiet

LEMMA AttemptStepsMap ==
  ASSUME Inv, AttemptStep
  PROVE  Promise!Next
<1>1. PICK s \in Submissions :
        \/ \E o \in Owners : Claim(s, o)
        \/ \E a \in AttemptIds :
             \/ \E d \in Durabilities : MarkInputApplied(s, a, d)
             \/ \E o \in Owners : ReplaceAttempt(s, a, o)
             \/ Requeue(s, a)
        \/ LeaseLapses(s)
  BY DEF AttemptStep
<1>0. rows[s] \in Row
  BY RowFacts
<1>2. CASE \E o \in Owners : Claim(s, o)
  BY <1>2, ClaimIsStart
<1>3. CASE \E a \in AttemptIds, d \in Durabilities : MarkInputApplied(s, a, d)
  <2>1. PICK d \in Durabilities : Write(s, Stamped(rows[s], d))
    BY <1>3 DEF MarkInputApplied
  <2>2. PutsBack(rows[s], Stamped(rows[s], d))
    BY <1>0 DEF Stamped, PutsBack, Seen, ExecutingRow, Row
  <2> QED BY <2>1, <2>2, WriteIsQuiet, QuietIsPutBack DEF Write
<1>4. CASE \E a \in AttemptIds, o \in Owners : ReplaceAttempt(s, a, o)
  <2>1. PICK o \in Owners : WriteWithNewAttempt(s, Replaced(rows[s], lastAttempt + 1, o))
    BY <1>4 DEF ReplaceAttempt
  <2>2. PutsBack(rows[s], Replaced(rows[s], lastAttempt + 1, o))
    BY <1>0 DEF Replaced, PutsBack, Seen, ExecutingRow, Row
  <2> QED BY <2>1, <2>2, WriteIsQuiet, QuietIsPutBack DEF WriteWithNewAttempt
<1>5. CASE \E a \in AttemptIds : Requeue(s, a)
  <2>1. rows[s].status = "running" /\ Write(s, Requeued(rows[s]))
    BY <1>5 DEF Requeue, Runs
  <2>2. PutsBack(rows[s], Requeued(rows[s]))
    BY <1>0, <2>1 DEF Requeued, PutsBack, Seen, ExecutingRow, Row
  <2> QED BY <2>1, <2>2, WriteIsQuiet, QuietIsPutBack DEF Write
<1>6. CASE LeaseLapses(s)
  <2>1. PutsBack(rows[s], [rows[s] EXCEPT !.lease = "lapsed"])
    BY <1>0 DEF PutsBack, Seen, ExecutingRow, Row
  <2> QED BY <1>6, <2>1, WriteIsQuiet, QuietIsPutBack DEF LeaseLapses, Write
<1> QED BY <1>1, <1>2, <1>3, <1>4, <1>5, <1>6

LEMMA SettlementStepsMap ==
  ASSUME Inv, SettlementStep
  PROVE  Promise!Next
<1>1. PICK s \in Submissions :
        \/ \E a \in AttemptIds :
             \/ \E outcome \in Outcomes : ReserveSettlement(s, a, outcome)
             \/ FinalizeSettlement(s, a)
             \/ Complete(s, a)
             \/ \E error \in {"failed", "aborted"} : Fail(s, a, error)
        \/ \E error \in {"failed", "aborted"} : SettleQueued(s, error)
        \/ TerminateMalformed(s)
  BY DEF SettlementStep
<1>0. rows[s] \in Row /\ ColumnsAgree(rows[s])
  BY RowFacts
<1>e. None \in Errors /\ "failed" \in Errors /\ "aborted" \in Errors /\ "malformed" \in Errors
  BY DEF Errors
<1>2. CASE \E a \in AttemptIds, outcome \in Outcomes : ReserveSettlement(s, a, outcome)
  <2>1. PICK a \in AttemptIds, outcome \in Outcomes : ReserveSettlement(s, a, outcome)
    BY <1>2
  <2> DEFINE q == Reserved(rows[s], a, outcome)
  <2>2. /\ q.status = "terminalizing" /\ q.sequence = rows[s].sequence
        /\ q.error = rows[s].error /\ q.joinedInto = rows[s].joinedInto
    BY <1>0 DEF Reserved, Row
  <2>3. /\ rows[s].status = "running" => rows[s].joinedInto = None
        /\ rows[s].status = "joined" => rows[s].joinedInto # None
        /\ rows[s].status \in {"running", "joined"}
    BY <1>0, <2>1 DEF ColumnsAgree, ReserveSettlement, Runs
  <2> HIDE DEF q
  <2>4. PutsBack(rows[s], q)
    BY <2>2, <2>3 DEF PutsBack, Seen, ExecutingRow
  <2>5. Write(s, q)
    BY <2>1 DEF ReserveSettlement, q
  <2> QED BY <2>4, <2>5, WriteIsQuiet, QuietIsPutBack DEF Write
<1>3. CASE \E a \in AttemptIds : FinalizeSettlement(s, a)
  <2>1. rows[s].status = "terminalizing" /\ SettleWithJoins(s, ErrorOf(rows[s].settlement))
    BY <1>3 DEF FinalizeSettlement
  <2>2. rows[s].settlement \in Outcomes /\ Unsettled(s)
    BY <1>0, <2>1 DEF ColumnsAgree, Row, UnsettledStatus, Unsettled
  <2>3. ErrorOf(rows[s].settlement) \in Errors
    BY <2>2, ErrorOfType
  <2> QED BY <2>1, <2>2, <2>3, SettleIsFinish
<1>4. CASE \E a \in AttemptIds : Complete(s, a)
  BY <1>e, <1>4, SettleIsFinish DEF Complete, Runs, Unsettled, UnsettledStatus
<1>5. CASE \E a \in AttemptIds, error \in {"failed", "aborted"} : Fail(s, a, error)
  BY <1>e, <1>5, SettleIsFinish DEF Fail, Runs, Unsettled, UnsettledStatus
<1>6. CASE \E error \in {"failed", "aborted"} : SettleQueued(s, error)
  BY <1>e, <1>6, SettleQueuedIsFinish
<1>7. CASE TerminateMalformed(s)
  BY <1>e, <1>7, SettleIsFinish DEF TerminateMalformed, Unsettled, UnsettledStatus
<1> QED BY <1>1, <1>2, <1>3, <1>4, <1>5, <1>6, <1>7

LEMMA JoinStepIsQuiet ==
  ASSUME Inv, JoinStep
  PROVE  Quiet
<1>0. rows \in [Submissions -> Row]
  BY DEF Inv, TypeOK
<1>1. PICK h \in Submissions, a \in AttemptIds :
        \/ ClaimJoinable(h, a)
        \/ \E t \in Submissions : FinalizeJoined(h, a, t) \/ RevertJoining(h, a, t)
  BY DEF JoinStep
<1>2. lastSequence' = lastSequence
  BY <1>1 DEF ClaimJoinable, FinalizeJoined, RevertJoining, Write
<1>3. ASSUME NEW s \in Submissions PROVE PutsBack(rows[s], rows'[s])
  <2>1. \/ rows'[s] = rows[s]
        \/ rows[s].status = "queued" /\ rows'[s] = Joining(rows[s], h)
        \/ /\ rows[s].status = "joining"
           /\ \/ rows'[s] = [rows[s] EXCEPT !.status = "joined", !.inputApplied = TRUE]
              \/ rows'[s] = Released(rows[s])
    BY <1>0, <1>1 DEF ClaimJoinable, JoinablePrefix, FinalizeJoined, RevertJoining, Write
  <2> QED BY <1>0, <2>1 DEF Joining, Released, PutsBack, Seen, ExecutingRow, Row
<1> QED BY <1>2, <1>3 DEF Quiet

LEMMA AbortIsQuiet ==
  ASSUME Inv, NEW k \in Sessions, RequestSessionAbort(k)
  PROVE  Quiet
<1>1. /\ lastSequence' = lastSequence
      /\ \A s \in Submissions : rows'[s] = rows[s] \/ rows'[s] = AbortedRow(rows[s])
  BY DEF RequestSessionAbort
<1>2. ASSUME NEW s \in Submissions PROVE PutsBack(rows[s], rows'[s])
  <2>1. PutsBack(rows[s], AbortedRow(rows[s]))
    BY RowFacts DEF AbortedRow, PutsBack, Seen, ExecutingRow, Row
  <2> QED BY <1>1, <2>1, SameRowPutsBack
<1> QED BY <1>1, <1>2 DEF Quiet

LEMMA NextMaps ==
  ASSUME Inv, Next
  PROVE  Promise!Next
<1>0. rows \in [Submissions -> Row]
  BY DEF Inv, TypeOK
<1>1. CASE AdmissionStep
  <2>1. PICK s \in Submissions : Admit(s) \/ MarkCanonicalReady(s)
    BY <1>1 DEF AdmissionStep
  <2>2. CASE Admit(s)
    BY <2>2, AdmitIsAccept
  <2>3. CASE MarkCanonicalReady(s)
    <3>1. PutsBack(rows[s], [rows[s] EXCEPT !.ready = TRUE])
      BY <1>0 DEF PutsBack, Seen, ExecutingRow, Row
    <3> QED BY <2>3, <3>1, WriteIsQuiet, QuietIsPutBack DEF MarkCanonicalReady, Write
  <2> QED BY <2>1, <2>2, <2>3
<1>2. CASE JoinStep
  BY <1>2, JoinStepIsQuiet, QuietIsPutBack
<1>3. CASE \E o \in Owners : RenewLeases(o)
  <2>1. /\ lastSequence' = lastSequence
        /\ \A s \in Submissions : \/ rows'[s] = rows[s]
                                  \/ rows'[s] = [rows[s] EXCEPT !.lease = "live"]
    BY <1>3 DEF RenewLeases
  <2>2. ASSUME NEW s \in Submissions PROVE PutsBack(rows[s], rows'[s])
    <3>1. PutsBack(rows[s], [rows[s] EXCEPT !.lease = "live"])
      BY <1>0 DEF PutsBack, Seen, ExecutingRow, Row
    <3> QED BY <2>1, <3>1, SameRowPutsBack
  <2> QED BY <2>1, <2>2, QuietIsPutBack DEF Quiet
<1>4. CASE Tick
  BY <1>4, SameRowPutsBack, QuietIsPutBack DEF Quiet, Tick
<1>5. CASE \E k \in Sessions : RequestSessionAbort(k)
  BY <1>5, AbortIsQuiet, QuietIsPutBack
<1> QED BY <1>1, <1>2, <1>3, <1>4, <1>5, AttemptStepsMap, SettlementStepsMap DEF Next

LEMMA InitMaps == Init => Promise!Init
<1> SUFFICES ASSUME Init PROVE Promise!Init
  OBVIOUS
<1>1. \A s \in Submissions : rows[s] = AbsentRow /\ SeenAs(s) = "new"
  BY DEF Init, AbsentRow, SeenAs
<1>2. lastSequence = 0
  BY DEF Init
<1> QED BY <1>1, <1>2 DEF Promise!Init, AbsentRow

\* The ledger implements the promise made to callers, for any number of
\* submissions, sessions, coordinators and attempts.
THEOREM LedgerKeepsPromise == Spec => PromiseIsKept
<1>1. Inv /\ [Next]_vars => [Promise!Next]_(Promise!workVars)
  <2>1. ASSUME UNCHANGED vars PROVE UNCHANGED Promise!workVars
    BY <2>1 DEF vars, Promise!workVars, SeenAs, Executing
  <2> QED BY <2>1, NextMaps
<1> QED BY <1>1, InitMaps, SpecInv, PTL DEF Spec, PromiseIsKept, Promise!Spec
=============================================================================
