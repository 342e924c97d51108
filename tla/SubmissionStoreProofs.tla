------------------------ MODULE SubmissionStoreProofs ------------------------
(***************************************************************************)
(* Proofs about SubmissionStore, for every set of submissions, owners and  *)
(* sessions.                                                               *)
(***************************************************************************)
EXTENDS SubmissionStore, TLAPS

-----------------------------------------------------------------------------
(* Type correctness *)

\* What each operation writes is a row of the table.
LEMMA AbsentRowType == AbsentRow \in Row
BY DurabilityAssumption DEF AbsentRow, Row, Status, Errors, LeaseStates, NoAttempt

LEMMA NewRowType ==
  ASSUME NEW n \in Nat
  PROVE  [AbsentRow EXCEPT !.status = "queued", !.sequence = n] \in Row
BY AbsentRowType DEF Row, Status, UnsettledStatus

LEMMA FlagRowTypes ==
  ASSUME NEW r \in Row
  PROVE  /\ [r EXCEPT !.ready = TRUE] \in Row
         /\ [r EXCEPT !.lease = "lapsed"] \in Row
         /\ [r EXCEPT !.lease = "live"] \in Row
         /\ [r EXCEPT !.status = "joined", !.inputApplied = TRUE] \in Row
BY ZenonT(60) DEF Row, Status, UnsettledStatus, LeaseStates

LEMMA ClaimedType ==
  ASSUME NEW r \in Row, NEW a \in Nat, NEW o \in Owners, now \in Nat
  PROVE  Claimed(r, a, o) \in Row
<1> DEFINE m == IF r.inputApplied THEN r.maxAttempts ELSE DefaultMaxAttempts
           c == r.attemptCount + 1
           t == ClaimDeadline(r)
<1>1. m \in Nat /\ c \in Nat
  BY DurabilityAssumption DEF Row
<1>2. t \in Nat
  BY DurabilityAssumption DEF ClaimDeadline, Row
<1> HIDE DEF m, c, t
<1>3. [r EXCEPT !.status = "running", !.attempt = a, !.startedAt = now,
                !.attemptCount = c, !.maxAttempts = m, !.timeoutAt = t,
                !.remaining = None, !.owner = o, !.lease = "live"] \in Row
  BY <1>1, <1>2 DEF Row, Status, UnsettledStatus, LeaseStates
<1> QED BY <1>3 DEF Claimed, m, c, t

LEMMA StampedType ==
  ASSUME NEW r \in Row, NEW d \in Durabilities
  PROVE  Stamped(r, d) \in Row
<1> DEFINE t == r.startedAt + d.timeout
<1>1. d.maxAttempts \in Nat /\ t \in Nat
  BY DurabilityAssumption DEF Row
<1> HIDE DEF t
<1>2. [r EXCEPT !.inputApplied = TRUE, !.maxAttempts = d.maxAttempts, !.timeoutAt = t] \in Row
  BY <1>1 DEF Row
<1> QED BY <1>2 DEF Stamped, t

LEMMA ReplacedType ==
  ASSUME NEW r \in Row, NEW a \in Nat, NEW o \in Owners, now \in Nat
  PROVE  Replaced(r, a, o) \in Row
<1> DEFINE c == r.attemptCount + 1
<1>1. c \in Nat
  BY DEF Row
<1> HIDE DEF c
<1>2. [r EXCEPT !.attempt = a, !.startedAt = now, !.attemptCount = c,
                !.owner = o, !.lease = "live"] \in Row
  BY <1>1 DEF Row, LeaseStates
<1> QED BY <1>2 DEF Replaced, c

LEMMA RequeuedType ==
  ASSUME NEW r \in Row
  PROVE  Requeued(r) \in Row
BY DEF Requeued, Row, Status, UnsettledStatus, LeaseStates, NoAttempt

LEMMA AbortedRowType ==
  ASSUME NEW r \in Row
  PROVE  AbortedRow(r) \in Row
BY DEF AbortedRow, Row, Status, UnsettledStatus

LEMMA ReservedType ==
  ASSUME NEW r \in Row, NEW a \in Nat, NEW outcome \in Outcomes, now \in Nat
  PROVE  Reserved(r, a, outcome) \in Row
<1> DEFINE t == IF r.attempt = NoAttempt THEN now ELSE r.startedAt
<1>1. t \in Nat
  BY DEF Row
<1> HIDE DEF t
<1>2. [r EXCEPT !.status = "terminalizing", !.settlement = outcome, !.attempt = a,
                !.startedAt = t] \in Row
  BY <1>1 DEF Row, Status, UnsettledStatus
<1> QED BY <1>2 DEF Reserved, t

LEMMA SettledType ==
  ASSUME NEW r \in Row, NEW error \in Errors
  PROVE  Settled(r, error) \in Row /\ Released(r) \in Row
BY ZenonT(60) DEF Settled, Released, Row, Status, UnsettledStatus

LEMMA JoiningType ==
  ASSUME NEW r \in Row, NEW h \in Submissions
  PROVE  Joining(r, h) \in Row
BY DEF Joining, Row, Status, UnsettledStatus

LEMMA ErrorOfType ==
  ASSUME NEW outcome \in Outcomes
  PROVE  ErrorOf(outcome) \in Errors
BY DEF ErrorOf, Outcomes, Errors

LEMMA WriteType ==
  ASSUME TypeOK, NEW s \in Submissions, NEW r \in Row, Write(s, r)
  PROVE  TypeOK'
BY DEF TypeOK, Write

LEMMA WriteWithNewAttemptType ==
  ASSUME TypeOK, NEW s \in Submissions, NEW r \in Row, WriteWithNewAttempt(s, r)
  PROVE  TypeOK'
BY DEF TypeOK, WriteWithNewAttempt

LEMMA SettleWithJoinsType ==
  ASSUME TypeOK, NEW h \in Submissions, NEW error \in Errors, SettleWithJoins(h, error)
  PROVE  TypeOK'
<1>1. ASSUME NEW s \in Submissions PROVE FanOut(s, h, error) \in Row
  <2>1. rows[s] \in Row
    BY DEF TypeOK
  <2>2. Settled(rows[s], error) \in Row /\ Released(rows[s]) \in Row
    BY <2>1, SettledType
  <2> QED BY <2>1, <2>2 DEF FanOut
<1> QED BY <1>1 DEF TypeOK, SettleWithJoins

-----------------------------------------------------------------------------
(* The inductive invariant *)

Inv ==
  /\ TypeOK
  /\ SequencesAreUnique
  /\ AttemptsAreFenced
  /\ ColumnsMatchStatus
  /\ ExecutesInAdmissionOrder
  /\ JoinsFollowTheirHost

ExecutingRow(r) ==
  \/ r.status \in {"running", "waiting"}
  \/ r.status = "terminalizing" /\ r.joinedInto = None

\* Writing q over row s keeps the place s has in its session: nothing settled
\* comes back, what starts executing was the head, joins are only undone.
KeepsPlace(s, q) ==
  /\ q.sequence = rows[s].sequence
  /\ q.status = "absent" <=> rows[s].status = "absent"
  /\ q.status \in UnsettledStatus => Unsettled(s)
  /\ ExecutingRow(q) => Executing(s) \/ IsHead(s)
  /\ q.status \in {"joining", "joined"} =>
       rows[s].status \in {"joining", "joined"} /\ q.joinedInto = rows[s].joinedInto
  /\ rows[s].joinedInto = None => q.joinedInto = None

\* Writing q over row s creates no new owner of an attempt.
KeepsAttempt(s, q) ==
  /\ q.attempt <= lastAttempt
  /\ q.status = "running" => Runs(s, q.attempt)

SafeWrite(s, q) ==
  /\ q \in Row
  /\ ColumnsAgree(q)
  /\ KeepsPlace(s, q)
  /\ KeepsAttempt(s, q)

LEMMA UnchangedRowIsSafe ==
  ASSUME Inv, NEW s \in Submissions
  PROVE  SafeWrite(s, rows[s])
<1>1. rows[s] \in Row
  BY DEF Inv, TypeOK
<1>2. KeepsPlace(s, rows[s])
  BY DEF KeepsPlace, ExecutingRow, Executing, Unsettled
<1>3. KeepsAttempt(s, rows[s])
  BY DEF KeepsAttempt, Runs, Inv, AttemptsAreFenced
<1> QED BY <1>1, <1>2, <1>3 DEF SafeWrite, Inv, ColumnsMatchStatus

\* The head of a session stays its head as long as rows keep their place.
LEMMA HeadsStay ==
  ASSUME \A s \in Submissions : KeepsPlace(s, rows'[s]),
         NEW h \in Submissions, IsHead(h)
  PROVE  IsHead(h)'
BY DEF KeepsPlace, IsHead, Earlier, Unsettled, SameSession

LEMMA PlacesKeepOrder ==
  ASSUME Inv, \A s \in Submissions : KeepsPlace(s, rows'[s])
  PROVE  ExecutesInAdmissionOrder' /\ JoinsFollowTheirHost'
<1>1. ExecutesInAdmissionOrder'
  <2> SUFFICES ASSUME NEW s \in Submissions, Executing(s)'
               PROVE  IsHead(s)'
    BY DEF ExecutesInAdmissionOrder, IsHead
  <2>1. Executing(s) \/ IsHead(s)
    BY DEF KeepsPlace, ExecutingRow, Executing
  <2>2. IsHead(s)
    BY <2>1 DEF Inv, ExecutesInAdmissionOrder, IsHead
  <2> QED BY <2>2, HeadsStay
<1>2. JoinsFollowTheirHost'
  <2> SUFFICES ASSUME NEW s \in Submissions, NEW h \in Submissions, Attached(s, h)'
               PROVE  /\ rows'[h].status # "absent" /\ Earlier(h, s)'
                      /\ AgentOf[h] = AgentOf[s]
                      /\ rows'[h].joinedInto = None
                      /\ Unsettled(h)' => IsHead(h)'
    BY DEF JoinsFollowTheirHost
  <2>1. Attached(s, h)
    BY DEF KeepsPlace, Attached
  <2>2. /\ rows[h].status # "absent" /\ Earlier(h, s)
        /\ AgentOf[h] = AgentOf[s]
        /\ rows[h].joinedInto = None
        /\ Unsettled(h) => IsHead(h)
    BY <2>1 DEF Inv, JoinsFollowTheirHost
  <2>3. Earlier(h, s)'
    BY <2>2 DEF KeepsPlace, Earlier, SameSession
  <2>4. Unsettled(h)' => IsHead(h)'
    BY <2>2, HeadsStay DEF KeepsPlace, Unsettled
  <2> QED BY <2>2, <2>3, <2>4 DEF KeepsPlace
<1> QED BY <1>1, <1>2

LEMMA PlacesKeepSequences ==
  ASSUME Inv, lastSequence' = lastSequence,
         \A s \in Submissions : KeepsPlace(s, rows'[s])
  PROVE  SequencesAreUnique'
BY DEF Inv, SequencesAreUnique, KeepsPlace

\* Any operation that writes only safe rows keeps the invariant.
LEMMA SafeWritesKeepInv ==
  ASSUME Inv,
         rows' = [s \in Submissions |-> rows'[s]],
         \A s \in Submissions : SafeWrite(s, rows'[s]),
         lastSequence' = lastSequence, lastAttempt' = lastAttempt, now' \in Nat
  PROVE  Inv'
<1>1. TypeOK'
  BY DEF SafeWrite, Inv, TypeOK
<1>2. SequencesAreUnique'
  BY PlacesKeepSequences DEF SafeWrite
<1>3. AttemptsAreFenced'
  BY DEF SafeWrite, KeepsAttempt, Runs, Inv, AttemptsAreFenced
<1>4. ColumnsMatchStatus'
  BY DEF SafeWrite, ColumnsMatchStatus
<1>5. ExecutesInAdmissionOrder' /\ JoinsFollowTheirHost'
  BY PlacesKeepOrder DEF SafeWrite
<1> QED BY <1>1, <1>2, <1>3, <1>4, <1>5 DEF Inv

LEMMA WriteKeepsInv ==
  ASSUME Inv, NEW s \in Submissions, NEW q, SafeWrite(s, q), Write(s, q)
  PROVE  Inv'
<1>1. rows' = [t \in Submissions |-> IF t = s THEN q ELSE rows[t]]
  BY DEF Write, Inv, TypeOK
<1>2. \A t \in Submissions : SafeWrite(t, rows'[t])
  BY <1>1, UnchangedRowIsSafe
<1>3. rows' = [t \in Submissions |-> rows'[t]]
  BY <1>1
<1>4. lastSequence' = lastSequence /\ lastAttempt' = lastAttempt /\ now' \in Nat
  BY DEF Write, Inv, TypeOK
<1> QED BY <1>2, <1>3, <1>4, SafeWritesKeepInv

-----------------------------------------------------------------------------
(* Operations that write one row *)

LEMMA RowFacts ==
  ASSUME Inv, NEW s \in Submissions
  PROVE  /\ rows[s] \in Row
         /\ ColumnsAgree(rows[s])
         /\ rows[s].attempt <= lastAttempt
         /\ lastAttempt \in Nat
         /\ now \in Nat
BY DEF Inv, TypeOK, ColumnsMatchStatus, AttemptsAreFenced

LEMMA MarkCanonicalReadyKeepsInv ==
  ASSUME Inv, NEW s \in Submissions, MarkCanonicalReady(s)
  PROVE  Inv'
<1> DEFINE q == [rows[s] EXCEPT !.ready = TRUE]
<1>1. q \in Row
  BY RowFacts, FlagRowTypes
<1>2. SafeWrite(s, q)
  BY <1>1, RowFacts
  DEF MarkCanonicalReady, SafeWrite, ColumnsAgree, KeepsPlace, KeepsAttempt, ExecutingRow,
      Executing, Unsettled, Runs, Row, UnsettledStatus
<1> QED BY <1>2, WriteKeepsInv DEF MarkCanonicalReady

LEMMA MarkInputAppliedKeepsInv ==
  ASSUME Inv, NEW s \in Submissions, NEW a \in AttemptIds, NEW d \in Durabilities,
         MarkInputApplied(s, a, d)
  PROVE  Inv'
<1> DEFINE q == Stamped(rows[s], d)
<1>1. q \in Row
  BY RowFacts, StampedType
<1>2. SafeWrite(s, q)
  <2>1. /\ q.status = rows[s].status /\ q.sequence = rows[s].sequence
        /\ q.attempt = rows[s].attempt /\ q.joinedInto = rows[s].joinedInto
        /\ q.owner = rows[s].owner /\ q.lease = rows[s].lease
        /\ q.ready = rows[s].ready /\ q.error = rows[s].error
        /\ q.settlement = rows[s].settlement
    BY RowFacts DEF Stamped, Row
  <2>2. rows[s].status = "running"
    BY DEF MarkInputApplied, Runs
  <2> HIDE DEF q
  <2> QED
    BY <1>1, <2>1, <2>2, RowFacts
    DEF SafeWrite, ColumnsAgree, KeepsPlace, KeepsAttempt, ExecutingRow,
        Executing, Unsettled, Runs, UnsettledStatus
<1> QED BY <1>2, WriteKeepsInv DEF MarkInputApplied

LEMMA RequeueKeepsInv ==
  ASSUME Inv, NEW s \in Submissions, NEW a \in AttemptIds, Requeue(s, a)
  PROVE  Inv'
<1> DEFINE q == Requeued(rows[s])
<1>1. q \in Row
  BY RowFacts, RequeuedType
<1>2. SafeWrite(s, q)
  BY <1>1, RowFacts
  DEF Requeue, Requeued, SafeWrite, ColumnsAgree, KeepsPlace, KeepsAttempt, ExecutingRow,
      Executing, Unsettled, Runs, Row, UnsettledStatus, NoAttempt
<1> QED BY <1>2, WriteKeepsInv DEF Requeue

LEMMA LeaseLapsesKeepsInv ==
  ASSUME Inv, NEW s \in Submissions, LeaseLapses(s)
  PROVE  Inv'
<1> DEFINE q == [rows[s] EXCEPT !.lease = "lapsed"]
<1>1. q \in Row
  BY RowFacts, FlagRowTypes
<1>2. SafeWrite(s, q)
  BY <1>1, RowFacts
  DEF LeaseLapses, SafeWrite, ColumnsAgree, KeepsPlace, KeepsAttempt, ExecutingRow,
      Executing, Unsettled, Runs, Row, UnsettledStatus
<1> QED BY <1>2, WriteKeepsInv DEF LeaseLapses

LEMMA ReserveSettlementKeepsInv ==
  ASSUME Inv, NEW s \in Submissions, NEW a \in AttemptIds, NEW outcome \in Outcomes,
         ReserveSettlement(s, a, outcome)
  PROVE  Inv'
<1> DEFINE q == Reserved(rows[s], a, outcome)
<1>0. a \in Nat /\ a # NoAttempt /\ a <= lastAttempt
  BY RowFacts DEF AttemptIds, NoAttempt
<1>1. q \in Row
  BY <1>0, RowFacts, ReservedType
<1>2. SafeWrite(s, q)
  <2>1. /\ q.status = "terminalizing" /\ q.sequence = rows[s].sequence
        /\ q.attempt = a /\ q.joinedInto = rows[s].joinedInto
        /\ q.owner = rows[s].owner /\ q.lease = rows[s].lease
        /\ q.ready = rows[s].ready /\ q.error = rows[s].error
        /\ q.settlement = outcome
    BY RowFacts DEF Reserved, Row
  <2>2. outcome # None
    BY SubmissionsAssumption DEF Outcomes
  <2>3. rows[s].status \in {"running", "joined"}
    BY DEF ReserveSettlement, Runs
  <2> HIDE DEF q
  <2> QED
    BY <1>0, <1>1, <2>1, <2>2, <2>3, RowFacts
    DEF SafeWrite, ColumnsAgree, KeepsPlace, KeepsAttempt, ExecutingRow,
        Executing, Unsettled, Runs, UnsettledStatus, NoAttempt
<1> QED BY <1>2, WriteKeepsInv DEF ReserveSettlement

LEMMA SettleQueuedKeepsInv ==
  ASSUME Inv, NEW s \in Submissions, NEW error \in Errors, SettleQueued(s, error)
  PROVE  Inv'
<1> DEFINE q == Settled(rows[s], error)
<1>1. q \in Row
  BY RowFacts, SettledType
<1>2. SafeWrite(s, q)
  BY <1>1, RowFacts
  DEF SettleQueued, Settled, SafeWrite, ColumnsAgree, KeepsPlace, KeepsAttempt, ExecutingRow,
      Executing, Unsettled, Runs, Row, UnsettledStatus
<1> QED BY <1>2, WriteKeepsInv DEF SettleQueued

LEMMA FinalizeJoinedKeepsInv ==
  ASSUME Inv, NEW h \in Submissions, NEW a \in AttemptIds, NEW s \in Submissions,
         FinalizeJoined(h, a, s)
  PROVE  Inv'
<1> DEFINE q == [rows[s] EXCEPT !.status = "joined", !.inputApplied = TRUE]
<1>1. q \in Row
  BY RowFacts, FlagRowTypes
<1>2. SafeWrite(s, q)
  BY <1>1, RowFacts
  DEF FinalizeJoined, Attached, SafeWrite, ColumnsAgree, KeepsPlace, KeepsAttempt, ExecutingRow,
      Executing, Unsettled, Runs, Row, UnsettledStatus
<1> QED BY <1>2, WriteKeepsInv DEF FinalizeJoined

LEMMA RevertJoiningKeepsInv ==
  ASSUME Inv, NEW h \in Submissions, NEW a \in AttemptIds, NEW s \in Submissions,
         RevertJoining(h, a, s)
  PROVE  Inv'
<1> DEFINE q == Released(rows[s])
<1>1. q \in Row
  BY RowFacts, SettledType DEF Errors
<1>2. SafeWrite(s, q)
  BY <1>1, RowFacts
  DEF RevertJoining, Attached, Released, SafeWrite, ColumnsAgree, KeepsPlace, KeepsAttempt,
      ExecutingRow, Executing, Unsettled, Runs, Row, UnsettledStatus
<1> QED BY <1>2, WriteKeepsInv DEF RevertJoining

-----------------------------------------------------------------------------
(* Operations that write several rows *)

LEMMA TickKeepsInv ==
  ASSUME Inv, Tick
  PROVE  Inv'
<1>1. now' \in Nat
  BY DEF Tick, Inv, TypeOK
<1>2. rows' = rows /\ lastSequence' = lastSequence /\ lastAttempt' = lastAttempt
  BY DEF Tick
<1> QED
  BY <1>1, <1>2
  DEF Inv, TypeOK, SequencesAreUnique, AttemptsAreFenced, ColumnsMatchStatus,
      ExecutesInAdmissionOrder, JoinsFollowTheirHost, Executing, Earlier, Unsettled,
      Attached, IsHead, SameSession

LEMMA RenewLeasesKeepsInv ==
  ASSUME Inv, NEW o \in Owners, RenewLeases(o)
  PROVE  Inv'
<1>1. PICK S \in SUBSET {s \in Submissions : rows[s].owner = o /\ rows[s].status = "running"} :
        /\ rows' = [s \in Submissions |->
                      IF s \in S THEN [rows[s] EXCEPT !.lease = "live"] ELSE rows[s]]
        /\ UNCHANGED <<lastSequence, lastAttempt, now>>
  BY DEF RenewLeases
<1>2. ASSUME NEW s \in Submissions PROVE SafeWrite(s, rows'[s])
  <2> DEFINE q == [rows[s] EXCEPT !.lease = "live"]
  <2>1. q \in Row
    BY RowFacts, FlagRowTypes
  <2>2. rows[s].status = "running" => SafeWrite(s, q)
    BY <2>1, RowFacts
    DEF SafeWrite, ColumnsAgree, KeepsPlace, KeepsAttempt, ExecutingRow,
        Executing, Unsettled, Runs, Row, UnsettledStatus
  <2>3. CASE s \in S
    BY <1>1, <2>2, <2>3
  <2>4. CASE s \notin S
    BY <1>1, <2>4, UnchangedRowIsSafe
  <2> QED BY <2>3, <2>4
<1>3. rows' = [s \in Submissions |-> rows'[s]]
  BY <1>1
<1> QED BY <1>1, <1>2, <1>3, RowFacts, SafeWritesKeepInv DEF Inv, TypeOK

LEMMA RequestSessionAbortKeepsInv ==
  ASSUME Inv, NEW k \in Sessions, RequestSessionAbort(k)
  PROVE  Inv'
<1>1. ASSUME NEW s \in Submissions PROVE SafeWrite(s, rows'[s])
  <2> DEFINE q == AbortedRow(rows[s])
  <2>1. q \in Row
    BY RowFacts, AbortedRowType
  <2>2. /\ q.sequence = rows[s].sequence /\ q.attempt = rows[s].attempt
        /\ q.joinedInto = rows[s].joinedInto /\ q.owner = rows[s].owner
        /\ q.lease = rows[s].lease /\ q.ready = rows[s].ready
        /\ q.error = rows[s].error /\ q.settlement = rows[s].settlement
        /\ q.status = IF rows[s].status = "waiting" THEN "queued" ELSE rows[s].status
    BY RowFacts DEF AbortedRow, Row
  <2>3. rows[s].status \in Abortable => SafeWrite(s, q)
    <3> HIDE DEF q
    <3> QED
      BY <2>1, <2>2, RowFacts
      DEF SafeWrite, ColumnsAgree, KeepsPlace, KeepsAttempt, ExecutingRow, Abortable,
          Executing, Unsettled, Runs, UnsettledStatus
  <2>4. \/ rows'[s] = q /\ rows[s].status \in Abortable
        \/ rows'[s] = rows[s]
    BY DEF RequestSessionAbort
  <2> QED BY <2>3, <2>4, UnchangedRowIsSafe
<1>2. rows' = [s \in Submissions |-> rows'[s]]
  BY DEF RequestSessionAbort
<1>3. lastSequence' = lastSequence /\ lastAttempt' = lastAttempt /\ now' \in Nat
  BY DEF RequestSessionAbort, Inv, TypeOK
<1> QED BY <1>1, <1>2, <1>3, SafeWritesKeepInv

\* A terminal write and its fan-out, for a row that may settle with this error.
LEMMA SettleWithJoinsKeepsInv ==
  ASSUME Inv, NEW h \in Submissions, NEW error \in Errors,
         rows[h].status \in UnsettledStatus,
         rows[h].settlement # None => error = ErrorOf(rows[h].settlement),
         SettleWithJoins(h, error)
  PROVE  Inv'
<1>1. ASSUME NEW s \in Submissions PROVE SafeWrite(s, FanOut(s, h, error))
  <2> DEFINE q == Settled(rows[s], error)
             p == Released(rows[s])
  <2>1. q \in Row /\ p \in Row
    BY RowFacts, SettledType
  <2>2. CASE s = h
    <3>1. SafeWrite(s, q)
      BY <2>1, <2>2, RowFacts
      DEF Settled, SafeWrite, ColumnsAgree, KeepsPlace, KeepsAttempt, ExecutingRow,
          Executing, Unsettled, Runs, Row, UnsettledStatus
    <3> QED BY <2>2, <3>1 DEF FanOut
  <2>3. CASE s # h /\ rows[s].joinedInto = h /\ rows[s].status = "joined"
    <3>1. SafeWrite(s, q)
      BY <2>1, <2>3, RowFacts
      DEF Settled, SafeWrite, ColumnsAgree, KeepsPlace, KeepsAttempt, ExecutingRow,
          Executing, Unsettled, Runs, Row, UnsettledStatus
    <3> QED BY <2>3, <3>1 DEF FanOut
  <2>4. CASE s # h /\ rows[s].joinedInto = h /\ rows[s].status = "joining"
    <3>1. SafeWrite(s, p)
      BY <2>1, <2>4, RowFacts
      DEF Released, SafeWrite, ColumnsAgree, KeepsPlace, KeepsAttempt, ExecutingRow,
          Executing, Unsettled, Runs, Row, UnsettledStatus
    <3> QED BY <2>4, <3>1 DEF FanOut
  <2>5. CASE s # h /\ ~(rows[s].joinedInto = h /\ rows[s].status \in {"joined", "joining"})
    BY <2>5, UnchangedRowIsSafe DEF FanOut
  <2> QED BY <2>2, <2>3, <2>4, <2>5
<1>2. \A s \in Submissions : SafeWrite(s, rows'[s])
  BY <1>1 DEF SettleWithJoins
<1>3. rows' = [s \in Submissions |-> rows'[s]]
  BY DEF SettleWithJoins
<1>4. lastSequence' = lastSequence /\ lastAttempt' = lastAttempt /\ now' \in Nat
  BY DEF SettleWithJoins, Inv, TypeOK
<1> QED BY <1>2, <1>3, <1>4, SafeWritesKeepInv

LEMMA SettlementKeepsInv ==
  ASSUME Inv, NEW s \in Submissions
  PROVE  /\ \A a \in AttemptIds : FinalizeSettlement(s, a) \/ Complete(s, a) => Inv'
         /\ \A a \in AttemptIds, e \in {"failed", "aborted"} : Fail(s, a, e) => Inv'
         /\ TerminateMalformed(s) => Inv'
<1>1. rows[s] \in Row /\ ColumnsAgree(rows[s])
  BY RowFacts
<1>2. None \in Errors /\ "failed" \in Errors /\ "aborted" \in Errors /\ "malformed" \in Errors
  BY DEF Errors
<1>3. ASSUME NEW a \in AttemptIds, FinalizeSettlement(s, a) PROVE Inv'
  <2>1. rows[s].settlement \in Outcomes
    BY <1>1, <1>3 DEF FinalizeSettlement, ColumnsAgree, Row, UnsettledStatus
  <2> QED
    BY <1>3, <2>1, ErrorOfType, SettleWithJoinsKeepsInv DEF FinalizeSettlement, UnsettledStatus
<1>4. ASSUME NEW a \in AttemptIds, Complete(s, a) PROVE Inv'
  BY <1>1, <1>2, <1>4, SettleWithJoinsKeepsInv DEF Complete, Runs, ColumnsAgree, UnsettledStatus
<1>5. ASSUME NEW a \in AttemptIds, NEW e \in {"failed", "aborted"}, Fail(s, a, e) PROVE Inv'
  BY <1>1, <1>2, <1>5, SettleWithJoinsKeepsInv DEF Fail, Runs, ColumnsAgree, UnsettledStatus
<1>6. ASSUME TerminateMalformed(s) PROVE Inv'
  BY <1>1, <1>2, <1>6, SettleWithJoinsKeepsInv
  DEF TerminateMalformed, ColumnsAgree, UnsettledStatus
<1> QED BY <1>3, <1>4, <1>5, <1>6

-----------------------------------------------------------------------------
(* Claims *)

\* A claim or a replacement: the row keeps its place and runs under a new id.
LEMMA NewAttemptKeepsInv ==
  ASSUME Inv, NEW s \in Submissions, NEW q \in Row,
         ColumnsAgree(q), KeepsPlace(s, q),
         q.attempt = lastAttempt + 1,
         WriteWithNewAttempt(s, q)
  PROVE  Inv'
<1>1. rows' = [t \in Submissions |-> IF t = s THEN q ELSE rows[t]]
  BY DEF WriteWithNewAttempt, Inv, TypeOK
<1>2. lastSequence' = lastSequence /\ lastAttempt' = lastAttempt + 1 /\ now' = now
  BY DEF WriteWithNewAttempt
<1>3. TypeOK'
  BY <1>1, <1>2 DEF Inv, TypeOK
<1>4. \A t \in Submissions : KeepsPlace(t, rows'[t])
  BY <1>1, UnchangedRowIsSafe DEF SafeWrite
<1>5. SequencesAreUnique'
  BY <1>2, <1>4, PlacesKeepSequences
<1>6. AttemptsAreFenced'
  <2>1. \A t \in Submissions : rows[t].attempt \in Nat /\ rows[t].attempt <= lastAttempt
    BY RowFacts DEF Row
  <2>2. lastAttempt \in Nat
    BY DEF Inv, TypeOK
  <2>3. \A t \in Submissions : rows'[t].attempt <= lastAttempt + 1
    BY <1>1, <2>1, <2>2
  <2>4. ASSUME NEW t \in Submissions, NEW u \in Submissions, t # u,
               rows'[t].status = "running", rows'[u].status = "running"
        PROVE  rows'[t].attempt # rows'[u].attempt
    BY <1>1, <2>1, <2>2, <2>4 DEF Inv, AttemptsAreFenced
  <2> QED BY <1>2, <2>3, <2>4 DEF AttemptsAreFenced
<1>7. ColumnsMatchStatus'
  BY <1>1 DEF Inv, ColumnsMatchStatus
<1>8. ExecutesInAdmissionOrder' /\ JoinsFollowTheirHost'
  BY <1>4, PlacesKeepOrder
<1> QED BY <1>3, <1>5, <1>6, <1>7, <1>8 DEF Inv

LEMMA ClaimKeepsInv ==
  ASSUME Inv, NEW s \in Submissions, NEW o \in Owners, Claim(s, o)
  PROVE  Inv'
<1> DEFINE q == Claimed(rows[s], lastAttempt + 1, o)
<1>1. lastAttempt \in Nat /\ lastAttempt + 1 \in Nat /\ lastAttempt + 1 # NoAttempt
  BY RowFacts DEF NoAttempt
<1>2. q \in Row
  BY <1>1, RowFacts, ClaimedType
<1>3. /\ q.status = "running" /\ q.sequence = rows[s].sequence
      /\ q.attempt = lastAttempt + 1 /\ q.joinedInto = rows[s].joinedInto
      /\ q.owner = o /\ q.ready = rows[s].ready /\ q.error = rows[s].error
      /\ q.settlement = rows[s].settlement
  BY RowFacts DEF Claimed, Row
<1>4. rows[s].status = "queued" /\ rows[s].ready /\ IsHead(s)
  BY DEF Claim, Runnable
<1>5. o # None
  BY SubmissionsAssumption
<1>6. WriteWithNewAttempt(s, q)
  BY DEF Claim
<1> HIDE DEF q
<1>7. ColumnsAgree(q) /\ KeepsPlace(s, q)
  BY <1>1, <1>2, <1>3, <1>4, <1>5, RowFacts
  DEF ColumnsAgree, KeepsPlace, ExecutingRow, Executing, Unsettled, UnsettledStatus
<1> QED BY <1>2, <1>3, <1>6, <1>7, NewAttemptKeepsInv

LEMMA ReplaceAttemptKeepsInv ==
  ASSUME Inv, NEW s \in Submissions, NEW a \in AttemptIds, NEW o \in Owners,
         ReplaceAttempt(s, a, o)
  PROVE  Inv'
<1> DEFINE q == Replaced(rows[s], lastAttempt + 1, o)
<1>1. lastAttempt \in Nat /\ lastAttempt + 1 \in Nat /\ lastAttempt + 1 # NoAttempt
  BY RowFacts DEF NoAttempt
<1>2. q \in Row
  BY <1>1, RowFacts, ReplacedType
<1>3. /\ q.status = rows[s].status /\ q.sequence = rows[s].sequence
      /\ q.attempt = lastAttempt + 1 /\ q.joinedInto = rows[s].joinedInto
      /\ q.owner = o /\ q.ready = rows[s].ready /\ q.error = rows[s].error
      /\ q.settlement = rows[s].settlement
  BY RowFacts DEF Replaced, Row
<1>4. rows[s].status = "running"
  BY DEF ReplaceAttempt, Runs
<1>5. o # None
  BY SubmissionsAssumption
<1>6. WriteWithNewAttempt(s, q)
  BY DEF ReplaceAttempt
<1> HIDE DEF q
<1>7. ColumnsAgree(q) /\ KeepsPlace(s, q)
  BY <1>1, <1>2, <1>3, <1>4, <1>5, RowFacts
  DEF ColumnsAgree, KeepsPlace, ExecutingRow, Executing, Unsettled, UnsettledStatus
<1> QED BY <1>2, <1>3, <1>6, <1>7, NewAttemptKeepsInv

-----------------------------------------------------------------------------
(* Admission and joins: the two operations that extend the order relations *)

LEMMA AdmitKeepsInv ==
  ASSUME Inv, NEW s \in Submissions, Admit(s)
  PROVE  Inv'
<1> DEFINE q == [AbsentRow EXCEPT !.status = "queued", !.sequence = lastSequence + 1]
<1>1. lastSequence \in Nat /\ lastSequence + 1 \in Nat
  BY DEF Inv, TypeOK
<1>2. q \in Row
  BY <1>1, NewRowType
<1>3. /\ q.status = "queued" /\ q.sequence = lastSequence + 1 /\ q.attempt = NoAttempt
      /\ q.joinedInto = None /\ q.owner = None /\ q.lease = "none"
      /\ q.error = None /\ q.settlement = None
  BY DEF AbsentRow
<1>4. rows' = [t \in Submissions |-> IF t = s THEN q ELSE rows[t]]
  BY DEF Admit, Inv, TypeOK
<1>5. lastSequence' = lastSequence + 1 /\ lastAttempt' = lastAttempt /\ now' = now
  BY DEF Admit
<1>6. rows[s].status = "absent"
  BY DEF Admit
<1>7. \A t \in Submissions : rows[t].sequence \in Nat /\ rows[t].sequence <= lastSequence
  BY DEF Inv, TypeOK, Row, SequencesAreUnique
<1> HIDE DEF q
<1>8. TypeOK'
  BY <1>2, <1>4, <1>5, <1>1 DEF Inv, TypeOK
<1>9. SequencesAreUnique'
  BY <1>1, <1>3, <1>4, <1>5, <1>7 DEF Inv, SequencesAreUnique
<1>10. AttemptsAreFenced'
  BY <1>3, <1>4, <1>5, RowFacts DEF Inv, AttemptsAreFenced, NoAttempt
<1>11. ColumnsMatchStatus'
  BY <1>3, <1>4 DEF Inv, ColumnsMatchStatus, ColumnsAgree, UnsettledStatus
<1>12. ASSUME NEW t \in Submissions, IsHead(t), t # s
       PROVE  IsHead(t)'
  <2> SUFFICES ASSUME NEW u \in Submissions, Earlier(u, t)', Unsettled(u)'
               PROVE  FALSE
    BY DEF IsHead
  <2>1. u # s
    BY <1>1, <1>3, <1>4, <1>7, <1>12 DEF Earlier
  <2> QED BY <1>4, <1>12, <2>1 DEF IsHead, Earlier, Unsettled, SameSession
<1>13. ExecutesInAdmissionOrder'
  <2> SUFFICES ASSUME NEW t \in Submissions, Executing(t)'
               PROVE  IsHead(t)'
    BY DEF ExecutesInAdmissionOrder, IsHead
  <2>1. t # s
    BY <1>3, <1>4 DEF Executing
  <2>2. IsHead(t)
    BY <1>4, <2>1 DEF Executing, Inv, ExecutesInAdmissionOrder, IsHead
  <2> QED BY <1>12, <2>1, <2>2
<1>14. JoinsFollowTheirHost'
  <2> SUFFICES ASSUME NEW t \in Submissions, NEW h \in Submissions, Attached(t, h)'
               PROVE  /\ rows'[h].status # "absent" /\ Earlier(h, t)'
                      /\ AgentOf[h] = AgentOf[t]
                      /\ rows'[h].joinedInto = None
                      /\ Unsettled(h)' => IsHead(h)'
    BY DEF JoinsFollowTheirHost
  <2>1. t # s
    BY <1>3, <1>4 DEF Attached
  <2>2. Attached(t, h)
    BY <1>4, <2>1 DEF Attached
  <2>3. /\ rows[h].status # "absent" /\ Earlier(h, t)
        /\ AgentOf[h] = AgentOf[t] /\ rows[h].joinedInto = None
        /\ Unsettled(h) => IsHead(h)
    BY <2>2 DEF Inv, JoinsFollowTheirHost
  <2>4. h # s
    BY <1>6, <2>3
  <2>5. Earlier(h, t)' /\ (Unsettled(h)' => Unsettled(h)) /\ rows'[h] = rows[h]
    BY <1>4, <2>1, <2>3, <2>4 DEF Earlier, Unsettled, SameSession
  <2> QED BY <1>12, <2>3, <2>4, <2>5
<1> QED BY <1>8, <1>9, <1>10, <1>11, <1>13, <1>14 DEF Inv

LEMMA ClaimJoinableKeepsInv ==
  ASSUME Inv, NEW h \in Submissions, NEW a \in AttemptIds, ClaimJoinable(h, a)
  PROVE  Inv'
<1> DEFINE P == JoinablePrefix(h)
<1>1. rows' = [s \in Submissions |-> IF s \in P THEN Joining(rows[s], h) ELSE rows[s]]
  BY DEF ClaimJoinable
<1>2. lastSequence' = lastSequence /\ lastAttempt' = lastAttempt /\ now' = now
  BY DEF ClaimJoinable
<1>3. rows[h].status = "running" /\ rows[h].joinedInto = None /\ IsHead(h)
  BY RowFacts DEF ClaimJoinable, Runs, ColumnsAgree, Inv, ExecutesInAdmissionOrder,
                  Executing, IsHead
<1>4. ASSUME NEW s \in P
      PROVE  /\ s \in Submissions /\ SameSession(s, h) /\ rows[s].status = "queued"
             /\ rows[s].ready /\ AgentOf[s] = AgentOf[h]
  <2>1. s \in Submissions /\ SameSession(s, h) /\ rows[s].status = "queued"
    BY <1>4 DEF JoinablePrefix
  <2>2. rows[s].sequence <= rows[s].sequence
    BY <2>1, RowFacts DEF Row
  <2>3. Joinable(s, h)
    BY <1>4, <2>1, <2>2 DEF JoinablePrefix
  <2> QED BY <2>1, <2>3 DEF Joinable
<1> HIDE DEF P
<1>5. ASSUME NEW s \in P
      PROVE  /\ rows'[s] \in Row /\ ColumnsAgree(rows'[s])
             /\ rows'[s].status = "joining" /\ rows'[s].joinedInto = h
             /\ rows'[s].sequence = rows[s].sequence /\ rows'[s].attempt = rows[s].attempt
  <2>1. s \in Submissions /\ rows[s].status = "queued" /\ rows[s].ready
    BY <1>4, <1>5
  <2>2. rows'[s] = Joining(rows[s], h)
    BY <1>1, <1>5, <2>1
  <2>3. rows[s] \in Row /\ ColumnsAgree(rows[s]) /\ Joining(rows[s], h) \in Row
    BY <2>1, RowFacts, JoiningType
  <2> QED
    BY <2>1, <2>2, <2>3, SubmissionsAssumption DEF Joining, Row, ColumnsAgree, UnsettledStatus
<1>6. \A s \in Submissions : s \notin P => rows'[s] = rows[s]
  BY <1>1
<1>7. h \notin P
  BY <1>3, <1>4
<1>8. ASSUME NEW s \in P PROVE Earlier(h, s)
  <2>1. s \in Submissions /\ SameSession(s, h) /\ rows[s].status = "queued" /\ s # h
    BY <1>3, <1>4, <1>8
  <2>2. rows[s].sequence \in Nat /\ rows[h].sequence \in Nat
    BY <2>1, RowFacts DEF Row
  <2>3. rows[s].sequence # rows[h].sequence
    BY <2>1 DEF Inv, SequencesAreUnique
  <2>4. ~Earlier(s, h)
    BY <1>3, <2>1 DEF IsHead, Unsettled, UnsettledStatus
  <2> QED BY <2>1, <2>2, <2>3, <2>4 DEF Earlier, SameSession
<1>9. TypeOK'
  <2>1. \A s \in Submissions : rows'[s] \in Row
    BY <1>5, <1>6, RowFacts
  <2> QED BY <1>1, <1>2, <2>1 DEF Inv, TypeOK
<1>10. ASSUME NEW s \in Submissions
       PROVE  /\ rows'[s].sequence = rows[s].sequence
              /\ rows'[s].attempt = rows[s].attempt
              /\ rows'[s].status = "absent" <=> rows[s].status = "absent"
              /\ Unsettled(s)' <=> Unsettled(s)
              /\ rows'[s].status = "running" => rows[s].status = "running"
              /\ Executing(s)' => Executing(s)
  BY <1>4, <1>5, <1>6 DEF Unsettled, Executing, UnsettledStatus
<1>11. ASSUME NEW s \in Submissions, IsHead(s) PROVE IsHead(s)'
  BY <1>10, <1>11 DEF IsHead, Earlier, SameSession
<1>12. SequencesAreUnique'
  BY <1>2, <1>10 DEF Inv, SequencesAreUnique
<1>13. AttemptsAreFenced'
  BY <1>2, <1>10 DEF Inv, AttemptsAreFenced
<1>14. ColumnsMatchStatus'
  BY <1>5, <1>6 DEF Inv, ColumnsMatchStatus
<1>15. ExecutesInAdmissionOrder'
  BY <1>10 DEF Inv, ExecutesInAdmissionOrder, Earlier, SameSession
<1>16. JoinsFollowTheirHost'
  <2> SUFFICES ASSUME NEW s \in Submissions, NEW g \in Submissions, Attached(s, g)'
               PROVE  /\ rows'[g].status # "absent" /\ Earlier(g, s)'
                      /\ AgentOf[g] = AgentOf[s]
                      /\ rows'[g].joinedInto = None
                      /\ Unsettled(g)' => IsHead(g)'
    BY DEF JoinsFollowTheirHost
  <2>1. CASE s \in P
    <3>1. g = h
      BY <1>5, <2>1 DEF Attached
    <3>2. Earlier(h, s)'
      BY <1>8, <1>10, <2>1 DEF Earlier, SameSession
    <3>3. rows'[h] = rows[h]
      BY <1>6, <1>7
    <3> QED BY <1>3, <1>4, <1>11, <2>1, <3>1, <3>2, <3>3
  <2>2. CASE s \notin P
    <3>1. Attached(s, g)
      BY <1>6, <2>2 DEF Attached
    <3>2. /\ rows[g].status # "absent" /\ Earlier(g, s)
          /\ AgentOf[g] = AgentOf[s] /\ rows[g].joinedInto = None
          /\ Unsettled(g) => IsHead(g)
      BY <3>1 DEF Inv, JoinsFollowTheirHost
    \* g is not claimed itself: it would be the head, and behind the running h.
    <3>3. g \notin P
      <4> SUFFICES ASSUME g \in P PROVE FALSE
        OBVIOUS
      <4>1. Earlier(h, g) /\ IsHead(g)
        BY <1>4, <1>8, <3>2 DEF Unsettled, UnsettledStatus
      <4> QED BY <1>3, <4>1 DEF IsHead, Unsettled, UnsettledStatus
    <3>4. Earlier(g, s)'
      BY <1>10, <3>2 DEF Earlier, SameSession
    <3> QED BY <1>6, <1>10, <1>11, <3>2, <3>3, <3>4
  <2> QED BY <2>1, <2>2
<1> QED BY <1>9, <1>12, <1>13, <1>14, <1>15, <1>16 DEF Inv

-----------------------------------------------------------------------------
(* The invariant holds *)

LEMMA InitInv == Init => Inv
<1> SUFFICES ASSUME Init PROVE Inv
  OBVIOUS
<1>1. AbsentRow \in Row
  BY AbsentRowType
<1>2. \A s \in Submissions : rows[s] = AbsentRow
  BY DEF Init
<1>3. TypeOK
  BY <1>1 DEF Init, TypeOK
<1>4. /\ AbsentRow.status = "absent" /\ AbsentRow.sequence = 0 /\ AbsentRow.attempt = 0
      /\ AbsentRow.settlement = None
  BY DEF AbsentRow, NoAttempt
<1> QED
  BY <1>2, <1>3, <1>4
  DEF Init, Inv, SequencesAreUnique, AttemptsAreFenced, ColumnsMatchStatus, ColumnsAgree,
      ExecutesInAdmissionOrder, JoinsFollowTheirHost, Executing, Attached, UnsettledStatus

LEMMA NextInv == Inv /\ [Next]_vars => Inv'
<1> SUFFICES ASSUME Inv, [Next]_vars PROVE Inv'
  OBVIOUS
<1> USE DEF vars
<1>1. CASE AdmissionStep
  BY <1>1, AdmitKeepsInv, MarkCanonicalReadyKeepsInv DEF AdmissionStep
<1>2. CASE AttemptStep
  BY <1>2, ClaimKeepsInv, MarkInputAppliedKeepsInv, ReplaceAttemptKeepsInv, RequeueKeepsInv,
     LeaseLapsesKeepsInv DEF AttemptStep
<1>3. CASE SettlementStep
  <2>1. \A e \in {"failed", "aborted"} : e \in Errors
    BY DEF Errors
  <2> QED BY <1>3, <2>1, ReserveSettlementKeepsInv, SettlementKeepsInv, SettleQueuedKeepsInv
          DEF SettlementStep
<1>4. CASE JoinStep
  BY <1>4, ClaimJoinableKeepsInv, FinalizeJoinedKeepsInv, RevertJoiningKeepsInv DEF JoinStep
<1>5. CASE \E o \in Owners : RenewLeases(o)
  BY <1>5, RenewLeasesKeepsInv
<1>6. CASE \E k \in Sessions : RequestSessionAbort(k)
  BY <1>6, RequestSessionAbortKeepsInv
<1>7. CASE Tick
  BY <1>7, TickKeepsInv
<1>8. CASE UNCHANGED vars
  BY <1>8
  DEF Inv, TypeOK, SequencesAreUnique, AttemptsAreFenced, ColumnsMatchStatus,
      ExecutesInAdmissionOrder, JoinsFollowTheirHost, Executing, Earlier, Unsettled,
      Attached, IsHead, SameSession
<1> QED BY <1>1, <1>2, <1>3, <1>4, <1>5, <1>6, <1>7, <1>8 DEF Next

LEMMA SpecInv == Spec => []Inv
BY InitInv, NextInv, PTL DEF Spec

\* Type correctness of the ledger.
THEOREM TypeCorrect == Spec => []TypeOK
BY SpecInv, PTL DEF Inv

\* A session executes one submission at a time, in admission order.
THEOREM AdmissionOrder == Spec => []ExecutesInAdmissionOrder
BY SpecInv, PTL DEF Inv

\* A joined delivery stays behind an earlier, unjoined head of its own session.
THEOREM JoinStructure == Spec => []JoinsFollowTheirHost
BY SpecInv, PTL DEF Inv

\* The columns of a row agree with its status.
THEOREM RowsConsistent == Spec => []ColumnsMatchStatus
BY SpecInv, PTL DEF Inv

-----------------------------------------------------------------------------
(* What a step never does *)

\* A terminal write and its fan-out touch only the row and what is attached to it.
LEMMA FanOutIsLocal ==
  ASSUME NEW s \in Submissions, NEW h \in Submissions, NEW error,
         SettleWithJoins(h, error), s # h, ~Attached(s, h)
  PROVE  rows'[s] = rows[s]
BY DEF SettleWithJoins, FanOut, Attached

\* Every step writes the rows it names and those its guard looked at.
LEMMA StepKeepsSettledRows ==
  ASSUME Inv, [Next]_vars, NEW s \in Submissions, rows[s].status = "settled"
  PROVE  rows'[s] = rows[s]
<1> USE DEF vars, Unsettled, UnsettledStatus
<1>1. CASE AdmissionStep
  BY <1>1 DEF AdmissionStep, Admit, MarkCanonicalReady, Write, Inv, TypeOK
<1>2. CASE AttemptStep
  BY <1>2 DEF AttemptStep, Claim, Runnable, MarkInputApplied, ReplaceAttempt, Requeue,
              LeaseLapses, Runs, Write, WriteWithNewAttempt, Inv, TypeOK
<1>3. CASE SettlementStep
  <2>1. PICK h \in Submissions :
          \/ \E a \in AttemptIds :
               \/ \E outcome \in Outcomes : ReserveSettlement(h, a, outcome)
               \/ FinalizeSettlement(h, a)
               \/ Complete(h, a)
               \/ \E error \in {"failed", "aborted"} : Fail(h, a, error)
          \/ \E error \in {"failed", "aborted"} : SettleQueued(h, error)
          \/ TerminateMalformed(h)
    BY <1>3 DEF SettlementStep
  <2>2. ~Attached(s, h)
    BY DEF Attached
  <2>3. CASE \E a \in AttemptIds, outcome \in Outcomes : ReserveSettlement(h, a, outcome)
    BY <2>3 DEF ReserveSettlement, Runs, Write, Inv, TypeOK
  <2>4. CASE \E error \in {"failed", "aborted"} : SettleQueued(h, error)
    BY <2>4 DEF SettleQueued, Write, Inv, TypeOK
  <2>5. CASE rows[h].status \in {"terminalizing", "running", "queued", "waiting"}
             /\ \E error : SettleWithJoins(h, error)
    BY SMTT(40), <2>2, <2>5, FanOutIsLocal
  <2> QED
    BY <2>1, <2>3, <2>4, <2>5 DEF FinalizeSettlement, Complete, Fail, TerminateMalformed, Runs
<1>4. CASE JoinStep
  BY <1>4 DEF JoinStep, ClaimJoinable, JoinablePrefix, FinalizeJoined, RevertJoining, Attached,
              Write, Inv, TypeOK
<1>5. CASE \E o \in Owners : RenewLeases(o)
  BY <1>5 DEF RenewLeases
<1>6. CASE \E k \in Sessions : RequestSessionAbort(k)
  BY <1>6 DEF RequestSessionAbort, Abortable
<1>7. CASE Tick \/ UNCHANGED vars
  BY <1>7 DEF Tick
<1> QED BY <1>1, <1>2, <1>3, <1>4, <1>5, <1>6, <1>7 DEF Next

\* First terminal state wins.
THEOREM FirstTerminalStateWins == Spec => SettledIsFinal
<1>1. Inv /\ [Next]_vars =>
        [\A s \in Submissions : rows[s].status = "settled" => rows'[s] = rows[s]]_vars
  BY StepKeepsSettledRows
<1> QED BY <1>1, SpecInv, PTL DEF Spec, SettledIsFinal

LEMMA StepKeepsObligations ==
  ASSUME Inv, [Next]_vars, NEW s \in Submissions, rows[s].status = "terminalizing"
  PROVE  \/ rows'[s].status = "settled" /\ rows'[s].error = ErrorOf(rows[s].settlement)
         \/ rows'[s] = [rows[s] EXCEPT !.lease = rows'[s].lease]
<1> DEFINE Same == rows'[s] = rows[s]
<1>0. Same => rows'[s] = [rows[s] EXCEPT !.lease = rows'[s].lease]
  BY RowFacts DEF Row
<1> HIDE DEF Same
<1> USE DEF vars, Unsettled, UnsettledStatus
<1>1. CASE AdmissionStep
  <2>1. Same
    BY <1>1 DEF AdmissionStep, Admit, MarkCanonicalReady, Write, Inv, TypeOK, Same
  <2> QED BY <1>0, <2>1
<1>2. CASE AttemptStep
  <2>1. PICK t \in Submissions :
          \/ \E o \in Owners : Claim(t, o)
          \/ \E a \in AttemptIds :
               \/ \E d \in Durabilities : MarkInputApplied(t, a, d)
               \/ \E o \in Owners : ReplaceAttempt(t, a, o)
               \/ Requeue(t, a)
          \/ LeaseLapses(t)
    BY <1>2 DEF AttemptStep
  <2>2. CASE LeaseLapses(t)
    BY <2>2, RowFacts DEF LeaseLapses, Write, Row
  <2>3. CASE ~LeaseLapses(t)
    <3>1. Same
      BY <2>1, <2>3 DEF Claim, Runnable, MarkInputApplied, ReplaceAttempt, Requeue,
         Runs, Write, WriteWithNewAttempt, Same, Inv, TypeOK
    <3> QED BY <1>0, <3>1
  <2> QED BY <2>2, <2>3
<1>3. CASE SettlementStep
  <2>1. PICK h \in Submissions :
          \/ \E a \in AttemptIds :
               \/ \E outcome \in Outcomes : ReserveSettlement(h, a, outcome)
               \/ FinalizeSettlement(h, a)
               \/ Complete(h, a)
               \/ \E error \in {"failed", "aborted"} : Fail(h, a, error)
          \/ \E error \in {"failed", "aborted"} : SettleQueued(h, error)
          \/ TerminateMalformed(h)
    BY <1>3 DEF SettlementStep
  <2>2. ~Attached(s, h) /\ rows[s] \in Row /\ rows[s].settlement # None
    BY RowFacts DEF Attached, ColumnsAgree
  <2>3. CASE \E a \in AttemptIds, outcome \in Outcomes : ReserveSettlement(h, a, outcome)
    <3>1. Same
      BY <2>2, <2>3 DEF ReserveSettlement, Write, Same
    <3> QED BY <1>0, <3>1
  <2>4. CASE \E error \in {"failed", "aborted"} : SettleQueued(h, error)
    <3>1. Same
      BY <2>4 DEF SettleQueued, Write, Same
    <3> QED BY <1>0, <3>1
  <2>5. CASE \E a \in AttemptIds : FinalizeSettlement(h, a)
    <3>1. CASE s = h
      BY ZenonT(60), <2>2, <2>5, <3>1 DEF FinalizeSettlement, SettleWithJoins, FanOut, Settled, Row
    <3>2. CASE s # h
      <4>1. Same
        BY <2>2, <2>5, <3>2, FanOutIsLocal DEF FinalizeSettlement, Same
      <4> QED BY <1>0, <4>1
    <3> QED BY SMTT(40), <3>1, <3>2
  <2>6. CASE rows[h].status \in {"running", "queued", "waiting"}
             /\ \E error : SettleWithJoins(h, error)
    <3>1. Same
      BY <2>2, <2>6, FanOutIsLocal DEF Same
    <3> QED BY <1>0, <3>1
  <2> QED BY <2>1, <2>3, <2>4, <2>5, <2>6 DEF Complete, Fail, TerminateMalformed, Runs
<1>4. CASE JoinStep
  <2>1. Same
    BY <1>4 DEF JoinStep, ClaimJoinable, JoinablePrefix, FinalizeJoined, RevertJoining, Attached,
                Write, Inv, TypeOK, Same
  <2> QED BY <1>0, <2>1
<1>5. CASE \E o \in Owners : RenewLeases(o)
  <2>1. Same
    BY <1>5 DEF RenewLeases, Same
  <2> QED BY <1>0, <2>1
<1>6. CASE \E k \in Sessions : RequestSessionAbort(k)
  <2>1. Same
    BY <1>6 DEF RequestSessionAbort, Abortable, Same
  <2> QED BY <1>0, <2>1
<1>7. CASE Tick \/ UNCHANGED vars
  <2>1. Same
    BY <1>7 DEF Tick, Same
  <2> QED BY <1>0, <2>1
<1> QED BY <1>1, <1>2, <1>3, <1>4, <1>5, <1>6, <1>7 DEF Next

\* A reserved settlement is kept until it settles as its record says.
THEOREM ObligationsAreKept == Spec => ObligationIsKept
<1>1. Inv /\ [Next]_vars =>
        [\A s \in Submissions :
           rows[s].status = "terminalizing" =>
             \/ rows'[s].status = "settled" /\ rows'[s].error = ErrorOf(rows[s].settlement)
             \/ rows'[s] = [rows[s] EXCEPT !.lease = rows'[s].lease]]_vars
  BY StepKeepsObligations
<1> QED BY <1>1, SpecInv, PTL DEF Spec, ObligationIsKept

\* Only a terminal write of h itself settles a host that holds its session.
LEMMA HostSettlesByItself ==
  ASSUME Inv, [Next]_vars, NEW h \in Submissions, Executing(h), rows'[h].status = "settled"
  PROVE  \E error : SettleWithJoins(h, error)
<1>0. rows[h] \in Row /\ ColumnsAgree(rows[h])
  BY RowFacts
<1>1. rows[h].status \in {"running", "waiting", "terminalizing"} /\ rows[h].joinedInto = None
  BY <1>0 DEF Executing, ColumnsAgree
<1>2. rows'[h] # rows[h]
  BY <1>1
<1> USE DEF vars
<1>3. CASE AdmissionStep
  BY <1>1, <1>2, <1>3 DEF AdmissionStep, Admit, MarkCanonicalReady, Write, Inv, TypeOK
<1>4. CASE AttemptStep
  <2>1. PICK t \in Submissions :
          \/ \E o \in Owners : Claim(t, o)
          \/ \E a \in AttemptIds :
               \/ \E d \in Durabilities : MarkInputApplied(t, a, d)
               \/ \E o \in Owners : ReplaceAttempt(t, a, o)
               \/ Requeue(t, a)
          \/ LeaseLapses(t)
    BY <1>4 DEF AttemptStep
  <2>2. t = h
    BY <1>2, <2>1 DEF Claim, MarkInputApplied, ReplaceAttempt, Requeue, LeaseLapses, Write,
                      WriteWithNewAttempt, Inv, TypeOK
  <2>3. ~\E o \in Owners : Claim(t, o)
    BY <1>1, <2>2 DEF Claim, Runnable
  <2>4. CASE \E a \in AttemptIds, d \in Durabilities : MarkInputApplied(h, a, d)
    BY <1>0, <1>1, <2>4 DEF MarkInputApplied, Stamped, Write, Row, Inv, TypeOK
  <2>5. CASE \E a \in AttemptIds, o \in Owners : ReplaceAttempt(h, a, o)
    BY <1>0, <1>1, <2>5 DEF ReplaceAttempt, Replaced, WriteWithNewAttempt, Row, Inv, TypeOK
  <2>6. CASE \E a \in AttemptIds : Requeue(h, a)
    BY <1>0, <1>1, <2>6 DEF Requeue, Requeued, Write, Row, Inv, TypeOK
  <2>7. CASE LeaseLapses(h)
    BY <1>0, <1>1, <2>7 DEF LeaseLapses, Write, Row, Inv, TypeOK
  <2> QED BY <2>1, <2>2, <2>3, <2>4, <2>5, <2>6, <2>7
<1>5. CASE SettlementStep
  <2>1. PICK g \in Submissions :
          \/ \E a \in AttemptIds :
               \/ \E outcome \in Outcomes : ReserveSettlement(g, a, outcome)
               \/ FinalizeSettlement(g, a)
               \/ Complete(g, a)
               \/ \E error \in {"failed", "aborted"} : Fail(g, a, error)
          \/ \E error \in {"failed", "aborted"} : SettleQueued(g, error)
          \/ TerminateMalformed(g)
    BY <1>5 DEF SettlementStep
  <2>2. CASE \E a \in AttemptIds, outcome \in Outcomes : ReserveSettlement(g, a, outcome)
    BY <1>0, <1>1, <1>2, <2>2 DEF ReserveSettlement, Reserved, Write, Row, Inv, TypeOK
  <2>3. CASE \E error \in {"failed", "aborted"} : SettleQueued(g, error)
    BY <1>1, <1>2, <2>3 DEF SettleQueued, Write, Inv, TypeOK
  <2>4. CASE \E error : SettleWithJoins(g, error)
    <3>1. ~Attached(h, g)
      BY <1>1 DEF Attached
    <3>2. g = h
      BY <1>2, <2>4, <3>1, FanOutIsLocal
    <3> QED BY <2>4, <3>2
  <2> QED
    BY <2>1, <2>2, <2>3, <2>4 DEF FinalizeSettlement, Complete, Fail, TerminateMalformed
<1>6. CASE JoinStep
  BY <1>1, <1>2, <1>6 DEF JoinStep, ClaimJoinable, JoinablePrefix, FinalizeJoined, RevertJoining,
     Attached, Write, Inv, TypeOK
<1>7. CASE \E o \in Owners : RenewLeases(o)
  BY <1>0, <1>1, <1>7 DEF RenewLeases, Row
<1>8. CASE \E k \in Sessions : RequestSessionAbort(k)
  <2>1. rows'[h] = AbortedRow(rows[h])
    BY <1>2, <1>8 DEF RequestSessionAbort
  <2>2. AbortedRow(rows[h]).status \in {rows[h].status, "queued"}
    BY <1>0 DEF AbortedRow, Row
  <2> QED BY <1>1, <2>1, <2>2
<1>9. CASE Tick \/ UNCHANGED vars
  BY <1>2, <1>9 DEF Tick
<1> QED BY <1>3, <1>4, <1>5, <1>6, <1>7, <1>8, <1>9 DEF Next

LEMMA StepReleasesJoins ==
  ASSUME Inv, [Next]_vars, NEW s \in Submissions, NEW h \in Submissions,
         Attached(s, h), Executing(h), rows'[h].status = "settled"
  PROVE  \/ /\ rows[s].status = "joined"
            /\ rows'[s].status = "settled"
            /\ rows'[s].error = rows'[h].error
         \/ /\ rows[s].status = "joining"
            /\ rows'[s].status = "queued"
            /\ rows'[s].joinedInto = None
<1>1. PICK error : SettleWithJoins(h, error)
  BY HostSettlesByItself
<1>2. s # h
  BY DEF Attached, Executing
<1>3. rows[s] \in Row /\ rows[h] \in Row
  BY RowFacts
<1>4. rows'[h] = Settled(rows[h], error) /\ rows'[h].error = error
  BY <1>1, <1>3 DEF SettleWithJoins, FanOut, Settled, Row
<1>5. CASE rows[s].status = "joined"
  BY <1>1, <1>2, <1>3, <1>4, <1>5 DEF SettleWithJoins, FanOut, Settled, Attached, Row
<1>6. CASE rows[s].status = "joining"
  BY <1>1, <1>2, <1>3, <1>6 DEF SettleWithJoins, FanOut, Released, Attached, Row
<1> QED BY <1>5, <1>6 DEF Attached

\* A settling host takes every joined delivery with it and gives back the rest.
THEOREM HostsReleaseTheirJoins == Spec => HostSettlementReleasesJoins
<1>1. Inv /\ [Next]_vars =>
        [\A s, h \in Submissions :
           Attached(s, h) /\ Executing(h) /\ rows'[h].status = "settled" =>
             \/ /\ rows[s].status = "joined"
                /\ rows'[s].status = "settled"
                /\ rows'[s].error = rows'[h].error
             \/ /\ rows[s].status = "joining"
                /\ rows'[s].status = "queued"
                /\ rows'[s].joinedInto = None]_vars
  BY StepReleasesJoins
<1> QED BY <1>1, SpecInv, PTL DEF Spec, HostSettlementReleasesJoins

=============================================================================
