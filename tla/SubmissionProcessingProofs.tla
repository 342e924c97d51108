---------------------- MODULE SubmissionProcessingProofs ----------------------
(***************************************************************************)
(* Proofs about SubmissionProcessing, for every set of submissions,        *)
(* sessions and activities: ledger and stream tell one outcome, the        *)
(* records of a submission are written under attempts that never go back,  *)
(* inputs land in the order of admission, behind an answer a response goes *)
(* on only when more input or a continuation landed in between, and no     *)
(* submission is started more often than its limits allow.                 *)
(***************************************************************************)
EXTENDS SubmissionProcessing, LedgerRefinementProofs

-----------------------------------------------------------------------------
(* What the ledger does to a row *)

\* The outcome of the row is decided.
Sealed(r) == r.status \in {"terminalizing", "settled"}

\* The row s becomes q in a step that finalizes t, or none: a decided outcome
\* stays, nothing else settles with a record, whoever starts to run does so
\* under a new attempt, and a reservation is made by the attempt that runs.
Moves(s, q, t) ==
  /\ Sealed(rows[s]) =>
       Sealed(q) /\ q.attempt = rows[s].attempt /\ q.settlement = rows[s].settlement
  /\ q.status = "settled" /\ rows[s].status # "settled" => s = t \/ q.settlement = None
  /\ q.status = "running" => Runs(s, q.attempt) \/ q.attempt = lastAttempt + 1
  /\ q.status = "terminalizing" =>
       \/ rows[s].status = "terminalizing"
       \/ \E h \in Submissions : SameSession(s, h) /\ Runs(h, q.attempt)

RowsMove(t) == \A s \in Submissions : Moves(s, rows'[s], t)

LEMMA SameRowMoves ==
  ASSUME Inv, NEW s \in Submissions, NEW t
  PROVE  Moves(s, rows[s], t)
BY DEF Moves, Runs, Sealed

LEMMA WriteMoves ==
  ASSUME Inv, NEW s \in Submissions, NEW q, Moves(s, q, None),
         rows' = [rows EXCEPT ![s] = q]
  PROVE  RowsMove(None)
<1>1. \A t \in Submissions : rows'[t] = IF t = s THEN q ELSE rows[t]
  BY DEF Inv, TypeOK
<1> QED BY <1>1, SameRowMoves DEF RowsMove

LEMMA NothingMoves ==
  ASSUME Inv, rows' = rows
  PROVE  RowsMove(None)
BY SameRowMoves DEF RowsMove

\* An attempt that holds a row was generated.
LEMMA AttemptIsKnown ==
  ASSUME Inv, NEW s \in Submissions, NEW a,
         Runs(s, a) \/ (rows[s].status = "terminalizing" /\ rows[s].attempt = a)
  PROVE  a \in AttemptIds
BY RowFacts DEF Runs, AttemptIds, ColumnsAgree, NoAttempt, Row

\* A session runs one submission.
LEMMA OneRuns ==
  ASSUME Inv, NEW s \in Submissions, NEW h \in Submissions, SameSession(s, h),
         rows[s].status = "running", rows[h].status = "running"
  PROVE  s = h
<1>1. rows[s].sequence \in Nat /\ rows[h].sequence \in Nat
  BY RowFacts DEF Row
<1>2. SameSession(h, s)
  BY DEF SameSession
<1>3. Executing(s) /\ Executing(h) /\ Unsettled(s) /\ Unsettled(h)
  BY DEF Executing, Unsettled, UnsettledStatus
<1>4. ~Earlier(s, h) /\ ~Earlier(h, s)
  BY <1>3 DEF Inv, ExecutesInAdmissionOrder
<1>5. rows[s].sequence = rows[h].sequence
  BY <1>1, <1>2, <1>4 DEF Earlier
<1> QED BY <1>5 DEF Inv, SequencesAreUnique

\* A step of the ledger that processing takes.
LedgerStep(t) ==
  /\ [Next]_vars
  /\ RowsMove(t)
  /\ lastAttempt' \in {lastAttempt, lastAttempt + 1}

LEMMA NoLedgerStep ==
  ASSUME Inv, LedgerUnchanged
  PROVE  LedgerStep(None)
BY NothingMoves, RowFacts DEF LedgerUnchanged, LedgerStep, vars

LEMMA AdmissionMoves ==
  ASSUME Inv, NEW s \in Submissions, Admit(s) \/ MarkCanonicalReady(s)
  PROVE  LedgerStep(None)
<1>1. rows[s] \in Row
  BY RowFacts
<1>2. [Next]_vars
  BY DEF Next, AdmissionStep
<1>3. CASE Admit(s)
  <2> DEFINE q == [AbsentRow EXCEPT !.status = "queued", !.sequence = lastSequence + 1]
  <2>1. q.status = "queued"
    BY DEF AbsentRow
  <2> HIDE DEF q
  <2>2. Moves(s, q, None)
    BY <1>3, <2>1 DEF Moves, Sealed, Admit
  <2>3. rows' = [rows EXCEPT ![s] = q] /\ lastAttempt' = lastAttempt
    BY <1>3 DEF Admit, q
  <2> QED BY <1>2, <2>2, <2>3, WriteMoves DEF LedgerStep
<1>4. CASE MarkCanonicalReady(s)
  <2> DEFINE q == [rows[s] EXCEPT !.ready = TRUE]
  <2>1. Moves(s, q, None)
    BY <1>1, <1>4 DEF Moves, Sealed, MarkCanonicalReady, Row
  <2> HIDE DEF q
  <2>2. rows' = [rows EXCEPT ![s] = q] /\ lastAttempt' = lastAttempt
    BY <1>4 DEF MarkCanonicalReady, Write, q
  <2> QED BY <1>2, <2>1, <2>2, WriteMoves DEF LedgerStep
<1> QED BY <1>3, <1>4

LEMMA NewAttemptMoves ==
  ASSUME Inv, NEW s \in Submissions, NEW o \in Owners,
         Claim(s, o) \/ \E a : ReplaceAttempt(s, a, o)
  PROVE  LedgerStep(None) /\ lastAttempt' = lastAttempt + 1
<1>1. rows[s] \in Row
  BY RowFacts
<1>2. CASE Claim(s, o)
  <2> DEFINE q == Claimed(rows[s], lastAttempt + 1, o)
  <2>1. Moves(s, q, None)
    BY <1>1, <1>2 DEF Claimed, Row, Moves, Sealed, Claim, Runnable
  <2> HIDE DEF q
  <2>2. rows' = [rows EXCEPT ![s] = q] /\ lastAttempt' = lastAttempt + 1
    BY <1>2 DEF Claim, WriteWithNewAttempt, q
  <2>3. [Next]_vars
    BY <1>2 DEF Next, AttemptStep
  <2> QED BY <2>1, <2>2, <2>3, WriteMoves DEF LedgerStep
<1>3. ASSUME NEW a, ReplaceAttempt(s, a, o)
      PROVE  LedgerStep(None) /\ lastAttempt' = lastAttempt + 1
  <2> DEFINE q == Replaced(rows[s], lastAttempt + 1, o)
  <2>1. Moves(s, q, None)
    BY <1>1, <1>3 DEF Replaced, Row, Moves, Sealed, ReplaceAttempt, Runs
  <2> HIDE DEF q
  <2>2. rows' = [rows EXCEPT ![s] = q] /\ lastAttempt' = lastAttempt + 1
    BY <1>3 DEF ReplaceAttempt, WriteWithNewAttempt, q
  <2>3. a \in AttemptIds
    BY <1>3, AttemptIsKnown DEF ReplaceAttempt
  <2>4. [Next]_vars
    BY <1>3, <2>3 DEF Next, AttemptStep
  <2> QED BY <2>1, <2>2, <2>4, WriteMoves DEF LedgerStep
<1> QED BY <1>2, <1>3

LEMMA AttemptMoves ==
  ASSUME Inv, NEW s \in Submissions, NEW a,
         Requeue(s, a) \/ \E d \in Durabilities : MarkInputApplied(s, a, d)
  PROVE  LedgerStep(None)
<1>1. rows[s] \in Row
  BY RowFacts
<1>2. a \in AttemptIds
  BY AttemptIsKnown DEF Requeue, MarkInputApplied
<1>3. [Next]_vars
  BY <1>2 DEF Next, AttemptStep
<1>4. CASE Requeue(s, a)
  <2> DEFINE q == Requeued(rows[s])
  <2>1. Moves(s, q, None)
    BY <1>1, <1>4 DEF Requeued, Row, Moves, Sealed, Requeue, Runs
  <2> HIDE DEF q
  <2>2. rows' = [rows EXCEPT ![s] = q] /\ lastAttempt' = lastAttempt
    BY <1>4 DEF Requeue, Write, q
  <2> QED BY <1>3, <2>1, <2>2, WriteMoves DEF LedgerStep
<1>5. ASSUME NEW d \in Durabilities, MarkInputApplied(s, a, d) PROVE LedgerStep(None)
  <2> DEFINE q == Stamped(rows[s], d)
  <2>1. Moves(s, q, None)
    BY <1>1, <1>5 DEF Stamped, Row, Moves, Sealed, MarkInputApplied, Runs
  <2> HIDE DEF q
  <2>2. rows' = [rows EXCEPT ![s] = q] /\ lastAttempt' = lastAttempt
    BY <1>5 DEF MarkInputApplied, Write, q
  <2> QED BY <1>3, <2>1, <2>2, WriteMoves DEF LedgerStep
<1> QED BY <1>4, <1>5

LEMMA JoinMoves ==
  ASSUME Inv, NEW h \in Submissions, NEW a,
         \/ ClaimJoinable(h, a)
         \/ \E s \in Submissions : FinalizeJoined(h, a, s) \/ RevertJoining(h, a, s)
  PROVE  LedgerStep(None)
<1>1. a \in AttemptIds
  BY AttemptIsKnown DEF ClaimJoinable, FinalizeJoined, RevertJoining
<1>2. [Next]_vars
  BY <1>1 DEF Next, JoinStep
<1>3. CASE ClaimJoinable(h, a)
  <2>1. ASSUME NEW s \in Submissions PROVE Moves(s, rows'[s], None)
    <3>1. rows[s] \in Row
      BY RowFacts
    <3>2. CASE s \in JoinablePrefix(h)
      <4>1. rows'[s] = Joining(rows[s], h) /\ rows[s].status = "queued"
        BY <1>3, <3>2 DEF ClaimJoinable, JoinablePrefix
      <4>2. rows'[s].status = "joining"
        BY <3>1, <4>1 DEF Joining, Row
      <4> QED BY <4>1, <4>2 DEF Moves, Sealed
    <3>3. CASE s \notin JoinablePrefix(h)
      BY <1>3, <3>3, SameRowMoves DEF ClaimJoinable
    <3> QED BY <3>2, <3>3
  <2> QED BY <1>2, <1>3, <2>1 DEF LedgerStep, RowsMove, ClaimJoinable
<1>4. ASSUME NEW s \in Submissions, FinalizeJoined(h, a, s) PROVE LedgerStep(None)
  <2> DEFINE q == [rows[s] EXCEPT !.status = "joined", !.inputApplied = TRUE]
  <2>1. rows[s] \in Row
    BY RowFacts
  <2>2. Moves(s, q, None)
    BY <1>4, <2>1 DEF Row, Moves, Sealed, FinalizeJoined
  <2> HIDE DEF q
  <2>3. rows' = [rows EXCEPT ![s] = q] /\ lastAttempt' = lastAttempt
    BY <1>4 DEF FinalizeJoined, Write, q
  <2> QED BY <1>2, <2>2, <2>3, WriteMoves DEF LedgerStep
<1>5. ASSUME NEW s \in Submissions, RevertJoining(h, a, s) PROVE LedgerStep(None)
  <2> DEFINE q == Released(rows[s])
  <2>1. rows[s] \in Row
    BY RowFacts
  <2>2. Moves(s, q, None)
    BY <1>5, <2>1 DEF Row, Moves, Sealed, RevertJoining, Released
  <2> HIDE DEF q
  <2>3. rows' = [rows EXCEPT ![s] = q] /\ lastAttempt' = lastAttempt
    BY <1>5 DEF RevertJoining, Write, q
  <2> QED BY <1>2, <2>2, <2>3, WriteMoves DEF LedgerStep
<1> QED BY <1>3, <1>4, <1>5

LEMMA ReservationMoves ==
  ASSUME Inv, NEW s \in Submissions, NEW a, NEW outcome \in Outcomes,
         ReserveSettlement(s, a, outcome)
  PROVE  /\ LedgerStep(None)
         /\ rows'[s].status = "terminalizing" /\ rows'[s].attempt = a
         /\ rows'[s].settlement = outcome
<1> DEFINE q == Reserved(rows[s], a, outcome)
<1>1. rows[s] \in Row
  BY RowFacts
<1>2. PICK h \in Submissions : SameSession(s, h) /\ Runs(h, a)
  <2>1. CASE Runs(s, a)
    BY <2>1 DEF SameSession
  <2>2. ASSUME NEW h \in Submissions, rows[s].joinedInto = h, Runs(h, a), rows[s].status = "joined"
        PROVE  SameSession(s, h)
    BY <2>2 DEF Inv, JoinsFollowTheirHost, Attached, Earlier, SameSession
  <2> QED BY <2>1, <2>2 DEF ReserveSettlement, HostRuns
<1>3. a \in AttemptIds
  BY <1>2, AttemptIsKnown
<1>4. [Next]_vars
  BY <1>3 DEF Next, SettlementStep
<1>5. q.status = "terminalizing" /\ q.attempt = a /\ q.settlement = outcome
  BY <1>1 DEF Reserved, Row
<1>6. ~Sealed(rows[s])
  BY DEF ReserveSettlement, Runs, Sealed
<1> HIDE DEF q
<1>7. Moves(s, q, None)
  BY <1>2, <1>5, <1>6 DEF Moves
<1>8. rows' = [rows EXCEPT ![s] = q] /\ lastAttempt' = lastAttempt
  BY DEF ReserveSettlement, Write, q
<1>9. rows'[s] = q
  BY <1>8 DEF Inv, TypeOK
<1> QED BY <1>4, <1>5, <1>7, <1>8, <1>9, WriteMoves DEF LedgerStep

\* A delivery that settles with its host has no record of its own.
LEMMA FinalizationMoves ==
  ASSUME Inv, NEW t \in Submissions, NEW a, FinalizeSettlement(t, a)
  PROVE  LedgerStep(t)
<1>1. a \in AttemptIds
  BY AttemptIsKnown DEF FinalizeSettlement
<1>2. [Next]_vars
  BY <1>1 DEF Next, SettlementStep
<1>3. PICK error : SettleWithJoins(t, error)
  BY DEF FinalizeSettlement
<1>4. ASSUME NEW s \in Submissions PROVE Moves(s, rows'[s], t)
  <2>1. rows[s] \in Row /\ rows'[s] = FanOut(s, t, error)
    BY <1>3, RowFacts DEF SettleWithJoins
  <2>2. CASE s = t
    BY <2>1, <2>2 DEF FinalizeSettlement, FanOut, Settled, Row, Moves, Sealed
  <2>3. CASE s # t /\ rows[s].joinedInto = t /\ rows[s].status = "joined"
    <3>1. rows[s].settlement = None
      BY <2>3, RowFacts DEF ColumnsAgree, UnsettledStatus
    <3> QED BY <2>1, <2>3, <3>1 DEF FanOut, Settled, Row, Moves, Sealed
  <2>4. CASE s # t /\ rows[s].joinedInto = t /\ rows[s].status = "joining"
    BY <2>1, <2>4 DEF FanOut, Released, Row, Moves, Sealed
  <2>5. CASE s # t /\ ~Attached(s, t)
    BY <2>1, <2>5, SameRowMoves DEF FanOut, Attached
  <2> QED BY <2>2, <2>3, <2>4, <2>5 DEF Attached
<1>5. lastAttempt' = lastAttempt
  BY <1>3 DEF SettleWithJoins
<1> QED BY <1>2, <1>4, <1>5 DEF LedgerStep, RowsMove

LEMMA OutsideMoves ==
  ASSUME Inv, Tick \/ \E k \in Sessions : RequestSessionAbort(k)
  PROVE  LedgerStep(None)
<1>1. CASE Tick
  BY <1>1, NothingMoves DEF LedgerStep, Next, Tick
<1>2. ASSUME NEW k \in Sessions, RequestSessionAbort(k) PROVE LedgerStep(None)
  <2>1. ASSUME NEW s \in Submissions PROVE Moves(s, rows'[s], None)
    <3>1. rows[s] \in Row
      BY RowFacts
    <3>2. rows[s].status \in Abortable => Moves(s, AbortedRow(rows[s]), None)
      BY <3>1 DEF Abortable, UnsettledStatus, AbortedRow, Row, Moves, Sealed, Runs
    <3> QED BY <1>2, <3>2, SameRowMoves DEF RequestSessionAbort
  <2> QED BY <1>2, <2>1 DEF LedgerStep, RowsMove, Next, RequestSessionAbort
<1> QED BY <1>1, <1>2

-----------------------------------------------------------------------------
(* The invariant *)

\* An activity has what its next step works on.
ExecutorOK(e) ==
  /\ e \in Executor
  /\ e.pc # "idle" => e.sub \in Submissions
  /\ e.pc \in {"join", "confirm"} => e.next \in {"turn", "drive"}
  /\ e.pc \in {"listJoined", "lookup", "reserve"} => e.outcome \in Outcomes
  /\ e.pc \in SettlePcs \ {"listJoined"} =>
       e.target \in Submissions /\ (e.target = e.sub \/ e.outcome \in Outcomes)

\* The settlement that the row has decided.
Decided(s) == SettledRecord(s, rows[s].attempt, rows[s].settlement)

\* The record an activity is about to write or has written is the one its
\* target's row has decided.
Owing == {"check", "append", "finalize"}
ExecutorOwes(e) ==
  e.pc \in Owing =>
    /\ Sealed(rows[e.target]) /\ e.record = Decided(e.target)
    /\ e.pc = "finalize" => RecordedSettlement(e.target)

ExecutorsOK ==
  /\ executors = [x \in Executors |-> executors[x]]
  /\ \A x \in Executors : ExecutorOK(executors[x]) /\ ExecutorOwes(executors[x])

\* No record is of an attempt that comes after the one that runs in its
\* session, or that settles its submission.
RecordsLieBehind ==
  /\ \A i \in Positions :
       LET s == stream[i].submission IN
       /\ stream[i].attempt <= lastAttempt
       /\ rows[s].status = "terminalizing" => stream[i].attempt <= rows[s].attempt
       /\ \A h \in Submissions :
            SameSession(s, h) /\ rows[h].status = "running" => stream[i].attempt <= rows[h].attempt
  /\ \A s, h \in Submissions :
       SameSession(s, h) /\ rows[s].status = "terminalizing" /\ rows[h].status = "running"
       => rows[s].attempt <= rows[h].attempt

PInv ==
  /\ Inv
  /\ stream \in Seq(Record)
  /\ crashes \in 0 .. MaxCrashes
  /\ ExecutorsOK
  /\ OutcomesAgree
  /\ RecordsLieBehind
  /\ AttemptsNeverReturn

LEMMA StreamFacts ==
  ASSUME stream \in Seq(Record), NEW i \in Positions
  PROVE  /\ stream[i] \in Record /\ stream[i].submission \in Submissions
         /\ stream[i].attempt \in Nat /\ i \in Nat /\ i <= Len(stream)
<1>1. stream[i] \in Record /\ i \in Nat /\ i <= Len(stream)
  BY DEF Positions
<1> QED BY <1>1 DEF Record

\* A record that the row of s, running or settling, entitles to land.
Entitled(r) ==
  /\ r \in Record
  /\ \E s \in Submissions :
       /\ rows[s].attempt = r.attempt
       /\ \/ /\ rows[s].status = "running" /\ r.type # "settled"
             /\ r.submission = s \/ Attached(r.submission, s)
          \/ rows[s].status = "terminalizing" /\ r = Decided(s)

\* What a step of processing does to the state besides the executors.
StreamStep == stream' = stream \/ (LedgerUnchanged /\ \E r : Entitled(r) /\ stream' = Append(stream, r))

LEMMA StreamGrows ==
  ASSUME stream \in Seq(Record), StreamStep
  PROVE  /\ stream' \in Seq(Record)
         /\ \A i \in Positions : i \in Positions' /\ stream'[i] = stream[i]
         /\ \A s : RecordedSettlement(s) => RecordedSettlement(s)'
<1>1. ASSUME NEW r, r \in Record, stream' = Append(stream, r)
      PROVE  /\ stream' \in Seq(Record)
             /\ \A i \in Positions : i \in Positions' /\ stream'[i] = stream[i]
  BY <1>1 DEF Positions
<1>2. /\ stream' \in Seq(Record)
      /\ \A i \in Positions : i \in Positions' /\ stream'[i] = stream[i]
  BY <1>1 DEF StreamStep, Entitled, Positions
<1> QED BY <1>2 DEF RecordedSettlement

\* What is true of a row stays true of the records.
LEMMA LedgerStepKeepsRecords ==
  ASSUME PInv, NEW t, LedgerStep(t), Inv', stream' = stream,
         t \in Submissions => RecordedSettlement(t)
  PROVE  OutcomesAgree' /\ RecordsLieBehind' /\ AttemptsNeverReturn'
<1>1. AttemptsNeverReturn'
  BY DEF PInv, AttemptsNeverReturn, Positions
<1>2. ASSUME NEW s \in Submissions
      PROVE  /\ Moves(s, rows'[s], t)
             /\ rows[s] \in Row /\ rows'[s] \in Row
             /\ rows[s].attempt \in Nat /\ rows'[s].attempt \in Nat
             /\ rows[s].attempt <= lastAttempt /\ lastAttempt \in Nat
  BY RowFacts DEF LedgerStep, RowsMove, PInv, Inv, TypeOK, Row
<1>3. OutcomesAgree'
  <2>1. ASSUME NEW i \in Positions, stream[i].type = "settled"
        PROVE  /\ rows'[stream[i].submission].status \in {"terminalizing", "settled"}
               /\ stream[i] = SettledRecord(stream[i].submission,
                                            rows'[stream[i].submission].attempt,
                                            rows'[stream[i].submission].settlement)
    <3> DEFINE s == stream[i].submission
    <3>1. s \in Submissions
      BY StreamFacts DEF PInv
    <3>2. Sealed(rows[s]) /\ stream[i] = SettledRecord(s, rows[s].attempt, rows[s].settlement)
      BY <2>1 DEF PInv, OutcomesAgree, Sealed
    <3> HIDE DEF s
    <3>3. /\ Sealed(rows'[s])
          /\ rows'[s].attempt = rows[s].attempt /\ rows'[s].settlement = rows[s].settlement
      BY <1>2, <3>1, <3>2 DEF Moves
    <3> QED BY <3>2, <3>3 DEF Sealed, s
  <2>2. ASSUME NEW s \in Submissions, rows'[s].status = "settled", rows'[s].settlement # None
        PROVE  RecordedSettlement(s)
    <3>1. CASE rows[s].status = "settled"
      BY <1>2, <2>2, <3>1 DEF Moves, Sealed, PInv, OutcomesAgree
    <3>2. CASE rows[s].status # "settled"
      BY <1>2, <2>2, <3>2 DEF Moves
    <3> QED BY <3>1, <3>2
  <2> QED BY <2>1, <2>2 DEF OutcomesAgree, Positions, RecordedSettlement
<1>4. ASSUME NEW i \in Positions, NEW s, s = stream[i].submission
      PROVE  /\ s \in Submissions /\ stream[i].attempt \in Nat
             /\ stream[i].attempt <= lastAttempt
             /\ rows[s].status = "terminalizing" => stream[i].attempt <= rows[s].attempt
             /\ \A h \in Submissions :
                  SameSession(s, h) /\ rows[h].status = "running"
                  => stream[i].attempt <= rows[h].attempt
  BY <1>4, StreamFacts DEF PInv, RecordsLieBehind
<1>5. ASSUME NEW i \in Positions, NEW s, s = stream[i].submission
      PROVE  /\ stream[i].attempt <= lastAttempt'
             /\ rows'[s].status = "terminalizing" => stream[i].attempt <= rows'[s].attempt
             /\ \A h \in Submissions :
                  SameSession(s, h) /\ rows'[h].status = "running"
                  => stream[i].attempt <= rows'[h].attempt
  <2>1. stream[i].attempt <= lastAttempt'
    BY <1>2, <1>4, <1>5 DEF LedgerStep
  <2>2. ASSUME rows'[s].status = "terminalizing" PROVE stream[i].attempt <= rows'[s].attempt
    <3>1. s \in Submissions
      BY <1>4, <1>5
    <3>2. CASE rows[s].status = "terminalizing"
      BY <1>2, <1>4, <1>5, <3>1, <3>2 DEF Moves, Sealed
    <3>3. CASE rows[s].status # "terminalizing"
      <4>1. PICK h \in Submissions : SameSession(s, h) /\ Runs(h, rows'[s].attempt)
        BY <1>2, <2>2, <3>1, <3>3 DEF Moves
      <4> QED BY <1>4, <1>5, <4>1 DEF Runs
    <3> QED BY <3>2, <3>3
  <2>3. ASSUME NEW h \in Submissions, SameSession(s, h), rows'[h].status = "running"
        PROVE  stream[i].attempt <= rows'[h].attempt
    <3>1. Runs(h, rows'[h].attempt) \/ rows'[h].attempt = lastAttempt + 1
      BY <1>2, <2>3 DEF Moves
    <3>2. CASE Runs(h, rows'[h].attempt)
      BY <1>4, <1>5, <2>3, <3>2 DEF Runs
    <3>3. CASE rows'[h].attempt = lastAttempt + 1
      BY <1>2, <1>4, <1>5, <3>3
    <3> QED BY <3>1, <3>2, <3>3
  <2> QED BY <2>1, <2>2, <2>3
<1>6. ASSUME NEW s \in Submissions, NEW h \in Submissions, SameSession(s, h),
             rows'[s].status = "terminalizing", rows'[h].status = "running"
      PROVE  rows'[s].attempt <= rows'[h].attempt
  <2>1. Runs(h, rows'[h].attempt) \/ rows'[h].attempt = lastAttempt + 1
    BY <1>2, <1>6 DEF Moves
  <2>2. CASE rows[s].status = "terminalizing"
    <3>1. rows'[s].attempt = rows[s].attempt
      BY <1>2, <2>2 DEF Moves, Sealed
    <3>2. CASE Runs(h, rows'[h].attempt)
      BY <1>6, <2>2, <3>1, <3>2 DEF Runs, PInv, RecordsLieBehind
    <3>3. CASE rows'[h].attempt = lastAttempt + 1
      BY <1>2, <3>1, <3>3
    <3> QED BY <2>1, <3>2, <3>3
  <2>3. CASE rows[s].status # "terminalizing"
    <3>1. PICK g \in Submissions : SameSession(s, g) /\ Runs(g, rows'[s].attempt)
      BY <1>2, <1>6, <2>3 DEF Moves
    <3>2. CASE Runs(h, rows'[h].attempt)
      <4>1. SameSession(g, h)
        BY <1>6, <3>1 DEF SameSession
      <4>2. g = h
        BY <3>1, <3>2, <4>1, OneRuns DEF Runs, PInv
      <4> QED BY <1>2, <3>1, <3>2, <4>2 DEF Runs
    <3>3. CASE rows'[h].attempt = lastAttempt + 1
      BY <1>2, <3>1, <3>3 DEF Runs
    <3> QED BY <2>1, <3>2, <3>3
  <2> QED BY <2>2, <2>3
<1>7. RecordsLieBehind'
  BY <1>5, <1>6 DEF RecordsLieBehind, Positions, SameSession
<1> QED BY <1>1, <1>3, <1>7

LEMMA EntitledRecordFits ==
  ASSUME PInv, NEW r, Entitled(r), LedgerUnchanged, stream' = Append(stream, r)
  PROVE  OutcomesAgree' /\ RecordsLieBehind' /\ AttemptsNeverReturn'
<1> DEFINE n == Len(stream) + 1
           u == r.submission
<1>1. /\ r \in Record /\ u \in Submissions /\ r.attempt \in Nat
      /\ stream \in Seq(Record) /\ Len(stream) \in Nat
      /\ rows' = rows /\ lastAttempt' = lastAttempt
  BY DEF Entitled, Record, PInv, LedgerUnchanged, vars
<1>2. /\ Positions' = Positions \cup {n} /\ n \notin Positions
      /\ stream'[n] = r /\ \A i \in Positions : stream'[i] = stream[i] /\ i < n
  BY <1>1 DEF Positions
<1>3. PICK s \in Submissions :
        /\ rows[s].attempt = r.attempt
        /\ \/ /\ rows[s].status = "running" /\ r.type # "settled"
              /\ u = s \/ Attached(u, s)
           \/ rows[s].status = "terminalizing" /\ r = Decided(s)
  BY DEF Entitled
<1>4. \/ /\ rows[s].status = "running" /\ r.type # "settled" /\ SameSession(u, s)
         /\ ~Sealed(rows[u])
      \/ /\ r.type = "settled" /\ u = s /\ rows[s].status = "terminalizing" /\ r = Decided(s)
  <2>1. Attached(u, s) => SameSession(u, s) /\ ~Sealed(rows[u])
    BY <1>1 DEF PInv, Inv, JoinsFollowTheirHost, Earlier, SameSession, Attached, Sealed
  <2>2. r = Decided(s) => r.type = "settled" /\ r.submission = s
    BY DEF Decided, SettledRecord
  <2> QED BY <1>3, <2>1, <2>2 DEF SameSession, Sealed
<1>5. \A i \in Positions :
        /\ stream[i].attempt \in Nat
        /\ stream[i].attempt <= lastAttempt
        /\ stream[i].submission = u => stream[i].attempt <= r.attempt
        /\ stream[i].submission = u /\ stream[i].type = "settled" => Sealed(rows[u])
  BY <1>1, <1>3, <1>4, StreamFacts DEF PInv, RecordsLieBehind, OutcomesAgree, Sealed
<1>6. r.attempt <= lastAttempt
  BY <1>3, RowFacts DEF PInv
<1>7. ASSUME NEW h \in Submissions, SameSession(u, h), rows[h].status = "running"
      PROVE  r.attempt <= rows[h].attempt
  <2>1. CASE rows[s].status = "running"
    <3>1. SameSession(s, h)
      BY <1>4, <1>7, <2>1 DEF SameSession
    <3>2. s = h
      BY <1>7, <2>1, <3>1, OneRuns DEF PInv
    <3> QED BY <1>1, <1>3, <3>2
  <2>2. CASE rows[s].status = "terminalizing"
    BY <1>3, <1>4, <1>7, <2>2 DEF PInv, RecordsLieBehind
  <2> QED BY <1>3, <2>1, <2>2
<1>8. rows[u].status = "terminalizing" => r.attempt <= rows[u].attempt
  BY <1>1, <1>3, <1>4 DEF Sealed
<1> HIDE DEF n, u
<1>9. OutcomesAgree'
  <2>1. ASSUME NEW i \in Positions', stream'[i].type = "settled"
        PROVE  /\ rows[stream'[i].submission].status \in {"terminalizing", "settled"}
               /\ stream'[i] = SettledRecord(stream'[i].submission,
                                             rows[stream'[i].submission].attempt,
                                             rows[stream'[i].submission].settlement)
    <3>1. CASE i \in Positions
      BY <1>2, <2>1, <3>1 DEF PInv, OutcomesAgree
    <3>2. CASE i = n
      BY <1>2, <1>4, <2>1, <3>2 DEF Decided, u
    <3> QED BY <1>2, <3>1, <3>2
  <2>2. \A v : RecordedSettlement(v) => RecordedSettlement(v)'
    BY <1>2 DEF RecordedSettlement
  <2> QED BY <1>1, <2>1, <2>2 DEF OutcomesAgree, PInv
<1>10. RecordsLieBehind'
  <2>1. ASSUME NEW i \in Positions', NEW v, v = stream'[i].submission
        PROVE  /\ stream'[i].attempt <= lastAttempt
               /\ rows[v].status = "terminalizing" => stream'[i].attempt <= rows[v].attempt
               /\ \A h \in Submissions :
                    SameSession(v, h) /\ rows[h].status = "running"
                    => stream'[i].attempt <= rows[h].attempt
    <3>1. CASE i \in Positions
      BY <1>2, <2>1, <3>1 DEF PInv, RecordsLieBehind
    <3>2. CASE i = n
      BY <1>2, <1>6, <1>7, <1>8, <2>1, <3>2 DEF u
    <3> QED BY <1>2, <3>1, <3>2
  <2> QED BY <1>1, <2>1 DEF RecordsLieBehind, SameSession, PInv
<1>11. AttemptsNeverReturn'
  <2> SUFFICES ASSUME NEW i \in Positions', NEW j \in Positions', i < j,
                      stream'[i].submission = stream'[j].submission
               PROVE  /\ stream'[i].attempt <= stream'[j].attempt
                      /\ stream'[i].type = "settled" => stream'[j].type = "settled"
    BY DEF AttemptsNeverReturn
  <2>1. CASE j \in Positions
    <3>1. i \in Positions
      BY <1>2, <2>1, StreamFacts DEF n, PInv
    <3> QED BY <1>2, <2>1, <3>1 DEF PInv, AttemptsNeverReturn
  <2>2. CASE j = n
    <3>1. i \in Positions
      BY <1>2, <2>2, <1>1 DEF n
    <3>2. stream'[i] = stream[i] /\ stream'[j] = r /\ stream[i].submission = u
      BY <1>2, <2>2, <3>1 DEF u
    <3> QED BY <1>4, <1>5, <3>1, <3>2
  <2> QED BY <1>2, <2>1, <2>2
<1> QED BY <1>9, <1>10, <1>11

-----------------------------------------------------------------------------
(* What every step does *)

\* The next state e of an activity owes what the row has decided after the step.
OwesThen(e) ==
  e.pc \in Owing =>
    /\ Sealed(rows'[e.target])
    /\ e.record = SettledRecord(e.target, rows'[e.target].attempt, rows'[e.target].settlement)
    /\ e.pc = "finalize" =>
         \E i \in DOMAIN stream' :
           stream'[i].type = "settled" /\ stream'[i].submission = e.target

Becomes(x, e) == Set(x, e) /\ ExecutorOK(e) /\ OwesThen(e)

Sound ==
  /\ \E t \in Submissions \cup {None} :
       LedgerStep(t) /\ (t \in Submissions => RecordedSettlement(t))
  /\ StreamStep
  /\ crashes' \in 0 .. MaxCrashes
  /\ executors' = executors \/ \E x \in Executors : \E e : Becomes(x, e)

LEMMA SoundKeepsPInv ==
  ASSUME PInv, Sound
  PROVE  PInv' /\ [Next]_vars
<1>1. PICK t \in Submissions \cup {None} :
        LedgerStep(t) /\ (t \in Submissions => RecordedSettlement(t))
  BY DEF Sound
<1>2. [Next]_vars /\ Inv'
  BY <1>1, NextInv DEF LedgerStep, PInv
<1>3. /\ stream' \in Seq(Record)
      /\ \A s : RecordedSettlement(s) => RecordedSettlement(s)'
  BY StreamGrows DEF Sound, PInv
<1>4. OutcomesAgree' /\ RecordsLieBehind' /\ AttemptsNeverReturn'
  BY <1>1, <1>2, LedgerStepKeepsRecords, EntitledRecordFits DEF Sound, StreamStep
<1>5. ASSUME NEW e, ExecutorOK(e), ExecutorOwes(e) PROVE OwesThen(e)
  <2> SUFFICES ASSUME e.pc \in Owing
               PROVE  /\ Sealed(rows'[e.target])
                      /\ e.record = SettledRecord(e.target, rows'[e.target].attempt,
                                                  rows'[e.target].settlement)
                      /\ e.pc = "finalize" => RecordedSettlement(e.target)'
    BY DEF OwesThen, RecordedSettlement, Positions
  <2>1. e.target \in Submissions
    BY <1>5 DEF ExecutorOK, Owing, SettlePcs
  <2>2. Sealed(rows[e.target]) /\ e.record = Decided(e.target)
    BY <1>5 DEF ExecutorOwes
  <2>3. Moves(e.target, rows'[e.target], t)
    BY <1>1, <2>1 DEF LedgerStep, RowsMove
  <2>4. e.pc = "finalize" => RecordedSettlement(e.target)'
    BY <1>3, <1>5 DEF ExecutorOwes
  <2> QED BY <2>2, <2>3, <2>4 DEF Moves, Decided
<1>6. ASSUME NEW y \in Executors PROVE ExecutorOK(executors'[y]) /\ OwesThen(executors'[y])
  <2>1. ExecutorOK(executors[y]) /\ OwesThen(executors[y])
    BY <1>5 DEF PInv, ExecutorsOK
  <2>2. CASE executors' = executors
    BY <2>1, <2>2
  <2>3. ASSUME NEW x \in Executors, NEW e, Becomes(x, e)
        PROVE  ExecutorOK(executors'[y]) /\ OwesThen(executors'[y])
    <3>1. executors'[y] = IF y = x THEN e ELSE executors[y]
      BY <2>3 DEF Becomes, Set, PInv, ExecutorsOK
    <3> QED BY <2>1, <2>3, <3>1 DEF Becomes
  <2> QED BY <2>2, <2>3 DEF Sound
<1>7. executors' = [y \in Executors |-> executors'[y]]
  BY DEF Sound, Becomes, Set, PInv, ExecutorsOK
<1>8. \A y \in Executors : ExecutorOwes(executors[y])'
  BY <1>6 DEF OwesThen, ExecutorOwes, Decided, RecordedSettlement, Positions
<1>9. ExecutorsOK'
  BY <1>6, <1>7, <1>8 DEF ExecutorsOK, ExecutorOK
<1> QED BY <1>2, <1>3, <1>4, <1>9 DEF PInv, Sound

LEMMA LedgerStepIsSound ==
  ASSUME PInv, LedgerStep(None), stream' = stream, crashes' = crashes,
         executors' = executors \/ \E x \in Executors : \E e : Becomes(x, e)
  PROVE  Sound
BY SubmissionsAssumption DEF Sound, StreamStep, PInv

LEMMA QuietStepIsSound ==
  ASSUME PInv, LedgerUnchanged, stream' = stream, crashes' = crashes,
         NEW x \in Executors, NEW e, Becomes(x, e)
  PROVE  Sound
BY NoLedgerStep, LedgerStepIsSound DEF PInv

-----------------------------------------------------------------------------
(* What an activity becomes *)

LEMMA IdleBecomes ==
  ASSUME NEW x, Set(x, Idle)
  PROVE  Becomes(x, Idle)
<1>1. Idle \in Executor
  BY AbsentRowType DEF Idle, Executor, Pcs, NoAttempt
<1> QED BY <1>1 DEF Idle, Becomes, ExecutorOK, OwesThen, Owing, SettlePcs

\* It goes on without anything to settle.
LEMMA GoesOn ==
  ASSUME PInv, NEW x \in Executors, executors[x].pc # "idle",
         NEW pc \in {"start", "ran", "inspect", "decide"} \cup SessionPcs,
         NEW todo \in SUBSET Submissions, NEW next \in Pcs \cup {None},
         pc \in {"join", "confirm"} => next \in {"turn", "drive"},
         Set(x, [executors[x] EXCEPT !.pc = pc, !.todo = todo, !.next = next])
  PROVE  \E e : Becomes(x, e)
<1> DEFINE e == [executors[x] EXCEPT !.pc = pc, !.todo = todo, !.next = next]
<1>1. executors[x] \in Executor /\ executors[x].sub \in Submissions
  BY DEF PInv, ExecutorsOK, ExecutorOK
<1>2. pc \in Pcs
  BY DEF Pcs
<1>3. e \in Executor /\ e.pc = pc /\ e.sub = executors[x].sub /\ e.next = next
  BY <1>1, <1>2 DEF Executor
<1> HIDE DEF e
<1>4. ExecutorOK(e) /\ OwesThen(e)
  BY <1>1, <1>3 DEF ExecutorOK, OwesThen, Owing, SettlePcs, SessionPcs
<1> QED BY <1>4 DEF Becomes, e

LEMMA GoBecomes ==
  ASSUME PInv, NEW x \in Executors, executors[x].pc # "idle",
         NEW pc \in {"start", "ran", "inspect", "decide"} \cup SessionPcs,
         pc \in {"join", "confirm"} => executors[x].pc \in {"join", "confirm"},
         Set(x, [executors[x] EXCEPT !.pc = pc])
  PROVE  \E e : Becomes(x, e)
<1>1. executors[x] \in Executor
  BY DEF PInv, ExecutorsOK, ExecutorOK
<1>2. /\ executors[x].todo \in SUBSET Submissions /\ executors[x].next \in Pcs \cup {None}
      /\ [executors[x] EXCEPT !.pc = pc]
           = [executors[x] EXCEPT !.pc = pc, !.todo = executors[x].todo, !.next = executors[x].next]
  BY <1>1 DEF Executor
<1>3. pc \in {"join", "confirm"} => executors[x].next \in {"turn", "drive"}
  BY DEF PInv, ExecutorsOK, ExecutorOK
<1> QED BY <1>2, <1>3, GoesOn

LEMMA TodoBecomes ==
  ASSUME PInv, NEW x \in Executors, executors[x].pc # "idle",
         NEW pc \in {"start", "ran", "inspect", "decide"} \cup SessionPcs,
         pc \in {"join", "confirm"} => executors[x].pc \in {"join", "confirm"},
         NEW todo \in SUBSET Submissions,
         Set(x, [executors[x] EXCEPT !.pc = pc, !.todo = todo])
  PROVE  \E e : Becomes(x, e)
<1>1. executors[x] \in Executor
  BY DEF PInv, ExecutorsOK, ExecutorOK
<1>2. /\ executors[x].next \in Pcs \cup {None}
      /\ [executors[x] EXCEPT !.pc = pc, !.todo = todo]
           = [executors[x] EXCEPT !.pc = pc, !.todo = todo, !.next = executors[x].next]
  BY <1>1 DEF Executor
<1>3. pc \in {"join", "confirm"} => executors[x].next \in {"turn", "drive"}
  BY DEF PInv, ExecutorsOK, ExecutorOK
<1> QED BY <1>2, <1>3, GoesOn

LEMMA CaughtBecomes ==
  ASSUME PInv, NEW x \in Executors, executors[x].pc # "idle", Set(x, Caught(x))
  PROVE  \E e : Becomes(x, e)
<1>1. executors[x] \in Executor /\ executors[x].sub \in Submissions
  BY DEF PInv, ExecutorsOK, ExecutorOK
<1>2. Caught(x) \in Executor /\ Caught(x).pc = "caught" /\ Caught(x).sub = executors[x].sub
  BY <1>1 DEF Caught, Executor, Pcs
<1>3. ExecutorOK(Caught(x)) /\ OwesThen(Caught(x))
  BY <1>1, <1>2 DEF ExecutorOK, OwesThen, Owing, SettlePcs
<1> QED BY <1>3 DEF Becomes

LEMMA SettleAsBecomes ==
  ASSUME PInv, NEW x \in Executors, executors[x].pc # "idle", NEW outcome \in Outcomes,
         Set(x, SettleAs(x, outcome))
  PROVE  \E e : Becomes(x, e)
<1> DEFINE e == SettleAs(x, outcome)
<1>1. /\ executors[x].sub \in Submissions /\ executors[x].attempt \in Nat
  BY DEF PInv, ExecutorsOK, ExecutorOK, Executor
<1>2. /\ e \in Executor /\ e.pc = "listJoined" /\ e.sub \in Submissions
      /\ e.outcome = outcome
  BY <1>1, AbsentRowType DEF SettleAs, Idle, Executor, Pcs, SettlePcs
<1> HIDE DEF e
<1>3. ExecutorOK(e) /\ OwesThen(e)
  BY <1>2 DEF ExecutorOK, OwesThen, Owing, SettlePcs
<1> QED BY <1>3 DEF Becomes, e

\* The next target is a delivery, for which the outcome is known, or the host.
LEMMA SettleNextBecomes ==
  ASSUME PInv, NEW x \in Executors, executors[x].pc # "idle",
         executors[x].outcome \in Outcomes, NEW S \in SUBSET Submissions, SettleNext(x, S)
  PROVE  \E e : Becomes(x, e)
<1>1. executors[x] \in Executor /\ executors[x].sub \in Submissions
  BY DEF PInv, ExecutorsOK, ExecutorOK
<1>2. PICK s \in IF S = {} THEN {executors[x].sub} ELSE First(S) :
        Set(x, [executors[x] EXCEPT !.pc = "lookup", !.todo = S, !.record = None, !.target = s])
  BY DEF SettleNext
<1>3. s \in Submissions
  BY <1>1 DEF First
<1> DEFINE e == [executors[x] EXCEPT !.pc = "lookup", !.todo = S, !.record = None, !.target = s]
<1>4. /\ e \in Executor /\ e.pc = "lookup" /\ e.sub \in Submissions
      /\ e.outcome \in Outcomes /\ e.target \in Submissions
  BY <1>1, <1>3 DEF Executor, Pcs, SettlePcs
<1> HIDE DEF e
<1>5. ExecutorOK(e) /\ OwesThen(e)
  BY <1>4 DEF ExecutorOK, OwesThen, Owing, SettlePcs
<1> QED BY <1>2, <1>5 DEF Becomes, e

\* The target stays, and the settlement goes on with its record.
LEMMA SettlementBecomes ==
  ASSUME PInv, NEW x \in Executors,
         executors[x].pc \in {"lookup", "reserve", "check", "append"},
         NEW pc \in {"reserve", "check", "append", "finalize"},
         NEW record \in Record \cup {None},
         pc = "reserve" => executors[x].outcome \in Outcomes,
         OwesThen([executors[x] EXCEPT !.pc = pc, !.record = record]),
         Set(x, [executors[x] EXCEPT !.pc = pc, !.record = record])
  PROVE  \E e : Becomes(x, e)
<1> DEFINE e == [executors[x] EXCEPT !.pc = pc, !.record = record]
<1>1. /\ executors[x] \in Executor /\ executors[x].sub \in Submissions
      /\ executors[x].target \in Submissions
      /\ executors[x].target = executors[x].sub \/ executors[x].outcome \in Outcomes
  BY DEF PInv, ExecutorsOK, ExecutorOK, SettlePcs
<1>2. pc \in Pcs
  BY DEF Pcs, SettlePcs
<1>3. /\ e \in Executor /\ e.pc = pc /\ e.sub = executors[x].sub
      /\ e.target = executors[x].target /\ e.outcome = executors[x].outcome
  BY <1>1, <1>2 DEF Executor
<1> HIDE DEF e
<1>4. ExecutorOK(e)
  BY <1>1, <1>3 DEF ExecutorOK, SettlePcs
<1> QED BY <1>4 DEF Becomes, e

LEMMA AfterTargetBecomes ==
  ASSUME PInv, NEW x \in Executors, executors[x].pc \in {"reserve", "finalize"}, AfterTarget(x)
  PROVE  \E e : Becomes(x, e)
<1>1. /\ executors[x].target \in Submissions /\ executors[x].todo \in SUBSET Submissions
      /\ executors[x].target = executors[x].sub \/ executors[x].outcome \in Outcomes
  BY DEF PInv, ExecutorsOK, ExecutorOK, SettlePcs, Executor
<1>2. CASE executors[x].target = executors[x].sub
  BY <1>2, IdleBecomes DEF AfterTarget
<1>3. CASE executors[x].target # executors[x].sub
  <2>1. executors[x].todo \ {executors[x].target} \in SUBSET Submissions
    BY <1>1
  <2> QED BY <1>1, <1>3, <2>1, SettleNextBecomes DEF AfterTarget
<1> QED BY <1>2, <1>3

\* A record under the authority of a submission that runs.
LEMMA AppendIsSound ==
  ASSUME PInv, NEW x \in Executors, NEW r \in Record, r.type # "settled",
         NEW s \in Submissions, NEW then, NEW else, AppendAs(x, r, s, then, else),
         Set(x, then) => \E e : Becomes(x, e),
         Set(x, else) => \E e : Becomes(x, e),
         LedgerUnchanged, crashes' = crashes
  PROVE  Sound
<1>1. CASE Authorized(r, s, executors[x].attempt)
  <2>1. Set(x, then) /\ stream' = Append(stream, r)
    BY <1>1 DEF AppendAs
  <2>2. r # SettledRecord(s, executors[x].attempt, rows[s].settlement)
    BY DEF SettledRecord
  <2>3. Entitled(r)
    BY <1>1, <2>2 DEF Authorized, Entitled
  <2>4. StreamStep
    BY <2>1, <2>3 DEF StreamStep
  <2> QED BY <2>1, <2>4, NoLedgerStep, SubmissionsAssumption DEF Sound, PInv
<1>2. CASE ~Authorized(r, s, executors[x].attempt)
  <2>1. Set(x, else) /\ stream' = stream
    BY <1>2 DEF AppendAs
  <2> QED BY <2>1, QuietStepIsSound
<1> QED BY <1>1, <1>2

-----------------------------------------------------------------------------
(* Every step is sound *)

\* An activity that runs or recovers a submission and settles nothing.
LEMMA WorkerBecomes ==
  ASSUME NEW x, NEW e \in Executor, e.sub \in Submissions,
         e.pc \in {"start", "inspect", "decide"}, Set(x, e)
  PROVE  Becomes(x, e)
BY DEF Becomes, ExecutorOK, OwesThen, Owing, SettlePcs

LEMMA ActivityFacts ==
  ASSUME PInv, NEW x \in Executors
  PROVE  /\ executors[x] \in Executor /\ ExecutorOK(executors[x]) /\ ExecutorOwes(executors[x])
         /\ executors[x].pc # "idle" => executors[x].sub \in Submissions
         /\ executors[x].attempt \in Nat /\ executors[x].todo \in SUBSET Submissions
         /\ executors[x].next \in Pcs \cup {None} /\ executors[x].record \in Record \cup {None}
         /\ Inv
BY DEF PInv, ExecutorsOK, ExecutorOK, Executor

LEMMA NewTaskType ==
  ASSUME NEW s \in Submissions, NEW a \in Nat
  PROVE  LET e == [Idle EXCEPT !.pc = "start", !.sub = s, !.attempt = a]
         IN  e \in Executor /\ e.sub \in Submissions /\ e.pc = "start"
<1>1. "start" \in Pcs
  BY DEF Pcs
<1>2. Idle \in Executor
  BY AbsentRowType DEF Idle, Executor, Pcs, NoAttempt
<1> QED BY <1>1, <1>2 DEF Executor

LEMMA StartIsSound ==
  ASSUME PInv, NEW x \in Executors, NEW s \in Submissions, NEW o \in Owners, Start(x, s, o)
  PROVE  Sound
<1> DEFINE e == [Idle EXCEPT !.pc = "start", !.sub = s, !.attempt = lastAttempt + 1]
<1>1. lastAttempt + 1 \in Nat
  BY DEF PInv, Inv, TypeOK
<1>2. e \in Executor /\ e.sub \in Submissions /\ e.pc = "start"
  BY <1>1, NewTaskType
<1>3. Set(x, e) /\ Claim(s, o) /\ stream' = stream /\ crashes' = crashes
  BY DEF Start
<1> HIDE DEF e
<1>4. Becomes(x, e)
  BY <1>2, <1>3, WorkerBecomes
<1> QED BY <1>3, <1>4, NewAttemptMoves, LedgerStepIsSound DEF PInv

LEMMA BeginIsSound ==
  ASSUME PInv, NEW x \in Executors, Begin(x)
  PROVE  Sound
<1>1. executors[x].pc = "start"
  BY DEF Begin, At
<1>2. CASE Set(x, Idle)
  BY <1>2, IdleBecomes, QuietStepIsSound DEF Begin
<1>3. CASE Set(x, SettleAs(x, "aborted"))
  <2>1. \E e : Becomes(x, e)
    BY <1>1, <1>3, SettleAsBecomes DEF Outcomes
  <2> QED BY <2>1, QuietStepIsSound DEF Begin
<1>4. CASE Set(x, [executors[x] EXCEPT !.pc = "input"])
  <2>1. \E e : Becomes(x, e)
    BY <1>1, <1>4, GoBecomes DEF SessionPcs
  <2> QED BY <2>1, QuietStepIsSound DEF Begin
<1> QED BY <1>2, <1>3, <1>4 DEF Begin

LEMMA RecordOfType ==
  ASSUME NEW type \in RecordTypes, NEW s \in Submissions, NEW a \in Nat
  PROVE  RecordOf(type, s, a) \in Record /\ RecordOf(type, s, a).type = type
BY DEF RecordOf, Record

LEMMA PersistInputIsSound ==
  ASSUME PInv, NEW x \in Executors, PersistInput(x)
  PROVE  Sound
<1> DEFINE s == executors[x].sub
<1> DEFINE r == RecordOf("input", s, executors[x].attempt)
<1>1. /\ executors[x].pc = "input" /\ s \in Submissions /\ executors[x].attempt \in Nat
      /\ LedgerUnchanged /\ crashes' = crashes
  BY ActivityFacts DEF PersistInput, At
<1>2. r \in Record /\ r.type = "input"
  BY <1>1, RecordOfType DEF RecordTypes
<1>3. Set(x, [executors[x] EXCEPT !.pc = "mark"]) => \E e : Becomes(x, e)
  BY <1>1, GoBecomes DEF SessionPcs
<1>4. Set(x, Caught(x)) => \E e : Becomes(x, e)
  BY <1>1, CaughtBecomes
<1>5. CASE Persisted(s)
  <2>1. Set(x, [executors[x] EXCEPT !.pc = "mark"]) /\ stream' = stream
    BY <1>5 DEF PersistInput, Go
  <2> QED BY <1>1, <1>3, <2>1, QuietStepIsSound
<1>6. CASE ~Persisted(s)
  <2>1. AppendAs(x, r, s, [executors[x] EXCEPT !.pc = "mark"], Caught(x))
    BY <1>6 DEF PersistInput
  <2> HIDE DEF r, s
  <2> QED BY <1>1, <1>2, <1>3, <1>4, <2>1, AppendIsSound
<1> QED BY <1>5, <1>6

LEMMA MarkIsSound ==
  ASSUME PInv, NEW x \in Executors, NEW d \in Durabilities, Mark(x, d)
  PROVE  Sound
<1>1. /\ executors[x].pc = "mark" /\ executors[x].sub \in Submissions /\ Inv
      /\ stream' = stream /\ crashes' = crashes
  BY ActivityFacts DEF Mark, At
<1>2. CASE Set(x, Caught(x)) /\ LedgerUnchanged
  <2>1. \E e : Becomes(x, e)
    BY <1>1, <1>2, CaughtBecomes
  <2> QED BY <1>1, <1>2, <2>1, QuietStepIsSound
<1>3. CASE MarkInputApplied(executors[x].sub, executors[x].attempt, d) /\ Go(x, "listJoins")
  <2>1. \E e : Becomes(x, e)
    BY <1>1, <1>3, GoBecomes DEF SessionPcs, Go
  <2>2. LedgerStep(None)
    BY <1>1, <1>3, AttemptMoves
  <2> QED BY <1>1, <2>1, <2>2, LedgerStepIsSound
<1> QED BY <1>2, <1>3 DEF Mark

LEMMA ListJoinsIsSound ==
  ASSUME PInv, NEW x \in Executors, ListJoins(x)
  PROVE  Sound
<1>1. executors[x].pc = "listJoins"
  BY DEF ListJoins, At
<1>2. \E e : Becomes(x, e)
  <2> DEFINE todo == {s \in Submissions :
                        Attached(s, executors[x].sub) /\ rows[s].status = "joining"}
  <2>1. Set(x, [executors[x] EXCEPT !.pc = "resolve", !.todo = todo])
    BY DEF ListJoins
  <2>2. todo \in SUBSET Submissions
    OBVIOUS
  <2> HIDE DEF todo
  <2> QED BY <1>1, <2>1, <2>2, TodoBecomes DEF SessionPcs
<1> QED BY <1>2, QuietStepIsSound DEF ListJoins

\* A join that is confirmed, handed back or refused.
LEMMA JoinOrNothing ==
  ASSUME PInv, NEW h \in Submissions, NEW a, NEW s \in Submissions,
         FinalizeJoined(h, a, s) \/ RevertJoining(h, a, s) \/ LedgerUnchanged
  PROVE  LedgerStep(None)
BY JoinMoves, NoLedgerStep DEF PInv

LEMMA ResolveJoinIsSound ==
  ASSUME PInv, NEW x \in Executors, ResolveJoin(x)
  PROVE  Sound
<1>1. /\ executors[x].pc = "resolve" /\ executors[x].sub \in Submissions
      /\ executors[x].todo \in SUBSET Submissions /\ executors[x] \in Executor
      /\ stream' = stream /\ crashes' = crashes
  BY ActivityFacts DEF ResolveJoin, At
<1>2. CASE Go(x, "wakeJoins") /\ LedgerUnchanged
  <2>1. \E e : Becomes(x, e)
    BY <1>1, <1>2, GoBecomes DEF SessionPcs, Go
  <2> QED BY <1>1, <1>2, <2>1, QuietStepIsSound
<1>3. ASSUME NEW s \in First(executors[x].todo),
             Set(x, [executors[x] EXCEPT !.todo = executors[x].todo \ {s}]),
             \/ FinalizeJoined(executors[x].sub, executors[x].attempt, s)
             \/ RevertJoining(executors[x].sub, executors[x].attempt, s)
             \/ LedgerUnchanged
      PROVE  Sound
  <2>1. s \in Submissions /\ executors[x].todo \ {s} \in SUBSET Submissions
    BY <1>1 DEF First
  <2>2. [executors[x] EXCEPT !.todo = executors[x].todo \ {s}]
          = [executors[x] EXCEPT !.pc = "resolve", !.todo = executors[x].todo \ {s}]
    BY <1>1 DEF Executor
  <2>3. \E e : Becomes(x, e)
    BY <1>1, <1>3, <2>1, <2>2, TodoBecomes DEF SessionPcs
  <2>4. LedgerStep(None)
    BY <1>1, <1>3, <2>1, JoinOrNothing
  <2> QED BY <1>1, <2>3, <2>4, LedgerStepIsSound
<1> QED BY <1>2, <1>3 DEF ResolveJoin

LEMMA ClaimJoinsIsSound ==
  ASSUME PInv, NEW x \in Executors, ClaimJoins(x)
  PROVE  Sound
<1> DEFINE h == executors[x].sub
<1> DEFINE a == executors[x].attempt
<1> DEFINE claimed == IF Runs(h, a) THEN JoinablePrefix(h) ELSE {}
<1>1. /\ executors[x].pc \in {"wakeJoins", "joins"} /\ h \in Submissions /\ Inv
      /\ stream' = stream /\ crashes' = crashes
  BY ActivityFacts DEF ClaimJoins
<1>2. CASE Go(x, "drive") /\ LedgerUnchanged
  <2>1. \E e : Becomes(x, e)
    BY <1>1, <1>2, GoBecomes DEF SessionPcs, Go
  <2> QED BY <1>1, <1>2, <2>1, QuietStepIsSound
<1>3. ASSUME NEW next \in {"turn", "drive"}, ClaimJoinable(h, a),
             Set(x, [executors[x] EXCEPT !.pc = "join", !.todo = claimed, !.next = next])
      PROVE  Sound
  <2>1. claimed \in SUBSET Submissions
    BY DEF JoinablePrefix
  <2>2. next \in Pcs \cup {None}
    BY DEF Pcs, SessionPcs
  <2> HIDE DEF claimed
  <2>3. \E e : Becomes(x, e)
    BY <1>1, <1>3, <2>1, <2>2, GoesOn DEF SessionPcs
  <2>4. LedgerStep(None)
    BY <1>1, <1>3, JoinMoves
  <2> QED BY <1>1, <2>3, <2>4, LedgerStepIsSound
<1>4. (IF At(x, "joins") THEN "turn" ELSE "drive") \in {"turn", "drive"}
  OBVIOUS
<1> QED BY <1>2, <1>3, <1>4 DEF ClaimJoins

LEMMA ApplyJoinIsSound ==
  ASSUME PInv, NEW x \in Executors, ApplyJoin(x)
  PROVE  Sound
<1>1. /\ executors[x].pc = "join" /\ executors[x].sub \in Submissions
      /\ executors[x].todo \in SUBSET Submissions /\ executors[x] \in Executor
      /\ executors[x].attempt \in Nat
      /\ LedgerUnchanged /\ crashes' = crashes
  BY ActivityFacts DEF ApplyJoin, At
<1>2. CASE /\ Set(x, [executors[x] EXCEPT !.pc = executors[x].next, !.next = None])
           /\ UNCHANGED stream
  <2> DEFINE pc == executors[x].next
  <2>1. pc \in {"turn", "drive"}
    BY <1>1, ActivityFacts DEF ExecutorOK
  <2>2. [executors[x] EXCEPT !.pc = pc, !.next = None]
          = [executors[x] EXCEPT !.pc = pc, !.todo = executors[x].todo, !.next = None]
    BY <1>1 DEF Executor
  <2>3. Set(x, [executors[x] EXCEPT !.pc = pc, !.todo = executors[x].todo, !.next = None])
    BY <1>2, <2>2
  <2> HIDE DEF pc
  <2>4. \E e : Becomes(x, e)
    BY <1>1, <2>1, <2>3, GoesOn DEF SessionPcs
  <2> QED BY <1>1, <1>2, <2>4, QuietStepIsSound
<1>3. Set(x, [executors[x] EXCEPT !.pc = "confirm"]) => \E e : Becomes(x, e)
  BY <1>1, GoBecomes DEF SessionPcs
<1>4. Set(x, Caught(x)) => \E e : Becomes(x, e)
  BY <1>1, CaughtBecomes
<1>5. CASE Go(x, "confirm") /\ UNCHANGED stream
  BY <1>1, <1>3, <1>5, QuietStepIsSound DEF Go
<1>6. ASSUME NEW s \in First(executors[x].todo),
             AppendAs(x, RecordOf("input", s, executors[x].attempt), executors[x].sub,
                      [executors[x] EXCEPT !.pc = "confirm"], Caught(x))
      PROVE  Sound
  <2> DEFINE r == RecordOf("input", s, executors[x].attempt)
  <2>1. r \in Record /\ r.type = "input"
    BY <1>1, RecordOfType DEF RecordTypes, First
  <2> HIDE DEF r
  <2>2. AppendAs(x, r, executors[x].sub, [executors[x] EXCEPT !.pc = "confirm"], Caught(x))
    BY <1>6 DEF r
  <2> QED BY <1>1, <1>3, <1>4, <2>1, <2>2, AppendIsSound
<1> QED BY <1>2, <1>5, <1>6 DEF ApplyJoin

LEMMA ConfirmJoinIsSound ==
  ASSUME PInv, NEW x \in Executors, ConfirmJoin(x)
  PROVE  Sound
<1>1. /\ executors[x].pc = "confirm" /\ executors[x].sub \in Submissions
      /\ executors[x].todo \in SUBSET Submissions
      /\ stream' = stream /\ crashes' = crashes
  BY ActivityFacts DEF ConfirmJoin, At
<1>2. PICK s \in First(executors[x].todo) :
        /\ Set(x, [executors[x] EXCEPT !.pc = "join", !.todo = executors[x].todo \ {s}])
        /\ \/ FinalizeJoined(executors[x].sub, executors[x].attempt, s)
           \/ LedgerUnchanged
  BY DEF ConfirmJoin
<1>3. s \in Submissions /\ executors[x].todo \ {s} \in SUBSET Submissions
  BY SMTT(40), <1>1 DEF First
<1>4. \E e : Becomes(x, e)
  BY <1>1, <1>2, <1>3, TodoBecomes DEF SessionPcs
<1>5. LedgerStep(None)
  BY <1>1, <1>2, <1>3, JoinOrNothing
<1> QED BY <1>1, <1>4, <1>5, LedgerStepIsSound

LEMMA TurnIsSound ==
  ASSUME PInv, NEW x \in Executors, NEW type \in {"step", "answer"}, Turn(x, type)
  PROVE  Sound
<1> DEFINE s == executors[x].sub
<1> DEFINE r == RecordOf(type, s, executors[x].attempt)
<1>1. /\ executors[x].pc = "turn" /\ s \in Submissions /\ executors[x].attempt \in Nat
      /\ LedgerUnchanged /\ crashes' = crashes
      /\ AppendAs(x, r, s, [executors[x] EXCEPT !.pc = "joins"], Caught(x))
  BY ActivityFacts DEF Turn, At
<1>2. r \in Record /\ r.type # "settled"
  BY <1>1, RecordOfType DEF RecordTypes
<1>3. Set(x, [executors[x] EXCEPT !.pc = "joins"]) => \E e : Becomes(x, e)
  BY <1>1, GoBecomes DEF SessionPcs
<1>4. Set(x, Caught(x)) => \E e : Becomes(x, e)
  BY <1>1, CaughtBecomes
<1> HIDE DEF r, s
<1> QED BY <1>1, <1>2, <1>3, <1>4, AppendIsSound

LEMMA DriveIsSound ==
  ASSUME PInv, NEW x \in Executors, Drive(x)
  PROVE  Sound
<1> DEFINE s == executors[x].sub
<1> DEFINE r == RecordOf("cycle", s, executors[x].attempt)
<1>1. /\ executors[x].pc = "drive" /\ s \in Submissions /\ executors[x].attempt \in Nat
      /\ LedgerUnchanged /\ crashes' = crashes
      /\ \/ Go(x, "turn") /\ stream' = stream
         \/ Go(x, "ran") /\ stream' = stream
         \/ AppendAs(x, r, s, [executors[x] EXCEPT !.pc = "turn"], Caught(x))
  BY ActivityFacts DEF Drive, At
<1>2. r \in Record /\ r.type # "settled"
  BY <1>1, RecordOfType DEF RecordTypes
<1>3. \A pc \in {"turn", "ran"} :
        Set(x, [executors[x] EXCEPT !.pc = pc]) => \E e : Becomes(x, e)
  BY <1>1, GoBecomes DEF SessionPcs
<1>4. Set(x, Caught(x)) => \E e : Becomes(x, e)
  BY <1>1, CaughtBecomes
<1>5. ASSUME NEW pc \in {"turn", "ran"}, Go(x, pc), stream' = stream PROVE Sound
  BY <1>1, <1>3, <1>5, QuietStepIsSound DEF Go
<1>6. Set(x, [executors[x] EXCEPT !.pc = "turn"]) => \E e : Becomes(x, e)
  BY <1>3
<1> HIDE DEF r, s
<1>7. CASE AppendAs(x, r, s, [executors[x] EXCEPT !.pc = "turn"], Caught(x))
  BY <1>1, <1>2, <1>4, <1>6, <1>7, AppendIsSound
<1> QED BY <1>1, <1>5, <1>7

LEMMA EndIsSound ==
  ASSUME PInv, NEW x \in Executors, Throw(x) \/ EndRun(x)
  PROVE  Sound
<1>1. executors[x].pc # "idle"
  BY DEF Throw, EndRun, SessionPcs
<1>2. CASE Throw(x)
  BY <1>1, <1>2, CaughtBecomes, QuietStepIsSound DEF Throw
<1>3. CASE EndRun(x)
  <2>1. CASE Set(x, Idle)
    BY <1>3, <2>1, IdleBecomes, QuietStepIsSound DEF EndRun
  <2>2. ASSUME NEW outcome \in Outcomes, Set(x, SettleAs(x, outcome)) PROVE Sound
    <3>1. \E e : Becomes(x, e)
      BY <1>1, <2>2, SettleAsBecomes
    <3> QED BY <1>3, <3>1, QuietStepIsSound DEF EndRun
  <2> QED BY <1>3, <2>1, <2>2 DEF EndRun, Ended, Outcomes
<1> QED BY <1>2, <1>3

LEMMA ListJoinedIsSound ==
  ASSUME PInv, NEW x \in Executors, ListJoined(x)
  PROVE  Sound
<1> DEFINE S == {s \in Submissions : Attached(s, executors[x].sub) /\ rows[s].status = "joined"}
<1>1. executors[x].pc = "listJoined" /\ executors[x].outcome \in Outcomes /\ SettleNext(x, S)
  BY ActivityFacts DEF ListJoined, At, ExecutorOK
<1>2. S \in SUBSET Submissions
  OBVIOUS
<1> HIDE DEF S
<1>3. \E e : Becomes(x, e)
  BY <1>1, <1>2, SettleNextBecomes
<1> QED BY <1>3, QuietStepIsSound DEF ListJoined

LEMMA DecidedType ==
  ASSUME PInv, NEW s \in Submissions
  PROVE  Decided(s) \in Record /\ Decided(s).type = "settled"
BY RowFacts DEF PInv, Decided, SettledRecord, Record, RecordTypes, Row

LEMMA LookupIsSound ==
  ASSUME PInv, NEW x \in Executors, Lookup(x)
  PROVE  Sound
<1> DEFINE t == executors[x].target
<1> DEFINE owed == Obligation(t)
<1> DEFINE pc == IF owed = None THEN "reserve" ELSE "check"
<1>1. /\ executors[x].pc = "lookup" /\ executors[x].outcome \in Outcomes /\ t \in Submissions
      /\ executors[x] \in Executor
  BY ActivityFacts DEF Lookup, At, ExecutorOK, SettlePcs
<1>2. owed \in Record \cup {None}
  BY <1>1, DecidedType DEF Obligation, Decided
<1>3. pc = "check" => rows[t].status = "terminalizing" /\ owed = Decided(t)
  BY DEF Obligation, Decided
<1>4. pc \in {"reserve", "check"}
  OBVIOUS
<1>5. Set(x, [executors[x] EXCEPT !.record = owed, !.pc = pc]) /\ rows' = rows
  BY DEF Lookup, LedgerUnchanged, vars
<1> HIDE DEF owed, pc
<1> DEFINE e == [executors[x] EXCEPT !.pc = pc, !.record = owed]
<1>6. e = [executors[x] EXCEPT !.record = owed, !.pc = pc] /\ e.pc = pc /\ e.record = owed
        /\ e.target = t
  BY <1>1 DEF Executor
<1>7. OwesThen(e)
  <2> HIDE DEF e, t
  <2> QED BY <1>3, <1>4, <1>5, <1>6 DEF OwesThen, Owing, Sealed, Decided
<1>8. \E f : Becomes(x, f)
  BY <1>1, <1>2, <1>4, <1>5, <1>6, <1>7, SettlementBecomes
<1> QED BY <1>8, QuietStepIsSound DEF Lookup

LEMMA ReserveIsSound ==
  ASSUME PInv, NEW x \in Executors, Reserve(x)
  PROVE  Sound
<1> DEFINE t == executors[x].target
<1> DEFINE a == executors[x].attempt
<1> DEFINE outcome == executors[x].outcome
<1> DEFINE r == SettledRecord(t, a, outcome)
<1>1. /\ executors[x].pc = "reserve" /\ outcome \in Outcomes /\ t \in Submissions
      /\ executors[x] \in Executor /\ a \in Nat /\ Inv
      /\ stream' = stream /\ crashes' = crashes
  BY ActivityFacts DEF Reserve, At, ExecutorOK, SettlePcs
<1>2. CASE /\ ReserveSettlement(t, a, outcome)
           /\ Set(x, [executors[x] EXCEPT !.pc = "check", !.record = r])
  <2>1. /\ LedgerStep(None)
        /\ rows'[t].status = "terminalizing" /\ rows'[t].attempt = a
        /\ rows'[t].settlement = outcome
    BY <1>1, <1>2, ReservationMoves
  <2>2. r \in Record
    BY <1>1 DEF SettledRecord, Record, RecordTypes
  <2> DEFINE e == [executors[x] EXCEPT !.pc = "check", !.record = r]
  <2>3. e.pc = "check" /\ e.record = r /\ e.target = t
    BY <1>1 DEF Executor
  <2>4. OwesThen(e)
    <3> HIDE DEF e
    <3> QED BY <2>1, <2>3 DEF OwesThen, Sealed
  <2> HIDE DEF r
  <2>5. \E f : Becomes(x, f)
    BY <1>1, <1>2, <2>2, <2>4, SettlementBecomes
  <2> QED BY <1>1, <2>1, <2>5, LedgerStepIsSound
<1>3. CASE LedgerUnchanged /\ AfterTarget(x)
  <2>1. \E e : Becomes(x, e)
    BY <1>1, <1>3, AfterTargetBecomes
  <2> QED BY <1>1, <1>3, <2>1, QuietStepIsSound
<1> QED BY <1>2, <1>3 DEF Reserve

LEMMA CheckIsSound ==
  ASSUME PInv, NEW x \in Executors, Check(x)
  PROVE  Sound
<1> DEFINE t == executors[x].target
<1> DEFINE pc == IF RecordedSettlement(t) THEN "finalize" ELSE "append"
<1> DEFINE e == [executors[x] EXCEPT !.pc = pc, !.record = executors[x].record]
<1>1. /\ executors[x].pc = "check" /\ executors[x] \in Executor
      /\ executors[x].record \in Record \cup {None}
      /\ rows' = rows /\ stream' = stream
  BY ActivityFacts DEF Check, At, LedgerUnchanged, vars
<1>2. e = [executors[x] EXCEPT !.pc = pc] /\ e.pc = pc
        /\ e.record = executors[x].record /\ e.target = t
  BY <1>1 DEF Executor
<1>3. Sealed(rows[t]) /\ executors[x].record = Decided(t)
  BY <1>1, ActivityFacts DEF ExecutorOwes, Owing
<1>4. pc \in {"append", "finalize"} /\ (pc = "finalize" => RecordedSettlement(t))
  OBVIOUS
<1>5. Set(x, e)
  BY <1>2 DEF Check, Go
<1> HIDE DEF pc
<1>6. OwesThen(e)
  <2> HIDE DEF e, t
  <2> QED BY <1>1, <1>2, <1>3, <1>4 DEF OwesThen, Decided, RecordedSettlement, Positions
<1>7. \E f : Becomes(x, f)
  BY <1>1, <1>4, <1>5, <1>6, SettlementBecomes
<1> QED BY <1>7, QuietStepIsSound DEF Check

LEMMA AppendSettlementIsSound ==
  ASSUME PInv, NEW x \in Executors, AppendSettlement(x)
  PROVE  Sound
<1> DEFINE t == executors[x].target
<1> DEFINE r == executors[x].record
<1>1. /\ executors[x].pc = "append" /\ executors[x] \in Executor /\ t \in Submissions
      /\ LedgerUnchanged /\ rows' = rows /\ crashes' = crashes /\ Inv
      /\ AppendAs(x, r, t, [executors[x] EXCEPT !.pc = "finalize"], Idle)
  BY ActivityFacts DEF AppendSettlement, At, LedgerUnchanged, vars, ExecutorOK, SettlePcs
<1>2. Sealed(rows[t]) /\ r = Decided(t) /\ r \in Record /\ r.type = "settled"
  BY <1>1, ActivityFacts, DecidedType DEF ExecutorOwes, Owing
<1>3. CASE ~Authorized(r, t, executors[x].attempt)
  <2>1. Set(x, Idle) /\ stream' = stream
    BY <1>1, <1>3 DEF AppendAs
  <2> QED BY <1>1, <2>1, IdleBecomes, QuietStepIsSound
<1>4. CASE Authorized(r, t, executors[x].attempt)
  <2> DEFINE e == [executors[x] EXCEPT !.pc = "finalize", !.record = r]
  <2>1. /\ e = [executors[x] EXCEPT !.pc = "finalize"]
        /\ e.pc = "finalize" /\ e.record = r /\ e.target = t
    BY <1>1 DEF Executor
  <2>2. Set(x, e) /\ stream' = Append(stream, r)
    BY <1>1, <1>4, <2>1 DEF AppendAs
  <2>3. Entitled(r)
    BY <1>1, <1>2, <1>4 DEF Entitled, Authorized, Sealed
  <2>4. StreamStep
    BY <1>1, <2>2, <2>3 DEF StreamStep
  <2>5. \E i \in DOMAIN stream' : stream'[i].type = "settled" /\ stream'[i].submission = t
    <3>1. stream \in Seq(Record)
      BY DEF PInv
    <3>2. r.submission = t
      BY <1>2 DEF Decided, SettledRecord
    <3>3. Len(stream) + 1 \in DOMAIN stream' /\ stream'[Len(stream) + 1] = r
      BY <1>2, <2>2, <3>1
    <3> QED BY <1>2, <3>2, <3>3
  <2>6. OwesThen(e)
    <3> HIDE DEF e, t, r
    <3> QED BY SMTT(40), <1>1, <1>2, <2>1, <2>5 DEF OwesThen, Decided
  <2>7. \E f : Becomes(x, f)
    <3> HIDE DEF r
    <3> QED BY <1>1, <1>2, <2>2, <2>6, SettlementBecomes
  <2> QED BY <1>1, <2>4, <2>7, NoLedgerStep, SubmissionsAssumption DEF Sound, PInv
<1> QED BY <1>3, <1>4

LEMMA FinalizeIsSound ==
  ASSUME PInv, NEW x \in Executors, Finalize(x)
  PROVE  Sound
<1> DEFINE t == executors[x].target
<1>1. /\ executors[x].pc = "finalize" /\ t \in Submissions /\ Inv
      /\ stream' = stream /\ crashes' = crashes
  BY ActivityFacts DEF Finalize, At, ExecutorOK, SettlePcs
<1>2. RecordedSettlement(t)
  BY <1>1, ActivityFacts DEF ExecutorOwes, Owing
<1>3. \E e : Becomes(x, e)
  BY <1>1, AfterTargetBecomes DEF Finalize
<1>4. LedgerStep(None) \/ LedgerStep(t)
  BY <1>1, FinalizationMoves, NoLedgerStep DEF Finalize
<1> HIDE DEF t
<1> QED BY <1>1, <1>2, <1>3, <1>4, SubmissionsAssumption DEF Sound, StreamStep, PInv

LEMMA RecoverIsSound ==
  ASSUME PInv, NEW x \in Executors, NEW s \in Submissions, Recover(x, s)
  PROVE  Sound
<1> DEFINE e == [Idle EXCEPT !.pc = "inspect", !.sub = s, !.attempt = rows[s].attempt,
                             !.row = rows[s]]
<1>1. rows[s] \in Row /\ rows[s].attempt \in Nat
  BY RowFacts DEF PInv, Row
<1>2. e \in Executor /\ e.sub \in Submissions /\ e.pc = "inspect"
  BY <1>1 DEF Idle, Executor, Pcs
<1>3. Set(x, e)
  BY DEF Recover
<1> HIDE DEF e
<1>4. Becomes(x, e)
  BY <1>2, <1>3, WorkerBecomes
<1> QED BY <1>4, QuietStepIsSound DEF Recover

LEMMA InspectInputIsSound ==
  ASSUME PInv, NEW x \in Executors, InspectInput(x)
  PROVE  Sound
<1>1. /\ executors[x].pc = "inspect" /\ executors[x] \in Executor
      /\ executors[x].sub \in Submissions
  BY ActivityFacts DEF InspectInput, At
<1>2. CASE Set(x, SettleAs(x, "failed"))
  <2>1. \E e : Becomes(x, e)
    BY <1>1, <1>2, SettleAsBecomes DEF Outcomes
  <2> QED BY <2>1, QuietStepIsSound DEF InspectInput
<1>3. CASE Set(x, [executors[x] EXCEPT !.pc = "decide", !.found = Inspect(executors[x].sub)])
  <2> DEFINE found == Inspect(executors[x].sub)
  <2>1. found \in {None, "absent", "completed", "interrupted"}
    BY DEF Inspect
  <2> HIDE DEF found
  <2>2. "decide" \in Pcs
    BY DEF Pcs
  <2> DEFINE e == [executors[x] EXCEPT !.pc = "decide", !.found = found]
  <2>3. e \in Executor /\ e.sub \in Submissions /\ e.pc = "decide"
    BY <1>1, <2>1, <2>2 DEF Executor
  <2>4. Set(x, e)
    BY <1>3 DEF found
  <2> HIDE DEF e
  <2>5. Becomes(x, e)
    BY <2>3, <2>4, WorkerBecomes
  <2> QED BY <2>5, QuietStepIsSound DEF InspectInput
<1> QED BY <1>2, <1>3 DEF InspectInput

LEMMA DecideIsSound ==
  ASSUME PInv, NEW x \in Executors, Decide(x)
  PROVE  Sound
<1> DEFINE s == executors[x].sub
<1>1. /\ executors[x].pc = "decide" /\ s \in Submissions /\ Inv /\ lastAttempt + 1 \in Nat
      /\ stream' = stream /\ crashes' = crashes
  BY ActivityFacts DEF Decide, At, Inv, TypeOK
<1>2. ASSUME NEW outcome \in Outcomes, Set(x, SettleAs(x, outcome)), LedgerUnchanged
      PROVE  Sound
  <2>1. \E e : Becomes(x, e)
    BY <1>1, <1>2, SettleAsBecomes
  <2> QED BY <1>1, <1>2, <2>1, QuietStepIsSound
<1>3. ASSUME NEW o \in Owners, ReplaceAttempt(s, executors[x].attempt, o),
             Set(x, [Idle EXCEPT !.pc = "start", !.sub = s, !.attempt = lastAttempt + 1])
      PROVE  Sound
  <2> DEFINE e == [Idle EXCEPT !.pc = "start", !.sub = s, !.attempt = lastAttempt + 1]
  <2>1. e \in Executor /\ e.sub \in Submissions /\ e.pc = "start"
    BY <1>1, NewTaskType
  <2> HIDE DEF e
  <2>2. Becomes(x, e)
    BY <1>3, <2>1, WorkerBecomes DEF e
  <2>3. LedgerStep(None)
    BY <1>1, <1>3, NewAttemptMoves
  <2> QED BY <1>1, <2>2, <2>3, LedgerStepIsSound
<1>4. CASE Requeue(s, executors[x].attempt) /\ Set(x, Idle)
  <2>1. LedgerStep(None)
    BY <1>1, <1>4, AttemptMoves
  <2>2. Becomes(x, Idle)
    BY <1>4, IdleBecomes
  <2> QED BY <1>1, <2>1, <2>2, LedgerStepIsSound
<1>5. CASE Set(x, Idle) /\ LedgerUnchanged
  BY <1>1, <1>5, IdleBecomes, QuietStepIsSound
<1> QED BY <1>2, <1>3, <1>4, <1>5 DEF Decide

LEMMA TakeUpIsSound ==
  ASSUME PInv, NEW x \in Executors, NEW s \in Submissions, TakeUp(x, s)
  PROVE  Sound
<1> DEFINE e == [Idle EXCEPT !.pc = "check", !.sub = s, !.target = s,
                             !.attempt = rows[s].attempt, !.record = Obligation(s)]
<1>1. rows[s].status = "terminalizing" /\ Set(x, e) /\ rows' = rows
  BY DEF TakeUp, LedgerUnchanged, vars
<1>2. rows[s].attempt \in Nat
  BY RowFacts DEF PInv, Row
<1>3. Obligation(s) = Decided(s) /\ Decided(s) \in Record
  BY <1>1, DecidedType DEF Obligation, Decided
<1>4. /\ e \in Executor /\ e.pc = "check" /\ e.sub = s /\ e.target = s /\ e.record = Decided(s)
  BY <1>2, <1>3, AbsentRowType DEF Idle, Executor, Pcs, SettlePcs
<1> HIDE DEF e
<1>5. ExecutorOK(e)
  BY <1>4 DEF ExecutorOK, SettlePcs
<1>6. OwesThen(e)
  BY <1>1, <1>4 DEF OwesThen, Sealed, Decided
<1>7. Becomes(x, e)
  BY <1>1, <1>5, <1>6 DEF Becomes
<1> QED BY <1>7, QuietStepIsSound DEF TakeUp

LEMMA CrashIsSound ==
  ASSUME PInv, NEW x \in Executors, Crash(x)
  PROVE  Sound
<1>1. crashes' \in 0 .. MaxCrashes
  BY ExecutorsAssumption DEF Crash, PInv
<1>2. Becomes(x, Idle) /\ LedgerStep(None) /\ StreamStep
  BY IdleBecomes, NoLedgerStep DEF Crash, PInv, StreamStep
<1> QED BY <1>1, <1>2, SubmissionsAssumption DEF Sound

LEMMA OutsideIsSound ==
  ASSUME PInv, Outside
  PROVE  Sound
<1>1. LedgerStep(None)
  BY AdmissionMoves, OutsideMoves DEF Outside, PInv
<1> QED BY <1>1, LedgerStepIsSound DEF Outside

-----------------------------------------------------------------------------
(* The theorems *)

LEMMA InitPInv == ProcessingInit => PInv
<1> SUFFICES ASSUME ProcessingInit PROVE PInv
  OBVIOUS
<1>1. Inv
  BY InitInv DEF ProcessingInit
<1>2. \A s \in Submissions : rows[s].status = "absent"
  BY DEF ProcessingInit, Init, AbsentRow
<1>3. stream = <<>> /\ Positions = {}
  BY DEF ProcessingInit, Positions
<1>4. stream \in Seq(Record) /\ crashes \in 0 .. MaxCrashes
  BY <1>3, ExecutorsAssumption DEF ProcessingInit
<1>5. Idle \in Executor /\ Idle.pc = "idle"
  BY AbsentRowType DEF Idle, Executor, Pcs, NoAttempt
<1>6. ExecutorOK(Idle) /\ ExecutorOwes(Idle)
  BY <1>5 DEF ExecutorOK, ExecutorOwes, Owing, SettlePcs
<1>7. ExecutorsOK
  BY <1>6 DEF ExecutorsOK, ProcessingInit
<1>8. OutcomesAgree /\ RecordsLieBehind /\ AttemptsNeverReturn
  <2>1. \A s \in Submissions : rows[s].status # "settled" /\ rows[s].status # "terminalizing"
    BY <1>2
  <2> QED BY <1>3, <2>1 DEF OutcomesAgree, RecordsLieBehind, AttemptsNeverReturn
<1> QED BY <1>1, <1>4, <1>7, <1>8 DEF PInv

LEMMA StepIsSound ==
  ASSUME PInv, ProcessingNext
  PROVE  Sound
<1>1. ASSUME NEW x \in Executors, ExecutorStep(x) PROVE Sound
  BY <1>1, BeginIsSound, PersistInputIsSound, MarkIsSound, ListJoinsIsSound,
     ResolveJoinIsSound, ClaimJoinsIsSound, ApplyJoinIsSound, ConfirmJoinIsSound,
     DriveIsSound, TurnIsSound, EndIsSound, ListJoinedIsSound, LookupIsSound,
     ReserveIsSound, CheckIsSound, AppendSettlementIsSound, FinalizeIsSound,
     InspectInputIsSound, DecideIsSound
  DEF ExecutorStep
<1>2. ASSUME NEW x \in Executors, PassStep(x) PROVE Sound
  BY <1>2, StartIsSound, RecoverIsSound, TakeUpIsSound DEF PassStep
<1> QED BY <1>1, <1>2, CrashIsSound, OutsideIsSound DEF ProcessingNext

LEMMA NextPInv == PInv /\ [ProcessingNext]_pvars => PInv' /\ [Next]_vars
<1> SUFFICES ASSUME PInv, [ProcessingNext]_pvars PROVE PInv' /\ [Next]_vars
  OBVIOUS
<1>1. CASE ProcessingNext
  BY <1>1, StepIsSound, SoundKeepsPInv
<1>2. CASE UNCHANGED pvars
  <2>1. LedgerUnchanged /\ stream' = stream /\ crashes' = crashes /\ executors' = executors
    BY <1>2 DEF pvars, LedgerUnchanged, vars
  <2>2. Sound
    BY <2>1, NoLedgerStep, LedgerStepIsSound DEF PInv
  <2> QED BY <2>2, SoundKeepsPInv
<1> QED BY <1>1, <1>2

LEMMA SpecPInv == ProcessingSpec => []PInv
BY InitPInv, NextPInv, PTL DEF ProcessingSpec

\* Whatever the activities do, the ledger only takes its own steps: a task, a
\* recovery pass and the settlement outbox can break nothing the ledger
\* promises, however stale what they read.
THEOREM ProcessingFollowsLedger == ProcessingSpec => Spec
<1>1. ProcessingInit => Init
  BY DEF ProcessingInit
<1> QED BY <1>1, InitPInv, NextPInv, PTL DEF ProcessingSpec, Spec

\* So what runs, joins, settles and recovers submissions gives their callers
\* the service of AcceptedWork.
THEOREM ProcessingKeepsPromise == ProcessingSpec => PromiseIsKept
BY ProcessingFollowsLedger, LedgerKeepsPromise, PTL

\* The variables keep their types; every record names a submission.
THEOREM ProcessingTypeCorrect == ProcessingSpec => []ProcessingTypeOK
<1>1. PInv => ProcessingTypeOK
  <2> SUFFICES ASSUME PInv PROVE ProcessingTypeOK
    OBVIOUS
  <2>1. executors \in [Executors -> Executor]
    BY DEF PInv, ExecutorsOK, ExecutorOK
  <2> QED BY <2>1 DEF PInv, Inv, ProcessingTypeOK
<1> QED BY <1>1, SpecPInv, PTL

\* However many executors race to reserve, write and finalize a settlement, and
\* wherever they crash, the stream tells the outcome the row has decided, and a
\* row settles through the outbox only behind its record.
THEOREM OutcomesAlwaysAgree == ProcessingSpec => []OutcomesAgree
<1>1. PInv => OutcomesAgree
  BY DEF PInv
<1> QED BY <1>1, SpecPInv, PTL

\* A superseded attempt that wakes up writes nothing behind its successor's
\* records, and nobody writes behind a settlement.
THEOREM AttemptsGoForward == ProcessingSpec => []AttemptsNeverReturn
<1>1. PInv => AttemptsNeverReturn
  BY DEF PInv
<1> QED BY <1>1, SpecPInv, PTL

-----------------------------------------------------------------------------
(* Where the rows stand in their session *)

Joins(d, h) == rows[d].status = "joining" /\ rows[d].joinedInto = h
Joined(d, h) == rows[d].status = "joined" /\ rows[d].joinedInto = h

\* The row s may become q: a new row is the last of its session, the others
\* keep their place, and nothing leaves a decided outcome or a confirmed join.
Ordered(s, q) ==
  \/ rows[s].status = "absent" /\ q.status = "queued" /\ q.sequence = lastSequence + 1
  \/ /\ q.sequence = rows[s].sequence
     /\ q.status = "absent" <=> rows[s].status = "absent"
     /\ q.status \in UnsettledStatus => Unsettled(s)
     /\ rows[s].status = "terminalizing" => Sealed(q)
     /\ rows[s].status = "joined" =>
          Sealed(q) \/ (q.status = "joined" /\ q.joinedInto = rows[s].joinedInto)

RowsOrdered == \A s \in Submissions : Ordered(s, rows'[s])

\* The row s may become q without a join being made, confirmed or undone.
KeepsJoins(s, q) ==
  /\ q.status = "joined" => rows[s].status = "joined" /\ q.joinedInto = rows[s].joinedInto
  /\ q.status = "joining" <=> rows[s].status = "joining"
  /\ q.status = "joining" => q.joinedInto = rows[s].joinedInto
  /\ Unsettled(s) => q.status \in UnsettledStatus

RowsCalm == \A s \in Submissions : Ordered(s, rows'[s]) /\ KeepsJoins(s, rows'[s])

\* What a step leaves of the joins when it makes and confirms none.
JoinsKept(h) == \A d \in Submissions : Joins(d, h)' <=> Joins(d, h)
NoNewJoins ==
  /\ \A d, h \in Submissions : Attached(d, h)' => Attached(d, h) /\ (Unsettled(h) => Unsettled(h)')
  /\ \A d \in Submissions : rows'[d].status = "joined" => rows[d].status = "joined"
  /\ \A h \in Submissions : Unsettled(h)' => JoinsKept(h)

LEMMA SameRowIsCalm ==
  ASSUME NEW s \in Submissions
  PROVE  Ordered(s, rows[s]) /\ KeepsJoins(s, rows[s])
BY DEF Ordered, KeepsJoins, Sealed, Unsettled

LEMMA WriteIsOrdered ==
  ASSUME Inv, NEW s \in Submissions, NEW q, Ordered(s, q), rows' = [rows EXCEPT ![s] = q]
  PROVE  RowsOrdered
<1>1. \A t \in Submissions : rows'[t] = IF t = s THEN q ELSE rows[t]
  BY DEF Inv, TypeOK
<1> QED BY <1>1, SameRowIsCalm DEF RowsOrdered

LEMMA WriteIsCalm ==
  ASSUME Inv, NEW s \in Submissions, NEW q, Ordered(s, q), KeepsJoins(s, q),
         rows' = [rows EXCEPT ![s] = q]
  PROVE  RowsCalm
<1>1. \A t \in Submissions : rows'[t] = IF t = s THEN q ELSE rows[t]
  BY DEF Inv, TypeOK
<1> QED BY <1>1, SameRowIsCalm DEF RowsCalm

LEMMA CalmLeavesJoins ==
  ASSUME RowsCalm
  PROVE  RowsOrdered /\ NoNewJoins
<1>1. \A d, h \in Submissions : Attached(d, h)' => Attached(d, h)
  BY DEF RowsCalm, KeepsJoins, Attached
<1>2. \A h \in Submissions : Unsettled(h) => Unsettled(h)'
  BY DEF RowsCalm, KeepsJoins, Unsettled
<1>3. \A h \in Submissions : JoinsKept(h)
  BY DEF RowsCalm, KeepsJoins, JoinsKept, Joins
<1>4. \A d \in Submissions : rows'[d].status = "joined" => rows[d].status = "joined"
  BY DEF RowsCalm, KeepsJoins
<1> QED BY <1>1, <1>2, <1>3, <1>4 DEF RowsCalm, RowsOrdered, NoNewJoins

LEMMA SameRowsAreCalm ==
  ASSUME rows' = rows
  PROVE  RowsCalm
BY SameRowIsCalm DEF RowsCalm

LEMMA NewAttemptIsCalm ==
  ASSUME Inv, NEW s \in Submissions, NEW o,
         Claim(s, o) \/ \E a : ReplaceAttempt(s, a, o)
  PROVE  RowsCalm
<1>1. rows[s] \in Row
  BY RowFacts
<1>2. CASE Claim(s, o)
  <2> DEFINE q == Claimed(rows[s], lastAttempt + 1, o)
  <2>1. q.status = "running" /\ q.sequence = rows[s].sequence /\ rows[s].status = "queued"
    BY <1>1, <1>2 DEF Claimed, Row, Claim, Runnable
  <2> HIDE DEF q
  <2>2. Ordered(s, q) /\ KeepsJoins(s, q)
    BY <2>1 DEF Ordered, KeepsJoins, Unsettled, UnsettledStatus
  <2>3. rows' = [rows EXCEPT ![s] = q]
    BY <1>2 DEF Claim, WriteWithNewAttempt, q
  <2> QED BY <2>2, <2>3, WriteIsCalm
<1>3. ASSUME NEW a, ReplaceAttempt(s, a, o) PROVE RowsCalm
  <2> DEFINE q == Replaced(rows[s], lastAttempt + 1, o)
  <2>1. q.status = rows[s].status /\ q.sequence = rows[s].sequence /\ rows[s].status = "running"
    BY <1>1, <1>3 DEF Replaced, Row, ReplaceAttempt, Runs
  <2> HIDE DEF q
  <2>2. Ordered(s, q) /\ KeepsJoins(s, q)
    BY <2>1 DEF Ordered, KeepsJoins, Unsettled, UnsettledStatus
  <2>3. rows' = [rows EXCEPT ![s] = q]
    BY <1>3 DEF ReplaceAttempt, WriteWithNewAttempt, q
  <2> QED BY <2>2, <2>3, WriteIsCalm
<1> QED BY <1>2, <1>3

LEMMA AttemptIsCalm ==
  ASSUME Inv, NEW s \in Submissions, NEW a,
         Requeue(s, a) \/ \E d : MarkInputApplied(s, a, d)
  PROVE  RowsCalm
<1>1. rows[s] \in Row
  BY RowFacts
<1>2. CASE Requeue(s, a)
  <2> DEFINE q == Requeued(rows[s])
  <2>1. q.status = "queued" /\ q.sequence = rows[s].sequence /\ rows[s].status = "running"
    BY <1>1, <1>2 DEF Requeued, Row, Requeue, Runs
  <2> HIDE DEF q
  <2>2. Ordered(s, q) /\ KeepsJoins(s, q)
    BY <2>1 DEF Ordered, KeepsJoins, Unsettled, UnsettledStatus
  <2>3. rows' = [rows EXCEPT ![s] = q]
    BY <1>2 DEF Requeue, Write, q
  <2> QED BY <2>2, <2>3, WriteIsCalm
<1>3. ASSUME NEW d, MarkInputApplied(s, a, d) PROVE RowsCalm
  <2> DEFINE q == Stamped(rows[s], d)
  <2>1. q.status = "running" /\ q.sequence = rows[s].sequence /\ rows[s].status = "running"
    BY <1>1, <1>3 DEF Stamped, Row, MarkInputApplied, Runs
  <2> HIDE DEF q
  <2>2. Ordered(s, q) /\ KeepsJoins(s, q)
    BY <2>1 DEF Ordered, KeepsJoins, Unsettled, UnsettledStatus
  <2>3. rows' = [rows EXCEPT ![s] = q]
    BY <1>3 DEF MarkInputApplied, Write, q
  <2> QED BY <2>2, <2>3, WriteIsCalm
<1> QED BY <1>2, <1>3

LEMMA ReservationIsCalm ==
  ASSUME Inv, NEW s \in Submissions, NEW a, NEW outcome, ReserveSettlement(s, a, outcome)
  PROVE  RowsCalm
<1> DEFINE q == Reserved(rows[s], a, outcome)
<1>1. rows[s] \in Row
  BY RowFacts
<1>2. /\ q.status = "terminalizing" /\ q.sequence = rows[s].sequence
      /\ rows[s].status \in {"running", "joined"}
  BY <1>1 DEF Reserved, Row, ReserveSettlement, Runs
<1> HIDE DEF q
<1>3. Ordered(s, q) /\ KeepsJoins(s, q)
  BY <1>2 DEF Ordered, KeepsJoins, Unsettled, UnsettledStatus, Sealed
<1>4. rows' = [rows EXCEPT ![s] = q]
  BY DEF ReserveSettlement, Write, q
<1> QED BY <1>3, <1>4, WriteIsCalm

LEMMA OutsideIsCalm ==
  ASSUME Inv, Outside
  PROVE  RowsCalm
<1>1. ASSUME NEW s \in Submissions, Admit(s) PROVE RowsCalm
  <2> DEFINE q == [AbsentRow EXCEPT !.status = "queued", !.sequence = lastSequence + 1]
  <2>1. q.status = "queued" /\ q.sequence = lastSequence + 1 /\ rows[s].status = "absent"
    BY <1>1 DEF AbsentRow, Admit
  <2> HIDE DEF q
  <2>2. Ordered(s, q) /\ KeepsJoins(s, q)
    BY <2>1 DEF Ordered, KeepsJoins, Unsettled, UnsettledStatus
  <2>3. rows' = [rows EXCEPT ![s] = q]
    BY <1>1 DEF Admit, q
  <2> QED BY <2>2, <2>3, WriteIsCalm
<1>2. ASSUME NEW s \in Submissions, MarkCanonicalReady(s) PROVE RowsCalm
  <2> DEFINE q == [rows[s] EXCEPT !.ready = TRUE]
  <2>1. q.status = "queued" /\ q.sequence = rows[s].sequence /\ rows[s].status = "queued"
    BY <1>2, RowFacts DEF Row, MarkCanonicalReady
  <2> HIDE DEF q
  <2>2. Ordered(s, q) /\ KeepsJoins(s, q)
    BY <2>1 DEF Ordered, KeepsJoins, Unsettled, UnsettledStatus
  <2>3. rows' = [rows EXCEPT ![s] = q]
    BY <1>2 DEF MarkCanonicalReady, Write, q
  <2> QED BY <2>2, <2>3, WriteIsCalm
<1>3. ASSUME NEW k \in Sessions, RequestSessionAbort(k) PROVE RowsCalm
  <2>1. ASSUME NEW s \in Submissions, rows[s].status \in Abortable
        PROVE  Ordered(s, AbortedRow(rows[s])) /\ KeepsJoins(s, AbortedRow(rows[s]))
    <3> DEFINE q == AbortedRow(rows[s])
    <3>1. /\ q.sequence = rows[s].sequence /\ q.joinedInto = rows[s].joinedInto
          /\ \/ q.status = rows[s].status
             \/ q.status = "queued" /\ rows[s].status = "waiting"
      BY RowFacts DEF Row, AbortedRow
    <3> HIDE DEF q
    <3>2. Ordered(s, q) /\ KeepsJoins(s, q)
      BY <3>1 DEF Ordered, KeepsJoins, Unsettled, UnsettledStatus, Sealed
    <3> QED BY <3>2 DEF q
  <2> QED BY <1>3, <2>1, SameRowIsCalm DEF RowsCalm, RequestSessionAbort
<1>4. CASE Tick
  BY <1>4, SameRowsAreCalm DEF Tick
<1> QED BY <1>1, <1>2, <1>3, <1>4 DEF Outside

\* A settlement takes its joins along: what stays attached is attached to
\* another host, which stays.
LEMMA FinalizationLeavesJoins ==
  ASSUME Inv, NEW t \in Submissions, NEW a, FinalizeSettlement(t, a)
  PROVE  RowsOrdered /\ NoNewJoins
<1>1. PICK error : SettleWithJoins(t, error)
  BY DEF FinalizeSettlement
<1>2. rows[t].status = "terminalizing" /\ t # None
  BY SubmissionsAssumption DEF FinalizeSettlement
<1>3. ASSUME NEW s \in Submissions
      PROVE  \/ /\ s = t \/ Joined(s, t)
                /\ rows'[s].status = "settled" /\ rows'[s].sequence = rows[s].sequence
             \/ /\ s # t /\ Joins(s, t)
                /\ rows'[s].status = "queued" /\ rows'[s].sequence = rows[s].sequence
             \/ s # t /\ ~Attached(s, t) /\ rows'[s] = rows[s]
  <2>1. rows[s] \in Row /\ rows'[s] = FanOut(s, t, error)
    BY <1>1, RowFacts DEF SettleWithJoins
  <2>2. CASE s = t \/ Joined(s, t)
    BY <2>1, <2>2 DEF FanOut, Settled, Row, Joined
  <2>3. CASE s # t /\ Joins(s, t)
    BY <2>1, <2>3 DEF FanOut, Released, Row, Joins
  <2>4. CASE s # t /\ ~Joined(s, t) /\ ~Joins(s, t)
    BY <2>1, <2>4 DEF FanOut, Joined, Joins, Attached
  <2> QED BY <2>2, <2>3, <2>4
<1>4. RowsOrdered
  <2> SUFFICES ASSUME NEW s \in Submissions PROVE Ordered(s, rows'[s])
    BY DEF RowsOrdered
  <2> QED BY <1>2, <1>3, SameRowIsCalm
          DEF Ordered, Sealed, Joined, Joins, Unsettled, UnsettledStatus
<1>5. ASSUME NEW d \in Submissions, NEW h \in Submissions, Attached(d, h)'
      PROVE  Attached(d, h) /\ (Unsettled(h) => Unsettled(h)')
  <2>1. d # t /\ ~Attached(d, t) /\ rows'[d] = rows[d]
    BY <1>3, <1>5 DEF Attached
  <2>2. Attached(d, h) /\ h # t
    BY <1>5, <2>1 DEF Attached
  <2>3. ~Joined(h, t) /\ ~Joins(h, t)
    BY <1>2, <2>2 DEF Inv, JoinsFollowTheirHost, Joined, Joins
  <2> QED BY <1>3, <2>2, <2>3 DEF Unsettled
<1>6. ASSUME NEW h \in Submissions, Unsettled(h)', NEW d \in Submissions
      PROVE  Joins(d, h)' <=> Joins(d, h)
  <2>1. h # t
    BY <1>3, <1>6 DEF Unsettled, UnsettledStatus, Joins
  <2> QED BY <1>2, <1>3, <2>1 DEF Joins, Joined, Attached
<1>7. \A d \in Submissions : rows'[d].status = "joined" => rows[d].status = "joined"
  BY <1>3
<1> QED BY <1>4, <1>5, <1>6, <1>7 DEF NoNewJoins, JoinsKept

LEMMA JoinIsOrdered ==
  ASSUME Inv, NEW h \in Submissions, NEW a,
         \/ ClaimJoinable(h, a)
         \/ \E s \in Submissions : FinalizeJoined(h, a, s) \/ RevertJoining(h, a, s)
  PROVE  /\ RowsOrdered
         /\ \A g \in Submissions : g # h => JoinsKept(g)
         /\ \A d, g \in Submissions : Attached(d, g)' => Attached(d, g) \/ g = h
         /\ \A g \in Submissions : Unsettled(g) => Unsettled(g)'
<1>1. ASSUME NEW s \in Submissions
      PROVE  \/ rows'[s] = rows[s]
             \/ /\ rows'[s].sequence = rows[s].sequence
                /\ rows[s].status = "queued" /\ Joins(s, h)'
             \/ /\ rows'[s].sequence = rows[s].sequence
                /\ Joins(s, h) /\ Joined(s, h)'
             \/ /\ rows'[s].sequence = rows[s].sequence
                /\ Joins(s, h) /\ rows'[s].status = "queued" /\ rows'[s].joinedInto = None
  <2>1. rows[s] \in Row
    BY RowFacts
  <2>2. CASE ClaimJoinable(h, a)
    <3>1. CASE s \in JoinablePrefix(h)
      <4>1. rows'[s] = Joining(rows[s], h) /\ rows[s].status = "queued"
        BY <2>2, <3>1 DEF ClaimJoinable, JoinablePrefix
      <4> QED BY <2>1, <4>1 DEF Joining, Row, Joins
    <3>2. CASE s \notin JoinablePrefix(h)
      BY <2>2, <3>2 DEF ClaimJoinable
    <3> QED BY <3>1, <3>2
  <2>3. ASSUME NEW t \in Submissions, FinalizeJoined(h, a, t)
        PROVE  rows'[s] = rows[s]
               \/ (rows'[s].sequence = rows[s].sequence /\ Joins(s, h) /\ Joined(s, h)')
    <3>1. rows' = [rows EXCEPT ![t] = [rows[t] EXCEPT !.status = "joined", !.inputApplied = TRUE]]
      BY <2>3 DEF FinalizeJoined, Write
    <3>2. s # t => rows'[s] = rows[s]
      BY <3>1 DEF Inv, TypeOK
    <3>3. s = t => rows'[s] = [rows[s] EXCEPT !.status = "joined", !.inputApplied = TRUE]
      BY <3>1 DEF Inv, TypeOK
    <3>4. ASSUME s = t
          PROVE  /\ rows'[s].sequence = rows[s].sequence
                 /\ rows'[s].status = "joined" /\ rows'[s].joinedInto = rows[s].joinedInto
      BY <2>1, <3>3, <3>4 DEF Row
    <3>5. Joins(t, h)
      BY <2>3 DEF FinalizeJoined, Attached, Joins
    <3>6. CASE s = t
      BY <3>4, <3>5, <3>6 DEF Joins, Joined
    <3> QED BY <3>2, <3>6
  <2>4. ASSUME NEW t \in Submissions, RevertJoining(h, a, t)
        PROVE  rows'[s] = rows[s]
               \/ /\ rows'[s].sequence = rows[s].sequence
                  /\ Joins(s, h) /\ rows'[s].status = "queued" /\ rows'[s].joinedInto = None
    <3>1. rows' = [rows EXCEPT ![t] = Released(rows[t])]
      BY <2>4 DEF RevertJoining, Write
    <3>2. s # t => rows'[s] = rows[s]
      BY <3>1 DEF Inv, TypeOK
    <3>3. s = t => rows'[s] = Released(rows[s])
      BY <3>1 DEF Inv, TypeOK
    <3> QED BY <2>1, <2>4, <3>2, <3>3 DEF RevertJoining, Attached, Joins, Released, Row
  <2> QED BY <2>2, <2>3, <2>4
<1>2. RowsOrdered
  <2> SUFFICES ASSUME NEW s \in Submissions PROVE Ordered(s, rows'[s])
    BY DEF RowsOrdered
  <2> QED BY <1>1, SameRowIsCalm DEF Ordered, Joins, Joined, Unsettled, UnsettledStatus
<1>3. ASSUME NEW g \in Submissions, g # h, NEW d \in Submissions PROVE Joins(d, g)' <=> Joins(d, g)
  BY <1>1, <1>3 DEF Joins, Joined
<1>4. \A d, g \in Submissions : Attached(d, g)' => Attached(d, g) \/ g = h
  BY <1>1 DEF Joins, Joined, Attached
<1>5. \A g \in Submissions : Unsettled(g) => Unsettled(g)'
  BY <1>1 DEF Joins, Joined, Unsettled, UnsettledStatus
<1> QED BY <1>2, <1>3, <1>4, <1>5 DEF JoinsKept

\* Nobody gets in front of a row that was admitted.
LEMMA PlaceStays ==
  ASSUME Inv, RowsOrdered, NEW u \in Submissions, rows[u].status # "absent"
  PROVE  /\ rows'[u].status # "absent" /\ rows'[u].sequence = rows[u].sequence
         /\ \A s \in Submissions : Earlier(s, u)' /\ Unsettled(s)' => Earlier(s, u) /\ Unsettled(s)
<1>1. rows'[u].status # "absent" /\ rows'[u].sequence = rows[u].sequence
  BY DEF RowsOrdered, Ordered
<1>2. ASSUME NEW s \in Submissions, Earlier(s, u)', Unsettled(s)'
      PROVE  Earlier(s, u) /\ Unsettled(s)
  <2>1. rows[u].sequence <= lastSequence /\ rows[u].sequence \in Nat /\ lastSequence \in Nat
    BY RowFacts DEF Inv, SequencesAreUnique, TypeOK, Row
  <2>2. rows'[s].sequence < rows[u].sequence /\ SameSession(u, s)
    BY <1>1, <1>2 DEF Earlier, SameSession
  <2>3. rows'[s].sequence # lastSequence + 1
    BY <2>1, <2>2
  <2>4. rows'[s].sequence = rows[s].sequence /\ Unsettled(s)
    BY <1>2, <2>3 DEF RowsOrdered, Ordered, Unsettled
  <2> QED BY <2>2, <2>4 DEF Earlier
<1> QED BY <1>1, <1>2

-----------------------------------------------------------------------------
(* Why inputs land in order *)

TaskPcs == {"start"} \cup SessionPcs

\* Two tasks never run under one attempt.
TasksDiffer ==
  \A x \in Executors : executors[x].pc \in TaskPcs =>
    /\ executors[x].attempt <= lastAttempt
    /\ \A y \in Executors \ {x} :
         executors[y].pc \in TaskPcs => executors[y].attempt # executors[x].attempt

\* Nothing unsettled stands between the host h and its delivery d but what
\* joins with it (S), has joined, or is being settled.
Clear(d, h, S) ==
  \A u \in Submissions : Earlier(u, d) /\ Unsettled(u) =>
    u = h \/ u \in S \/ rows[u].status = "terminalizing" \/ Joined(u, h)

NoneJoins(h) == \A d \in Submissions : ~Joins(d, h)
Listed(h, S) == \A d \in Submissions : Joins(d, h) => d \in S
InLine(h, S) == \A d \in S : Joins(d, h) /\ Clear(d, h, S)

\* What an activity that runs an attempt for h knows of the joins into it.
Knows(h, pc, S) ==
  /\ pc \in {"wakeJoins", "joins", "drive", "turn"} => NoneJoins(h)
  /\ pc \in {"resolve", "join", "confirm"} => Listed(h, S)
  /\ pc \in {"join", "confirm"} => InLine(h, S)
  /\ pc = "confirm" => \A d \in First(S) : Persisted(d)

Orderly(x) ==
  LET e == executors[x] IN
  /\ e.pc \in SessionPcs \ {"input"} => Persisted(e.sub)
  /\ e.pc \in SessionPcs /\ Mine(x) => Knows(e.sub, e.pc, e.todo)

HostsAreUnsettled == \A d, h \in Submissions : Attached(d, h) => Unsettled(h)
JoinedArePersisted == \A d \in Submissions : rows[d].status = "joined" => Persisted(d)
RecordsAreAdmitted == \A i \in Positions : rows[stream[i].submission].status # "absent"

\* Where an input landed, no earlier submission still waits to land its own.
NoneIsPassed ==
  \A s, u \in Submissions :
    Persisted(u) /\ Earlier(s, u) /\ Unsettled(s) =>
      Persisted(s) \/ rows[s].status = "terminalizing"

OrderInv ==
  /\ PInv
  /\ TasksDiffer
  /\ \A x \in Executors : Orderly(x)
  /\ HostsAreUnsettled
  /\ JoinedArePersisted
  /\ RecordsAreAdmitted
  /\ NoneIsPassed
  /\ InputsLandInOrder

StreamInOrder == RecordsAreAdmitted /\ NoneIsPassed /\ InputsLandInOrder

LEMMA PersistedFacts ==
  ASSUME OrderInv, NEW s \in Submissions, Persisted(s)
  PROVE  rows[s].status # "absent"
BY DEF OrderInv, RecordsAreAdmitted, Persisted, InputAt

LEMMA ClearStays ==
  ASSUME Inv, RowsOrdered, NEW d \in Submissions, NEW h, NEW S,
         rows[d].status # "absent", Clear(d, h, S)
  PROVE  Clear(d, h, S)'
<1> SUFFICES ASSUME NEW u \in Submissions, Earlier(u, d)', Unsettled(u)'
             PROVE  u = h \/ u \in S \/ rows'[u].status = "terminalizing" \/ Joined(u, h)'
  BY DEF Clear
<1>1. Earlier(u, d) /\ Unsettled(u)
  BY PlaceStays
<1>2. u = h \/ u \in S \/ rows[u].status = "terminalizing" \/ Joined(u, h)
  BY <1>1 DEF Clear
<1>3. Ordered(u, rows'[u]) /\ rows[u].status # "absent"
  BY <1>1 DEF RowsOrdered, Unsettled, UnsettledStatus
<1>4. Sealed(rows'[u]) => rows'[u].status = "terminalizing"
  BY DEF Unsettled, UnsettledStatus, Sealed
<1> QED BY <1>2, <1>3, <1>4 DEF Ordered, Joined

LEMMA RowsKeepOrder ==
  ASSUME OrderInv, RowsOrdered, stream' = stream
  PROVE  StreamInOrder'
<1>1. Inv /\ stream \in Seq(Record)
  BY DEF OrderInv, PInv
<1>2. \A s : Persisted(s)' <=> Persisted(s)
  BY DEF Persisted, InputAt, Positions
<1>3. RecordsAreAdmitted'
  <2> SUFFICES ASSUME NEW i \in Positions PROVE rows'[stream[i].submission].status # "absent"
    BY DEF RecordsAreAdmitted, Positions
  <2>1. stream[i].submission \in Submissions /\ rows[stream[i].submission].status # "absent"
    BY <1>1, StreamFacts DEF OrderInv, RecordsAreAdmitted
  <2> QED BY <1>1, <2>1, PlaceStays
<1>4. NoneIsPassed'
  <2> SUFFICES ASSUME NEW s \in Submissions, NEW u \in Submissions,
                      Persisted(u), Earlier(s, u)', Unsettled(s)'
               PROVE  Persisted(s) \/ rows'[s].status = "terminalizing"
    BY <1>2 DEF NoneIsPassed
  <2>1. Earlier(s, u) /\ Unsettled(s)
    BY <1>1, PersistedFacts, PlaceStays
  <2>2. Persisted(s) \/ rows[s].status = "terminalizing"
    BY <2>1 DEF OrderInv, NoneIsPassed
  <2> QED BY <2>2 DEF RowsOrdered, Ordered, Sealed, Unsettled, UnsettledStatus
<1>5. InputsLandInOrder'
  <2> SUFFICES ASSUME NEW i \in Positions, NEW j \in Positions,
                      i < j, stream[i].type = "input", stream[j].type = "input",
                      SameSession(stream[i].submission, stream[j].submission)
               PROVE  rows'[stream[i].submission].sequence < rows'[stream[j].submission].sequence
    BY DEF InputsLandInOrder, Positions, SameSession
  <2>1. \A k \in Positions :
          rows'[stream[k].submission].sequence = rows[stream[k].submission].sequence
    BY <1>1, StreamFacts, PlaceStays DEF OrderInv, RecordsAreAdmitted
  <2> QED BY <2>1 DEF OrderInv, InputsLandInOrder
<1> QED BY <1>3, <1>4, <1>5 DEF StreamInOrder

\* A submission that may land its input.
MayLand(s) ==
  /\ Unsettled(s) /\ rows[s].status # "terminalizing" /\ ~Persisted(s)
  /\ \A u \in Submissions : Earlier(u, s) /\ Unsettled(u) =>
       Persisted(u) \/ rows[u].status = "terminalizing"

LEMMA RecordKeepsOrder ==
  ASSUME OrderInv, rows' = rows, NEW r \in Record, stream' = Append(stream, r),
         rows[r.submission].status # "absent",
         r.type = "input" => MayLand(r.submission)
  PROVE  StreamInOrder'
<1> DEFINE n == Len(stream) + 1
           v == r.submission
<1>1. Inv /\ stream \in Seq(Record) /\ v \in Submissions
  BY DEF OrderInv, PInv, Record
<1>2. /\ Positions' = Positions \cup {n} /\ n \notin Positions
      /\ stream'[n] = r /\ \A i \in Positions : stream'[i] = stream[i] /\ i < n
  BY <1>1 DEF Positions
<1>3. \A s : Persisted(s)' <=> Persisted(s) \/ (r.type = "input" /\ s = v)
  BY <1>2 DEF Persisted, InputAt
<1> HIDE DEF n
<1>4. RecordsAreAdmitted'
  BY <1>2 DEF RecordsAreAdmitted, OrderInv
<1>5. NoneIsPassed'
  <2> SUFFICES ASSUME NEW s \in Submissions, NEW u \in Submissions,
                      Persisted(u)', Earlier(s, u), Unsettled(s)
               PROVE  Persisted(s) \/ rows[s].status = "terminalizing"
    BY <1>3 DEF NoneIsPassed, Earlier, SameSession, Unsettled
  <2>1. CASE Persisted(u)
    BY <2>1 DEF OrderInv, NoneIsPassed
  <2>2. CASE r.type = "input" /\ u = v
    BY <2>2 DEF MayLand
  <2> QED BY <1>3, <2>1, <2>2
<1>6. InputsLandInOrder'
  <2> SUFFICES ASSUME NEW i \in Positions', NEW j \in Positions',
                      i < j, stream'[i].type = "input", stream'[j].type = "input",
                      SameSession(stream'[i].submission, stream'[j].submission)
               PROVE  rows[stream'[i].submission].sequence < rows[stream'[j].submission].sequence
    BY DEF InputsLandInOrder, SameSession
  <2>1. CASE j \in Positions
    <3>1. i \in Positions
      BY <1>1, <1>2, <2>1, StreamFacts DEF n
    <3> QED BY <1>2, <2>1, <3>1 DEF OrderInv, InputsLandInOrder
  <2>2. CASE j = n
    <3>1. i \in Positions
      BY <1>1, <1>2, <2>2 DEF n
    <3>2. PICK u \in Submissions : u = stream[i].submission
      BY <1>1, <3>1, StreamFacts
    <3>3. Persisted(u) /\ MayLand(v) /\ SameSession(u, v)
      BY <1>2, <2>2, <3>1, <3>2 DEF Persisted, InputAt
    <3>4. rows[u].status # "absent" /\ u # v
      BY <3>3, PersistedFacts DEF MayLand
    <3>5. rows[u].sequence \in Nat /\ rows[v].sequence \in Nat
      BY <1>1, RowFacts DEF Row
    <3>6. rows[u].sequence # rows[v].sequence
      BY <1>1, <3>4 DEF Inv, SequencesAreUnique
    <3>7. ~Earlier(v, u)
      BY <1>1, <3>3 DEF OrderInv, NoneIsPassed, MayLand
    <3>8. rows[u].sequence < rows[v].sequence
      BY <3>3, <3>5, <3>6, <3>7 DEF Earlier, SameSession
    <3> QED BY <1>2, <2>2, <3>1, <3>2, <3>8
  <2> QED BY <1>2, <2>1, <2>2
<1> QED BY <1>4, <1>5, <1>6 DEF StreamInOrder

\* Activity x takes a step; a task it starts has a new attempt.
Only(x) == \A y \in Executors : y # x => executors'[y] = executors[y]
TaskGoes(x) ==
  executors'[x].pc \in TaskPcs =>
    \/ executors[x].pc \in TaskPcs /\ executors'[x].attempt = executors[x].attempt
    \/ executors'[x].attempt = lastAttempt + 1 /\ lastAttempt' = lastAttempt + 1

LEMMA SetFacts ==
  ASSUME PInv, NEW x \in Executors, NEW e, Set(x, e)
  PROVE  Only(x) /\ executors'[x] = e
BY DEF Set, Only, PInv, ExecutorsOK

LEMMA TasksStayApart ==
  ASSUME OrderInv, lastAttempt' \in {lastAttempt, lastAttempt + 1},
         NEW x \in Executors, Only(x), TaskGoes(x)
  PROVE  TasksDiffer'
<1>1. /\ lastAttempt \in Nat /\ lastAttempt <= lastAttempt'
      /\ \A z \in Executors : executors[z].attempt \in Nat
  BY ActivityFacts DEF OrderInv, PInv, Inv, TypeOK
<1>2. ASSUME NEW z \in Executors, executors'[z].pc \in TaskPcs
      PROVE  \/ /\ executors[z].pc \in TaskPcs /\ executors'[z].attempt = executors[z].attempt
                /\ executors[z].attempt <= lastAttempt
             \/ z = x /\ executors'[z].attempt = lastAttempt + 1 /\ lastAttempt' = lastAttempt + 1
  BY <1>2 DEF Only, TaskGoes, OrderInv, TasksDiffer
<1> SUFFICES ASSUME NEW z \in Executors, executors'[z].pc \in TaskPcs
             PROVE  /\ executors'[z].attempt <= lastAttempt'
                    /\ \A y \in Executors \ {z} :
                         executors'[y].pc \in TaskPcs => executors'[y].attempt # executors'[z].attempt
  BY DEF TasksDiffer
<1>3. executors'[z].attempt <= lastAttempt'
  BY <1>1, <1>2
<1>4. ASSUME NEW y \in Executors \ {z}, executors'[y].pc \in TaskPcs
      PROVE  executors'[y].attempt # executors'[z].attempt
  <2>1. executors[y].pc \in TaskPcs /\ executors[z].pc \in TaskPcs
          => executors[y].attempt # executors[z].attempt
    BY <1>4 DEF OrderInv, TasksDiffer
  <2> QED BY <1>1, <1>2, <1>4, <2>1
<1> QED BY <1>3, <1>4

\* Who runs under an attempt that was generated ran before.
LEMMA RanBefore ==
  ASSUME OrderInv, Sound, NEW h \in Submissions, NEW a, a <= lastAttempt, Runs(h, a)'
  PROVE  Runs(h, a)
<1>1. PICK t : LedgerStep(t)
  BY DEF Sound
<1>2. Moves(h, rows'[h], t) /\ rows'[h].status = "running" /\ rows'[h].attempt = a
  BY <1>1 DEF LedgerStep, RowsMove, Runs
<1>3. lastAttempt \in Nat
  BY DEF OrderInv, PInv, Inv, TypeOK
<1> QED BY <1>2, <1>3 DEF Moves

LEMMA PersistedStays ==
  ASSUME OrderInv, Sound, NEW s, Persisted(s)
  PROVE  Persisted(s)'
BY StreamGrows DEF Sound, OrderInv, PInv, Persisted, InputAt

LEMMA FirstStays ==
  ASSUME Inv, RowsOrdered, NEW S \in SUBSET Submissions, \A d \in S : rows[d].status # "absent"
  PROVE  First(S)' = First(S)
<1>1. \A d \in S : rows'[d].sequence = rows[d].sequence
  BY PlaceStays
<1> QED BY <1>1 DEF First

LEMMA InLineStays ==
  ASSUME Inv, RowsOrdered, NEW h \in Submissions, NEW S \in SUBSET Submissions,
         JoinsKept(h), InLine(h, S)
  PROVE  InLine(h, S)' /\ First(S)' = First(S)
<1>1. ASSUME NEW d \in S
      PROVE  /\ d \in Submissions /\ Joins(d, h) /\ Clear(d, h, S) /\ rows[d].status # "absent"
             /\ Joins(d, h)'
  BY DEF InLine, Joins, JoinsKept
<1>2. \A d \in S : Clear(d, h, S)'
  BY <1>1, ClearStays
<1>3. First(S)' = First(S)
  BY <1>1, FirstStays
<1> QED BY <1>1, <1>2, <1>3 DEF InLine

\* What an activity knows stays true while others step, as long as they leave
\* the joins into its submission alone.
LEMMA OtherStaysOrderly ==
  ASSUME OrderInv, Sound, RowsOrdered, NEW y \in Executors, executors'[y] = executors[y],
         NEW h, h = executors[y].sub,
         executors[y].pc \in SessionPcs /\ Mine(y) /\ Mine(y)' => JoinsKept(h)
  PROVE  Orderly(y)'
<1> SUFFICES ASSUME executors[y].pc \in SessionPcs
             PROVE  Orderly(y)'
  BY DEF Orderly
<1>1. /\ Inv /\ executors[y].sub \in Submissions /\ executors[y].todo \in SUBSET Submissions
      /\ executors[y].attempt <= lastAttempt
  BY ActivityFacts DEF OrderInv, TasksDiffer, TaskPcs, SessionPcs
<1>2. h \in Submissions
  BY <1>1
<1>3. PICK S \in SUBSET Submissions : S = executors[y].todo
  BY <1>1
<1>4. PICK pc : pc = executors[y].pc
  OBVIOUS
<1>5. PICK a : a = executors[y].attempt
  OBVIOUS
<1>6. Orderly(y)
  BY DEF OrderInv
<1>7. pc \in SessionPcs \ {"input"} => Persisted(h)'
  BY <1>2, <1>4, <1>6, PersistedStays DEF Orderly
<1>8. ASSUME Runs(h, a)' PROVE Knows(h, pc, S)'
  <2>1. Runs(h, a)
    BY <1>1, <1>5, <1>8, RanBefore
  <2>2. JoinsKept(h)
    BY <1>2, <1>5, <1>8, <2>1 DEF Mine
  <2>3. Knows(h, pc, S)
    BY <1>2, <1>3, <1>4, <1>5, <1>6, <2>1 DEF Orderly, Mine
  <2>4. /\ pc \in {"wakeJoins", "joins", "drive", "turn"} => NoneJoins(h)'
        /\ pc \in {"resolve", "join", "confirm"} => Listed(h, S)'
    BY <2>2, <2>3 DEF Knows, NoneJoins, Listed, JoinsKept
  <2>5. ASSUME pc \in {"join", "confirm"}
        PROVE  InLine(h, S)' /\ (pc = "confirm" => \A d \in First(S)' : Persisted(d)')
    BY <1>1, <2>2, <2>3, <2>5, InLineStays, PersistedStays DEF Knows
  <2> QED BY <2>4, <2>5 DEF Knows
<1> QED BY <1>2, <1>3, <1>4, <1>5, <1>7, <1>8 DEF Orderly, Mine

LEMMA StepKeepsOrder ==
  ASSUME OrderInv, Sound, RowsOrdered, StreamInOrder', HostsAreUnsettled', JoinedArePersisted',
         NEW x \in Executors, Only(x), TaskGoes(x), Orderly(x)',
         \A y \in Executors : \A h :
           y # x /\ h = executors[y].sub /\ executors[y].pc \in SessionPcs /\ Mine(y) /\ Mine(y)'
             => JoinsKept(h)
  PROVE  OrderInv'
<1>1. PInv'
  BY SoundKeepsPInv DEF OrderInv
<1>2. TasksDiffer'
  BY TasksStayApart DEF Sound, LedgerStep
<1>3. ASSUME NEW y \in Executors PROVE Orderly(y)'
  <2>1. PICK h : h = executors[y].sub
    OBVIOUS
  <2> QED BY <2>1, OtherStaysOrderly DEF Only
<1> QED BY <1>1, <1>2, <1>3 DEF OrderInv, StreamInOrder

LEMMA NoNewJoinsKeepHosts ==
  ASSUME OrderInv, Sound, NoNewJoins
  PROVE  HostsAreUnsettled' /\ JoinedArePersisted'
<1>1. HostsAreUnsettled'
  BY DEF NoNewJoins, OrderInv, HostsAreUnsettled
<1>2. JoinedArePersisted'
  BY PersistedStays DEF NoNewJoins, OrderInv, JoinedArePersisted
<1> QED BY <1>1, <1>2

LEMMA SettlesNoRunner ==
  ASSUME OrderInv, NoNewJoins, NEW y \in Executors, executors[y].pc \in SessionPcs,
         executors'[y] = executors[y], Mine(y)', NEW h, h = executors[y].sub
  PROVE  JoinsKept(h)
<1>1. h \in Submissions
  BY ActivityFacts DEF OrderInv, SessionPcs
<1>2. Unsettled(h)'
  BY <1>1 DEF Mine, Runs, Unsettled, UnsettledStatus
<1> QED BY <1>1, <1>2 DEF NoNewJoins

\* A step that makes no join.
LEMMA CalmStepKeepsOrder ==
  ASSUME OrderInv, Sound, RowsOrdered, NoNewJoins, StreamInOrder',
         NEW x \in Executors, Only(x), TaskGoes(x), Orderly(x)'
  PROVE  OrderInv'
BY NoNewJoinsKeepHosts, SettlesNoRunner, StepKeepsOrder DEF Only

\* ... and takes its activity out of the run of an attempt, or not into it yet.
LEMMA BareStepKeepsOrder ==
  ASSUME OrderInv, Sound, RowsOrdered, NoNewJoins, StreamInOrder',
         NEW x \in Executors, Only(x), TaskGoes(x),
         executors'[x].pc \notin SessionPcs \ {"input"}
  PROVE  OrderInv'
<1>1. Orderly(x)'
  BY DEF Orderly, Knows
<1> QED BY <1>1, CalmStepKeepsOrder

\* A step of the activity that runs h makes, confirms or undoes a join into h.
LEMMA JoinStepKeepsOrder ==
  ASSUME OrderInv, Sound, stream' = stream, NEW x \in Executors, NEW h \in Submissions,
         h = executors[x].sub, executors[x].pc \in SessionPcs, NEW a,
         \/ ClaimJoinable(h, a)
         \/ \E s \in Submissions : FinalizeJoined(h, a, s) \/ RevertJoining(h, a, s),
         a = executors[x].attempt,
         JoinedArePersisted', Only(x), TaskGoes(x), Orderly(x)'
  PROVE  OrderInv'
<1>1. /\ RowsOrdered
      /\ \A g \in Submissions : g # h => JoinsKept(g)
      /\ \A d, g \in Submissions : Attached(d, g)' => Attached(d, g) \/ g = h
      /\ \A g \in Submissions : Unsettled(g) => Unsettled(g)'
  BY JoinIsOrdered DEF OrderInv, PInv
<1>2. Runs(h, a)
  BY DEF ClaimJoinable, FinalizeJoined, RevertJoining
<1>3. HostsAreUnsettled'
  BY <1>1, <1>2 DEF OrderInv, HostsAreUnsettled, Runs, Unsettled, UnsettledStatus
<1>4. ASSUME NEW y \in Executors, NEW g, y # x, g = executors[y].sub,
             executors[y].pc \in SessionPcs, Mine(y)
      PROVE  JoinsKept(g)
  <2>1. g \in Submissions
    BY <1>4, ActivityFacts DEF OrderInv, SessionPcs
  <2>2. g # h
    BY <1>2, <1>4 DEF OrderInv, TasksDiffer, TaskPcs, Mine, Runs
  <2> QED BY <1>1, <2>1, <2>2
<1>5. StreamInOrder'
  BY <1>1, RowsKeepOrder
<1> QED BY <1>1, <1>3, <1>4, <1>5, StepKeepsOrder

LEMMA OutsideKeepsOrder ==
  ASSUME OrderInv, Outside \/ UNCHANGED pvars
  PROVE  OrderInv'
<1>1. Sound /\ RowsCalm /\ stream' = stream /\ executors' = executors
  <2>1. CASE Outside
    BY <2>1, OutsideIsSound, OutsideIsCalm DEF Outside, OrderInv, PInv
  <2>2. CASE UNCHANGED pvars
    <3>1. LedgerUnchanged /\ stream' = stream /\ crashes' = crashes /\ executors' = executors
      BY <2>2 DEF pvars, LedgerUnchanged, vars
    <3>2. Sound
      BY <3>1, NoLedgerStep, LedgerStepIsSound DEF OrderInv, PInv
    <3> QED BY <3>1, <3>2, SameRowsAreCalm DEF LedgerUnchanged, vars
  <2> QED BY <2>1, <2>2
<1>2. RowsOrdered /\ NoNewJoins
  BY <1>1, CalmLeavesJoins
<1>3. \A y \in Executors : Orderly(y)'
  BY <1>1, <1>2, SettlesNoRunner, OtherStaysOrderly
<1>4. TasksDiffer'
  <2>1. lastAttempt' \in {lastAttempt, lastAttempt + 1} /\ lastAttempt \in Nat
    BY <1>1 DEF Sound, LedgerStep, OrderInv, PInv, Inv, TypeOK
  <2> QED BY <1>1, <2>1, ActivityFacts DEF OrderInv, TasksDiffer
<1> QED BY <1>1, <1>2, <1>3, <1>4, SoundKeepsPInv, NoNewJoinsKeepHosts, RowsKeepOrder
        DEF OrderInv, StreamInOrder

LEMMA PcFacts ==
  ASSUME PInv, NEW x \in Executors
  PROVE  /\ Idle.pc = "idle" /\ Caught(x).pc = "caught"
         /\ \A outcome : SettleAs(x, outcome).pc = "listJoined"
         /\ \A pc : [executors[x] EXCEPT !.pc = pc].pc = pc
<1>1. executors[x] \in Executor
  BY ActivityFacts
<1> QED BY <1>1 DEF Idle, Caught, SettleAs, Executor

LEMMA AsideStepKeepsOrder ==
  ASSUME OrderInv, Sound, RowsOrdered, NoNewJoins, stream' = stream,
         NEW x \in Executors, NEW e, Set(x, e), e.pc \notin TaskPcs
  PROVE  OrderInv'
<1>1. Only(x) /\ executors'[x] = e
  BY SetFacts DEF OrderInv
<1>2. TaskGoes(x) /\ executors'[x].pc \notin SessionPcs
  BY <1>1 DEF TaskGoes, TaskPcs
<1> QED BY <1>1, <1>2, RowsKeepOrder, BareStepKeepsOrder

LEMMA UnwrittenLedger ==
  ASSUME LedgerUnchanged
  PROVE  rows' = rows /\ RowsOrdered /\ NoNewJoins
BY SameRowsAreCalm, CalmLeavesJoins DEF LedgerUnchanged, vars

\* A step that makes no join, writes no record, and after which x runs no attempt.
Aside(x) ==
  /\ Sound /\ RowsOrdered /\ NoNewJoins /\ stream' = stream
  /\ \E e : Set(x, e) /\ e.pc \notin TaskPcs

\* An activity outside the run of an attempt looks around.
Looks(x) ==
  \/ Throw(x) \/ EndRun(x) \/ ListJoined(x) \/ Lookup(x) \/ Check(x)
  \/ InspectInput(x) \/ Crash(x)
  \/ \E s \in Submissions : Recover(x, s) \/ TakeUp(x, s)

LEMMA LooksAside ==
  ASSUME PInv, NEW x \in Executors, Looks(x)
  PROVE  Aside(x)
<1> USE DEF TaskPcs, SessionPcs
<1>1. PInv /\ executors[x] \in Executor
  BY ActivityFacts
<1>2. Sound
  BY SMTT(40), <1>1, EndIsSound, ListJoinedIsSound, LookupIsSound, CheckIsSound, InspectInputIsSound,
     CrashIsSound, RecoverIsSound, TakeUpIsSound DEF Looks
<1>3. LedgerUnchanged /\ stream' = stream
  BY DEF Looks, Throw, EndRun, ListJoined, Lookup, Check, InspectInput, Crash, Recover, TakeUp
<1>4. \E e : Set(x, e) /\ e.pc \notin TaskPcs
  <2>1. CASE Throw(x)
    BY <1>1, <2>1, PcFacts DEF Throw
  <2>2. CASE EndRun(x)
    BY <1>1, <2>2, PcFacts DEF EndRun, Ended
  <2>3. CASE ListJoined(x)
    <3> DEFINE S == {s \in Submissions : Attached(s, executors[x].sub) /\ rows[s].status = "joined"}
    <3>1. PICK s : Set(x, [executors[x] EXCEPT !.pc = "lookup", !.todo = S, !.record = None,
                                               !.target = s])
      BY <2>3 DEF ListJoined, SettleNext
    <3> HIDE DEF S
    <3>2. [executors[x] EXCEPT !.pc = "lookup", !.todo = S, !.record = None, !.target = s].pc
            = "lookup"
      BY <1>1 DEF Executor
    <3> QED BY <3>1, <3>2
  <2>4. CASE Lookup(x)
    <3> DEFINE owed == Obligation(executors[x].target)
               pc == IF owed = None THEN "reserve" ELSE "check"
    <3>1. Set(x, [executors[x] EXCEPT !.record = owed, !.pc = pc])
      BY <2>4 DEF Lookup
    <3>2. pc \in {"reserve", "check"}
      OBVIOUS
    <3> HIDE DEF owed, pc
    <3>3. [executors[x] EXCEPT !.record = owed, !.pc = pc].pc = pc
      BY <1>1 DEF Executor
    <3> QED BY <3>1, <3>2, <3>3
  <2>5. CASE Check(x)
    BY <1>1, <2>5, PcFacts DEF Check, Go
  <2>6. CASE InspectInput(x)
    <3>1. \A found : [executors[x] EXCEPT !.pc = "decide", !.found = found].pc = "decide"
      BY <1>1 DEF Executor
    <3> QED BY <1>1, <2>6, <3>1, PcFacts DEF InspectInput
  <2>7. CASE Crash(x)
    BY <1>1, <2>7, PcFacts DEF Crash
  <2>8. ASSUME NEW s \in Submissions, Recover(x, s) \/ TakeUp(x, s)
        PROVE  \E e : Set(x, e) /\ e.pc \notin TaskPcs
    <3>1. CASE Recover(x, s)
      <4> DEFINE e == [Idle EXCEPT !.pc = "inspect", !.sub = s, !.attempt = rows[s].attempt,
                                   !.row = rows[s]]
      <4>1. Set(x, e) /\ e.pc = "inspect"
        BY <3>1 DEF Recover, Idle
      <4> QED BY <4>1
    <3>2. CASE TakeUp(x, s)
      <4> DEFINE e == [Idle EXCEPT !.pc = "check", !.sub = s, !.target = s,
                                   !.attempt = rows[s].attempt, !.record = Obligation(s)]
      <4>1. Set(x, e) /\ e.pc = "check"
        BY <3>2 DEF TakeUp, Idle
      <4> QED BY <4>1
    <3> QED BY <2>8, <3>1, <3>2
  <2> QED BY <2>1, <2>2, <2>3, <2>4, <2>5, <2>6, <2>7, <2>8 DEF Looks
<1> QED BY <1>2, <1>3, <1>4, UnwrittenLedger DEF Aside

LEMMA SettlementPcs ==
  ASSUME PInv, NEW x \in Executors, AfterTarget(x)
  PROVE  \E e : Set(x, e) /\ e.pc \notin TaskPcs
<1> USE DEF TaskPcs, SessionPcs
<1>1. executors[x] \in Executor
  BY ActivityFacts
<1>2. CASE Set(x, Idle)
  BY <1>2, PcFacts
<1>3. CASE SettleNext(x, executors[x].todo \ {executors[x].target})
  <2> DEFINE S == executors[x].todo \ {executors[x].target}
  <2>1. PICK s : Set(x, [executors[x] EXCEPT !.pc = "lookup", !.todo = S, !.record = None,
                                             !.target = s])
    BY <1>3 DEF SettleNext
  <2> HIDE DEF S
  <2>2. [executors[x] EXCEPT !.pc = "lookup", !.todo = S, !.record = None, !.target = s].pc
          = "lookup"
    BY <1>1 DEF Executor
  <2> QED BY <2>1, <2>2
<1> QED BY <1>2, <1>3 DEF AfterTarget

LEMMA SettlesAside ==
  ASSUME PInv, NEW x \in Executors, Reserve(x) \/ Finalize(x)
  PROVE  Aside(x)
<1>1. PInv /\ Inv /\ executors[x] \in Executor /\ stream' = stream
  BY ActivityFacts DEF Reserve, Finalize
<1>2. Sound
  BY <1>1, ReserveIsSound, FinalizeIsSound
<1>3. executors[x].target \in Submissions
  BY ActivityFacts DEF Reserve, Finalize, At, ExecutorOK, SettlePcs
<1>4. RowsOrdered /\ NoNewJoins
  BY <1>1, <1>3, ReservationIsCalm, CalmLeavesJoins, UnwrittenLedger, FinalizationLeavesJoins
  DEF Reserve, Finalize
<1>5. \E e : Set(x, e) /\ e.pc \notin TaskPcs
  <2>1. CASE AfterTarget(x)
    BY <1>1, <2>1, SettlementPcs
  <2>2. \A r : [executors[x] EXCEPT !.pc = "check", !.record = r].pc = "check"
    BY <1>1 DEF Executor
  <2> QED BY <2>1, <2>2 DEF Reserve, Finalize, TaskPcs, SessionPcs
<1> QED BY <1>1, <1>2, <1>4, <1>5 DEF Aside

LEMMA AsideKeepsOrder ==
  ASSUME OrderInv, NEW x \in Executors, Aside(x)
  PROVE  OrderInv'
BY AsideStepKeepsOrder DEF Aside

\* A task starts under the attempt that was just generated.
LEMMA NewTaskKeepsOrder ==
  ASSUME OrderInv, Sound, NEW x \in Executors, NEW s \in Submissions, NEW o,
         Claim(s, o) \/ \E a : ReplaceAttempt(s, a, o), stream' = stream,
         Set(x, [Idle EXCEPT !.pc = "start", !.sub = s, !.attempt = lastAttempt + 1])
  PROVE  OrderInv'
<1>1. RowsOrdered /\ NoNewJoins
  BY NewAttemptIsCalm, CalmLeavesJoins DEF OrderInv, PInv
<1>2. lastAttempt' = lastAttempt + 1
  BY DEF Claim, ReplaceAttempt, WriteWithNewAttempt
<1>3. Only(x) /\ executors'[x].pc = "start" /\ executors'[x].attempt = lastAttempt + 1
  <2> DEFINE e == [Idle EXCEPT !.pc = "start", !.sub = s, !.attempt = lastAttempt + 1]
  <2>1. e.pc = "start" /\ e.attempt = lastAttempt + 1
    BY DEF Idle
  <2> HIDE DEF e
  <2>2. Set(x, e)
    BY DEF e
  <2> QED BY <2>1, <2>2, SetFacts DEF OrderInv
<1>4. TaskGoes(x) /\ executors'[x].pc \notin SessionPcs
  BY <1>2, <1>3 DEF TaskGoes, SessionPcs
<1> QED BY <1>1, <1>3, <1>4, RowsKeepOrder, BareStepKeepsOrder

LEMMA StartKeepsOrder ==
  ASSUME OrderInv, NEW x \in Executors, NEW s \in Submissions, NEW o \in Owners, Start(x, s, o)
  PROVE  OrderInv'
BY StartIsSound, NewTaskKeepsOrder DEF Start, OrderInv

LEMMA DecideKeepsOrder ==
  ASSUME OrderInv, NEW x \in Executors, Decide(x)
  PROVE  OrderInv'
<1>1. PInv /\ Inv /\ executors[x].sub \in Submissions /\ stream' = stream /\ Sound
  BY ActivityFacts, DecideIsSound DEF OrderInv, Decide, At
<1>2. ASSUME NEW e, Set(x, e), e.pc \notin TaskPcs,
             LedgerUnchanged \/ Requeue(executors[x].sub, executors[x].attempt)
      PROVE  OrderInv'
  BY <1>1, <1>2, UnwrittenLedger, AttemptIsCalm, CalmLeavesJoins, AsideStepKeepsOrder
<1>3. \A outcome : SettleAs(x, outcome).pc \notin TaskPcs
  BY <1>1, PcFacts DEF TaskPcs, SessionPcs
<1>4. Idle.pc \notin TaskPcs
  BY <1>1, PcFacts DEF TaskPcs, SessionPcs
<1> QED BY <1>1, <1>2, <1>3, <1>4, NewTaskKeepsOrder DEF Decide

LEMMA BeginKeepsOrder ==
  ASSUME OrderInv, NEW x \in Executors, Begin(x)
  PROVE  OrderInv'
<1>1. PInv /\ stream' = stream /\ Sound /\ LedgerUnchanged /\ executors[x].pc = "start"
  BY BeginIsSound DEF OrderInv, Begin, At
<1>2. CASE Set(x, Idle) \/ Set(x, SettleAs(x, "aborted"))
  BY <1>1, <1>2, PcFacts, UnwrittenLedger, AsideStepKeepsOrder DEF TaskPcs, SessionPcs
<1>3. CASE Set(x, [executors[x] EXCEPT !.pc = "input"])
  <2>1. executors[x] \in Executor
    BY <1>1, ActivityFacts
  <2>2. Only(x) /\ executors'[x].pc = "input" /\ executors'[x].attempt = executors[x].attempt
    BY <1>1, <1>3, <2>1, SetFacts DEF Executor
  <2>3. TaskGoes(x)
    BY <1>1, <2>2 DEF TaskGoes, TaskPcs
  <2> QED BY <1>1, <2>2, <2>3, UnwrittenLedger, RowsKeepOrder, BareStepKeepsOrder
<1> QED BY <1>2, <1>3 DEF Begin

LEMMA AppendSettlementKeepsOrder ==
  ASSUME OrderInv, NEW x \in Executors, AppendSettlement(x)
  PROVE  OrderInv'
<1> DEFINE r == executors[x].record
           t == executors[x].target
<1>1. /\ PInv /\ executors[x] \in Executor /\ LedgerUnchanged /\ t \in Submissions
      /\ AppendAs(x, r, t, [executors[x] EXCEPT !.pc = "finalize"], Idle)
      /\ executors[x].pc = "append"
  BY ActivityFacts DEF OrderInv, AppendSettlement, At, ExecutorOK, SettlePcs
<1>2. Sound /\ RowsOrdered /\ NoNewJoins /\ rows' = rows
  BY <1>1, AppendSettlementIsSound, UnwrittenLedger
<1>3. r = Decided(t) /\ r \in Record /\ r.type = "settled" /\ r.submission = t /\ Sealed(rows[t])
  BY <1>1, ActivityFacts, DecidedType DEF ExecutorOwes, Owing, Decided, SettledRecord
<1> HIDE DEF r
<1>4. StreamInOrder'
  <2>1. CASE stream' = Append(stream, r)
    BY <1>2, <1>3, <2>1, RecordKeepsOrder DEF Sealed
  <2>2. CASE stream' = stream
    BY <1>2, <2>2, RowsKeepOrder
  <2> QED BY <1>1, <2>1, <2>2 DEF AppendAs
<1>5. \E e : Set(x, e) /\ e.pc \notin TaskPcs
  <2>1. Idle.pc = "idle" /\ [executors[x] EXCEPT !.pc = "finalize"].pc = "finalize"
    BY <1>1, PcFacts
  <2>2. Set(x, Idle) \/ Set(x, [executors[x] EXCEPT !.pc = "finalize"])
    BY <1>1 DEF AppendAs
  <2> QED BY <2>1, <2>2 DEF TaskPcs, SessionPcs
<1>6. PICK e : Set(x, e) /\ e.pc \notin TaskPcs
  BY <1>5
<1>7. Only(x) /\ TaskGoes(x) /\ executors'[x].pc \notin SessionPcs
  BY <1>1, <1>6, SetFacts DEF TaskGoes, TaskPcs
<1> QED BY <1>2, <1>4, <1>7, BareStepKeepsOrder

\* An activity goes on with its attempt.
LEMMA RunGoesOn ==
  ASSUME OrderInv, NEW x \in Executors, executors[x].pc \in SessionPcs, NEW e, Set(x, e),
         e.attempt = executors[x].attempt
  PROVE  Only(x) /\ TaskGoes(x) /\ executors'[x] = e
BY SetFacts DEF OrderInv, TaskGoes, TaskPcs

LEMMA RunFacts ==
  ASSUME OrderInv, NEW x \in Executors, executors[x].pc \in SessionPcs
  PROVE  /\ PInv /\ Inv /\ executors[x] \in Executor /\ executors[x].sub \in Submissions
         /\ executors[x].todo \in SUBSET Submissions
         /\ executors[x].attempt \in Nat
         /\ executors[x].pc # "input" => Persisted(executors[x].sub)
         /\ Mine(x) => Knows(executors[x].sub, executors[x].pc, executors[x].todo)
BY ActivityFacts DEF OrderInv, SessionPcs, Orderly

LEMMA MakesOrderly ==
  ASSUME NEW x \in Executors, NEW h, NEW a, NEW pc, NEW S,
         executors'[x].sub = h, executors'[x].attempt = a,
         executors'[x].pc = pc, executors'[x].todo = S,
         Persisted(h)', Runs(h, a)' => Knows(h, pc, S)'
  PROVE  Orderly(x)'
BY DEF Orderly, Mine

\* A step of a run that reads the ledger and at most writes to the stream.
LEMMA RunStepKeepsOrder ==
  ASSUME OrderInv, Sound, LedgerUnchanged, StreamInOrder',
         NEW x \in Executors, executors[x].pc \in SessionPcs,
         NEW h, h = executors[x].sub, NEW pc, NEW S, Persisted(h)',
         Mine(x) => Knows(h, pc, S)',
         NEW e, Set(x, e), e.pc = pc, e.todo = S, e.sub = h, e.attempt = executors[x].attempt
  PROVE  OrderInv'
<1>1. Only(x) /\ TaskGoes(x) /\ executors'[x] = e
  BY RunGoesOn
<1>2. PICK a : a = executors[x].attempt
  OBVIOUS
<1>3. Runs(h, a)' => Knows(h, pc, S)'
  BY <1>2, UnwrittenLedger DEF Mine, Runs
<1>4. Orderly(x)'
  BY <1>1, <1>2, <1>3, MakesOrderly
<1> QED BY <1>1, <1>4, UnwrittenLedger, CalmStepKeepsOrder

LEMMA CaughtKeepsOrder ==
  ASSUME OrderInv, Sound, LedgerUnchanged, stream' = stream, NEW x \in Executors, Set(x, Caught(x))
  PROVE  OrderInv'
BY UnwrittenLedger, PcFacts, AsideStepKeepsOrder DEF OrderInv, TaskPcs, SessionPcs

\* What the rows leave of what an activity knows.
LEMMA KnowsWithRows ==
  ASSUME OrderInv, Sound, rows' = rows, NEW h, NEW pc, NEW S, Knows(h, pc, S)
  PROVE  Knows(h, pc, S)'
<1>1. /\ NoneJoins(h)' <=> NoneJoins(h)
      /\ Listed(h, S)' <=> Listed(h, S)
      /\ InLine(h, S)' <=> InLine(h, S)
      /\ First(S)' = First(S)
  BY DEF NoneJoins, Listed, InLine, Clear, Joins, Joined, Earlier, SameSession, Unsettled, First
<1> QED BY <1>1, PersistedStays DEF Knows

LEMMA PersistInputKeepsOrder ==
  ASSUME OrderInv, NEW x \in Executors, PersistInput(x)
  PROVE  OrderInv'
<1>1. executors[x].pc = "input" /\ executors[x].pc \in SessionPcs /\ LedgerUnchanged
  BY DEF PersistInput, At, SessionPcs
<1>2. /\ PInv /\ Inv /\ executors[x] \in Executor /\ executors[x].sub \in Submissions
      /\ executors[x].attempt \in Nat /\ Sound /\ rows' = rows
  BY <1>1, RunFacts, PersistInputIsSound, UnwrittenLedger
<1>3. PICK s \in Submissions : s = executors[x].sub
  BY <1>2
<1>4. PICK S : S = executors[x].todo
  OBVIOUS
<1> DEFINE e == [executors[x] EXCEPT !.pc = "mark"]
           r == RecordOf("input", s, executors[x].attempt)
<1>5. e.pc = "mark" /\ e.todo = S /\ e.sub = s /\ e.attempt = executors[x].attempt
  BY <1>2, <1>3, <1>4 DEF Executor
<1>6. Knows(s, "mark", S)'
  BY DEF Knows
<1>7. r \in Record /\ r.type = "input" /\ r.submission = s /\ r.attempt = executors[x].attempt
  BY <1>2, RecordOfType DEF RecordTypes, RecordOf
<1> HIDE DEF e, r
<1>8. CASE Persisted(s)
  <2>1. Set(x, e) /\ stream' = stream
    BY <1>3, <1>8 DEF PersistInput, Go, e
  <2>2. StreamInOrder' /\ Persisted(s)'
    BY <1>1, <1>2, <1>8, <2>1, UnwrittenLedger, RowsKeepOrder, PersistedStays
  <2> QED BY <1>1, <1>2, <1>3, <1>5, <1>6, <2>1, <2>2, RunStepKeepsOrder
<1>9. CASE ~Persisted(s)
  <2>1. AppendAs(x, r, s, e, Caught(x))
    BY <1>3, <1>9 DEF PersistInput, e, r
  <2>2. CASE ~Authorized(r, s, executors[x].attempt)
    BY <1>1, <1>2, <2>1, <2>2, CaughtKeepsOrder DEF AppendAs
  <2>3. CASE Authorized(r, s, executors[x].attempt)
    <3>1. rows[s].status = "running" /\ stream' = Append(stream, r) /\ Set(x, e)
      BY <1>7, <2>1, <2>3 DEF AppendAs, Authorized, SettledRecord
    <3>2. MayLand(s)
      BY <1>2, <1>9, <3>1 DEF MayLand, Unsettled, UnsettledStatus, Executing, Inv,
                              ExecutesInAdmissionOrder
    <3>3. StreamInOrder'
      BY <1>2, <1>7, <3>1, <3>2, RecordKeepsOrder
    <3>4. Persisted(s)'
      <4>1. Len(stream) + 1 \in Positions' /\ stream'[Len(stream) + 1] = r
        BY <1>2, <1>7, <3>1 DEF PInv, Positions
      <4> QED BY <1>7, <4>1 DEF Persisted, InputAt
    <3> QED BY <1>1, <1>2, <1>3, <1>5, <1>6, <3>1, <3>3, <3>4, RunStepKeepsOrder
  <2> QED BY <2>2, <2>3
<1> QED BY <1>8, <1>9

LEMMA MarkKeepsOrder ==
  ASSUME OrderInv, NEW x \in Executors, NEW d \in Durabilities, Mark(x, d)
  PROVE  OrderInv'
<1>1. executors[x].pc = "mark" /\ executors[x].pc \in SessionPcs /\ stream' = stream
  BY DEF Mark, At, SessionPcs
<1>2. /\ PInv /\ Inv /\ executors[x] \in Executor /\ executors[x].sub \in Submissions
      /\ Persisted(executors[x].sub) /\ Sound
  BY <1>1, RunFacts, MarkIsSound
<1>3. CASE LedgerUnchanged /\ Set(x, Caught(x))
  BY <1>1, <1>2, <1>3, CaughtKeepsOrder
<1>4. CASE MarkInputApplied(executors[x].sub, executors[x].attempt, d) /\ Go(x, "listJoins")
  <2> DEFINE e == [executors[x] EXCEPT !.pc = "listJoins"]
  <2>1. PICK h, a, S : h = executors[x].sub /\ a = executors[x].attempt /\ S = executors[x].todo
    OBVIOUS
  <2>2. e.pc = "listJoins" /\ e.todo = S /\ e.sub = h /\ e.attempt = a
    BY <1>2, <2>1 DEF Executor
  <2>3. Set(x, e)
    BY <1>4 DEF Go
  <2> HIDE DEF e
  <2>4. Only(x) /\ TaskGoes(x) /\ executors'[x] = e
    BY <1>1, <2>1, <2>2, <2>3, RunGoesOn
  <2>5. RowsOrdered /\ NoNewJoins
    BY <1>2, <1>4, AttemptIsCalm, CalmLeavesJoins
  <2>6. Knows(h, "listJoins", S)' /\ Persisted(h)'
    BY <1>2, <2>1, PersistedStays DEF Knows
  <2>7. Orderly(x)'
    BY <2>2, <2>4, <2>6, MakesOrderly
  <2> QED BY <1>1, <1>2, <2>4, <2>5, <2>7, RowsKeepOrder, CalmStepKeepsOrder
<1> QED BY <1>3, <1>4 DEF Mark

LEMMA ListJoinsKeepsOrder ==
  ASSUME OrderInv, NEW x \in Executors, ListJoins(x)
  PROVE  OrderInv'
<1>1. /\ executors[x].pc = "listJoins" /\ executors[x].pc \in SessionPcs
      /\ LedgerUnchanged /\ stream' = stream
  BY DEF ListJoins, At, SessionPcs
<1>2. /\ executors[x] \in Executor /\ executors[x].sub \in Submissions
      /\ Persisted(executors[x].sub) /\ Sound
  BY <1>1, RunFacts, ListJoinsIsSound
<1>3. PICK h : h = executors[x].sub
  OBVIOUS
<1>4. PICK S : S = {s \in Submissions : Attached(s, h) /\ rows[s].status = "joining"}
  OBVIOUS
<1> DEFINE e == [executors[x] EXCEPT !.pc = "resolve", !.todo = S]
<1>5. e.pc = "resolve" /\ e.todo = S /\ e.sub = h /\ e.attempt = executors[x].attempt
  BY <1>2, <1>3 DEF Executor
<1>6. Set(x, e)
  BY <1>3, <1>4 DEF ListJoins
<1>7. Listed(h, S)'
  BY <1>1, <1>4, UnwrittenLedger DEF Listed, Joins, Attached
<1>8. Knows(h, "resolve", S)'
  BY <1>7 DEF Knows
<1> HIDE DEF e
<1> QED BY <1>1, <1>2, <1>3, <1>5, <1>6, <1>8, UnwrittenLedger, RowsKeepOrder, PersistedStays,
           RunStepKeepsOrder

LEMMA JoinDecided ==
  ASSUME Inv, NEW h \in Submissions, NEW a, NEW s \in Submissions,
         FinalizeJoined(h, a, s) \/ RevertJoining(h, a, s)
  PROVE  /\ Joins(s, h) /\ ~Joins(s, h)'
         /\ \A d \in Submissions : d # s => rows'[d] = rows[d]
         /\ FinalizeJoined(h, a, s) => Joined(s, h)'
         /\ RevertJoining(h, a, s) => rows'[s].status = "queued"
<1>1. Joins(s, h) /\ rows[s] \in Row
  BY RowFacts DEF FinalizeJoined, RevertJoining, Attached, Joins
<1>2. CASE FinalizeJoined(h, a, s)
  <2>1. rows' = [rows EXCEPT ![s] = [rows[s] EXCEPT !.status = "joined", !.inputApplied = TRUE]]
    BY <1>2 DEF FinalizeJoined, Write
  <2>2. /\ \A d \in Submissions : d # s => rows'[d] = rows[d]
        /\ rows'[s] = [rows[s] EXCEPT !.status = "joined", !.inputApplied = TRUE]
    BY <2>1 DEF Inv, TypeOK
  <2>3. rows'[s].status = "joined" /\ rows'[s].joinedInto = rows[s].joinedInto
    BY <1>1, <2>2 DEF Row
  <2>4. Joined(s, h)' /\ ~Joins(s, h)'
    BY <1>1, <2>3 DEF Joins, Joined
  <2>5. RevertJoining(h, a, s) => rows'[s].status = "queued"
    <3>1. Released(rows[s]).status = "queued"
      BY <1>1 DEF Released, Row
    <3> QED BY <3>1 DEF RevertJoining, Write, Inv, TypeOK
  <2> QED BY <1>1, <2>2, <2>4, <2>5
<1>3. CASE RevertJoining(h, a, s) /\ ~FinalizeJoined(h, a, s)
  <2>1. rows' = [rows EXCEPT ![s] = Released(rows[s])]
    BY <1>3 DEF RevertJoining, Write
  <2>2. /\ \A d \in Submissions : d # s => rows'[d] = rows[d]
        /\ rows'[s] = Released(rows[s])
    BY <2>1 DEF Inv, TypeOK
  <2>3. rows'[s].status = "queued"
    BY <1>1, <2>2 DEF Released, Row
  <2> QED BY <1>1, <1>3, <2>2, <2>3 DEF Joins
<1> QED BY <1>2, <1>3

\* The head of a running session is clear of everything in front of what it
\* claims, but for what it claims along.
LEMMA ClaimIsClear ==
  ASSUME OrderInv, NEW h \in Submissions, rows[h].status = "running", NoneJoins(h),
         NEW d \in JoinablePrefix(h)
  PROVE  /\ d \in Submissions /\ rows[d].status = "queued" /\ Earlier(h, d)
         /\ Clear(d, h, JoinablePrefix(h))
<1>1. Inv /\ SameSession(d, h) /\ rows[d].status = "queued" /\ d \in Submissions
  BY DEF JoinablePrefix, OrderInv, PInv
<1>2. \A t \in Submissions : rows[t].sequence \in Nat
  BY <1>1, RowFacts DEF Row
<1>3. IsHead(h)
  BY <1>1 DEF Inv, ExecutesInAdmissionOrder, Executing, IsHead
<1>4. ASSUME NEW u \in Submissions, SameSession(h, u), Unsettled(u)
      PROVE  u = h \/ Earlier(h, u)
  <2>1. ~Earlier(u, h)
    BY <1>3, <1>4 DEF IsHead
  <2>2. rows[u].sequence >= rows[h].sequence
    BY <1>2, <1>4, <2>1 DEF Earlier
  <2>3. rows[u].sequence = rows[h].sequence => u = h
    BY <1>1, <1>4 DEF Inv, SequencesAreUnique
  <2> QED BY <1>2, <1>4, <2>2, <2>3 DEF Earlier, SameSession
<1>5. Earlier(h, d)
  BY <1>1, <1>4 DEF SameSession, Unsettled, UnsettledStatus
<1>6. ASSUME NEW u \in Submissions, Earlier(u, d), Unsettled(u)
      PROVE  u = h \/ u \in JoinablePrefix(h) \/ rows[u].status = "terminalizing" \/ Joined(u, h)
  <2>1. SameSession(h, u) /\ SameSession(u, h) /\ rows[u].sequence < rows[d].sequence
    BY <1>1, <1>6 DEF Earlier, SameSession
  <2>2. u = h \/ Earlier(h, u)
    BY <1>4, <1>6, <2>1
  <2>3. CASE rows[u].status = "queued"
    <3>1. ASSUME NEW t \in Submissions, SameSession(t, h), rows[t].status = "queued",
                 rows[t].sequence <= rows[u].sequence
          PROVE  Joinable(t, h)
      <4>1. rows[t].sequence <= rows[d].sequence
        BY <1>1, <1>2, <2>1, <3>1
      <4> QED BY <3>1, <4>1 DEF JoinablePrefix
    <3> QED BY <2>1, <2>3, <3>1 DEF JoinablePrefix
  <2>4. CASE rows[u].status \in {"running", "waiting"}
    <3>1. ~Earlier(h, u)
      BY <1>1, <2>4 DEF Inv, ExecutesInAdmissionOrder, Executing, Unsettled, UnsettledStatus
    <3> QED BY <2>2, <3>1
  <2>5. CASE rows[u].status \in {"joining", "joined"}
    <3>1. rows[u].joinedInto \in Submissions
      BY <1>1, <2>5, RowFacts DEF ColumnsAgree, Row
    <3>2. PICK g \in Submissions : rows[u].joinedInto = g
      BY <3>1
    <3>3. Attached(u, g) /\ Unsettled(g)
      BY <2>5, <3>2 DEF OrderInv, HostsAreUnsettled, Attached
    <3>4. Earlier(g, u) /\ IsHead(g)
      BY <1>1, <3>3 DEF Inv, JoinsFollowTheirHost
    <3>5. g = h
      <4>1. SameSession(h, g) /\ SameSession(g, h)
        BY <2>1, <3>4 DEF Earlier, SameSession
      <4>2. ~Earlier(h, g)
        BY <3>4 DEF IsHead, Unsettled, UnsettledStatus
      <4> QED BY <1>4, <3>3, <4>1, <4>2
    <3> QED BY <2>5, <3>2, <3>5 DEF NoneJoins, Joins, Joined
  <2> QED BY <1>6, <2>3, <2>4, <2>5 DEF Unsettled, UnsettledStatus
<1> QED BY <1>1, <1>5, <1>6 DEF Clear

\* The first of what waits in line for h.
LEMMA FirstInLine ==
  ASSUME OrderInv, NEW h \in Submissions, NEW S \in SUBSET Submissions, InLine(h, S),
         NEW s \in First(S)
  PROVE  /\ s \in S /\ s \in Submissions /\ Joins(s, h)
         /\ First(S) = {s}
         /\ \A u \in S : ~Earlier(u, s)
<1>1. s \in S /\ \A t \in S : rows[s].sequence <= rows[t].sequence
  BY DEF First
<1>2. \A t \in Submissions : rows[t].sequence \in Nat
  BY RowFacts DEF Row, OrderInv, PInv
<1>3. \A t \in S : t \in Submissions /\ rows[t].status # "absent"
  BY DEF InLine, Joins
<1>4. ASSUME NEW t \in First(S) PROVE t = s
  <2>1. t \in S /\ rows[t].sequence <= rows[s].sequence
    BY <1>1, <1>4 DEF First
  <2>2. rows[t].sequence = rows[s].sequence
    BY <1>1, <1>2, <1>3, <2>1
  <2> QED BY <1>1, <1>3, <2>1, <2>2 DEF OrderInv, PInv, Inv, SequencesAreUnique
<1>5. \A u \in S : ~Earlier(u, s)
  BY <1>1, <1>2, <1>3 DEF Earlier
<1> QED BY <1>1, <1>3, <1>4, <1>5 DEF InLine

LEMMA ResolveJoinKeepsOrder ==
  ASSUME OrderInv, NEW x \in Executors, ResolveJoin(x)
  PROVE  OrderInv'
<1>1. executors[x].pc = "resolve" /\ executors[x].pc \in SessionPcs /\ stream' = stream
  BY DEF ResolveJoin, At, SessionPcs
<1>2. /\ PInv /\ Inv /\ executors[x] \in Executor /\ executors[x].sub \in Submissions
      /\ executors[x].todo \in SUBSET Submissions
      /\ Persisted(executors[x].sub) /\ Sound
      /\ Mine(x) => Knows(executors[x].sub, executors[x].pc, executors[x].todo)
  BY <1>1, RunFacts, ResolveJoinIsSound
<1>3a. PICK h \in Submissions : h = executors[x].sub
  BY <1>2
<1>3b. PICK S \in SUBSET Submissions : S = executors[x].todo
  BY <1>2
<1>3c. PICK a : a = executors[x].attempt
  OBVIOUS
<1>3. h = executors[x].sub /\ a = executors[x].attempt /\ S = executors[x].todo
  BY <1>3a, <1>3b, <1>3c
<1>4. Persisted(h)' /\ (Runs(h, a) => Listed(h, S))
  BY <1>1, <1>2, <1>3, PersistedStays DEF Mine, Knows
<1>5. CASE S = {} /\ Go(x, "wakeJoins") /\ LedgerUnchanged
  <2> DEFINE e == [executors[x] EXCEPT !.pc = "wakeJoins"]
  <2>1. e.pc = "wakeJoins" /\ e.todo = S /\ e.sub = h /\ e.attempt = executors[x].attempt
    BY <1>2, <1>3 DEF Executor
  <2>2. Set(x, e)
    BY <1>5 DEF Go
  <2>3. Runs(h, a) => NoneJoins(h)'
    BY <1>4, <1>5, UnwrittenLedger DEF Listed, NoneJoins, Joins
  <2>4. Mine(x) => Knows(h, "wakeJoins", S)'
    BY <1>3, <2>3 DEF Knows, Mine
  <2> HIDE DEF e
  <2> QED BY <1>1, <1>2, <1>3, <1>4, <1>5, <2>1, <2>2, <2>4, UnwrittenLedger, RowsKeepOrder,
             RunStepKeepsOrder
<1>6. ASSUME NEW s \in First(S), Set(x, [executors[x] EXCEPT !.todo = S \ {s}])
      PROVE  /\ Set(x, [executors[x] EXCEPT !.pc = "resolve", !.todo = S \ {s}])
             /\ [executors[x] EXCEPT !.pc = "resolve", !.todo = S \ {s}].pc = "resolve"
             /\ [executors[x] EXCEPT !.pc = "resolve", !.todo = S \ {s}].todo = S \ {s}
             /\ [executors[x] EXCEPT !.pc = "resolve", !.todo = S \ {s}].sub = h
             /\ [executors[x] EXCEPT !.pc = "resolve", !.todo = S \ {s}].attempt = a
             /\ s \in Submissions
  BY <1>1, <1>2, <1>3, <1>6 DEF Executor, First
<1>7. ASSUME NEW s \in First(S), Set(x, [executors[x] EXCEPT !.todo = S \ {s}]),
             LedgerUnchanged, ~(Runs(h, a) /\ Attached(s, h) /\ rows[s].status = "joining")
      PROVE  OrderInv'
  <2>1. Runs(h, a) => Listed(h, S \ {s})'
    BY <1>4, <1>7, UnwrittenLedger DEF Listed, Joins, Attached
  <2>2. Mine(x) => Knows(h, "resolve", S \ {s})'
    BY <1>3, <2>1 DEF Knows, Mine
  <2>3. PICK e : /\ Set(x, e) /\ e.pc = "resolve" /\ e.todo = S \ {s} /\ e.sub = h
                 /\ e.attempt = executors[x].attempt
    BY <1>3, <1>6, <1>7
  <2> QED BY <1>1, <1>2, <1>3, <1>4, <1>7, <2>2, <2>3, UnwrittenLedger, RowsKeepOrder,
             RunStepKeepsOrder
<1>8. ASSUME NEW s \in First(S), Set(x, [executors[x] EXCEPT !.todo = S \ {s}]),
             \/ Persisted(s) /\ FinalizeJoined(h, a, s)
             \/ ~Persisted(s) /\ RevertJoining(h, a, s)
      PROVE  OrderInv'
  <2>1. PICK e : /\ Set(x, e) /\ e.pc = "resolve" /\ e.todo = S \ {s} /\ e.sub = h
                 /\ e.attempt = a /\ s \in Submissions
    BY <1>6, <1>8
  <2>2. Only(x) /\ TaskGoes(x) /\ executors'[x] = e
    BY <1>1, <1>3, <2>1, RunGoesOn
  <2>3. /\ Joins(s, h) /\ ~Joins(s, h)' /\ Runs(h, a)
        /\ \A d \in Submissions : d # s => rows'[d] = rows[d]
    <3>1. FinalizeJoined(h, a, s) \/ RevertJoining(h, a, s)
      BY <1>8
    <3>2. Runs(h, a)
      BY <3>1 DEF FinalizeJoined, RevertJoining
    <3> QED BY <1>2, <2>1, <3>1, <3>2, JoinDecided
  <2>3a. rows'[s].status = "joined" => Persisted(s)
    <3>1. RevertJoining(h, a, s) => rows'[s].status = "queued"
      BY <1>2, <2>1, JoinDecided
    <3> QED BY <1>8, <3>1
  <2>4. Listed(h, S \ {s})'
    BY <1>4, <2>3 DEF Listed, Joins
  <2>5. Orderly(x)'
    BY <1>4, <2>1, <2>2, <2>4, MakesOrderly DEF Knows
  <2>6. JoinedArePersisted'
    BY <1>2, <2>3, <2>3a, PersistedStays DEF OrderInv, JoinedArePersisted
  <2> QED BY <1>1, <1>2, <1>3, <1>8, <2>1, <2>2, <2>5, <2>6, JoinStepKeepsOrder
<1> QED BY <1>3, <1>5, <1>7, <1>8 DEF ResolveJoin

LEMMA ClaimJoinsKeepsOrder ==
  ASSUME OrderInv, NEW x \in Executors, ClaimJoins(x)
  PROVE  OrderInv'
<1>1. /\ executors[x].pc \in {"wakeJoins", "joins"} /\ executors[x].pc \in SessionPcs
      /\ stream' = stream
  BY DEF ClaimJoins, SessionPcs
<1>2. /\ PInv /\ Inv /\ executors[x] \in Executor /\ executors[x].sub \in Submissions
      /\ Persisted(executors[x].sub) /\ Sound
      /\ Mine(x) => Knows(executors[x].sub, executors[x].pc, executors[x].todo)
  BY <1>1, RunFacts, ClaimJoinsIsSound
<1>3a. PICK h \in Submissions : h = executors[x].sub
  BY <1>2
<1>3b. PICK a, S : a = executors[x].attempt /\ S = executors[x].todo
  OBVIOUS
<1>3. h = executors[x].sub /\ a = executors[x].attempt /\ S = executors[x].todo
  BY <1>3a, <1>3b
<1>4. Persisted(h)' /\ (Runs(h, a) => NoneJoins(h))
  BY <1>1, <1>2, <1>3, PersistedStays DEF Mine, Knows
<1>5. CASE Go(x, "drive") /\ LedgerUnchanged
  <2> DEFINE e == [executors[x] EXCEPT !.pc = "drive"]
  <2>1. e.pc = "drive" /\ e.todo = S /\ e.sub = h /\ e.attempt = executors[x].attempt
    BY <1>2, <1>3 DEF Executor
  <2>2. Set(x, e)
    BY <1>5 DEF Go
  <2>3. Mine(x) => Knows(h, "drive", S)'
    BY <1>3, <1>4, <1>5, UnwrittenLedger DEF Knows, Mine, NoneJoins, Joins
  <2> HIDE DEF e
  <2> QED BY <1>1, <1>2, <1>3, <1>4, <1>5, <2>1, <2>2, <2>3, UnwrittenLedger, RowsKeepOrder,
             RunStepKeepsOrder
<1>6. CASE /\ Runs(h, a) /\ ClaimJoinable(h, a)
           /\ \E next : Set(x, [executors[x] EXCEPT !.pc = "join", !.todo = JoinablePrefix(h),
                                                    !.next = next])
  <2>1. PICK C : C = JoinablePrefix(h)
    OBVIOUS
  <2>2. PICK next : Set(x, [executors[x] EXCEPT !.pc = "join", !.todo = C, !.next = next])
    BY <1>6, <2>1
  <2> DEFINE e == [executors[x] EXCEPT !.pc = "join", !.todo = C, !.next = next]
  <2>3. e.pc = "join" /\ e.todo = C /\ e.sub = h /\ e.attempt = a
    BY <1>2, <1>3 DEF Executor
  <2>4. Only(x) /\ TaskGoes(x) /\ executors'[x] = e
    BY <1>1, <1>3, <2>2, <2>3, RunGoesOn
  <2> HIDE DEF e
  <2>5. ASSUME NEW d \in C
        PROVE  /\ d \in Submissions /\ Clear(d, h, C) /\ rows[d].status # "absent"
               /\ Joins(d, h)'
    <3>1. d \in Submissions /\ rows[d].status = "queued" /\ Clear(d, h, C)
      BY <1>4, <1>6, <2>1, <2>5, ClaimIsClear DEF Runs
    <3>2. rows'[d] = Joining(rows[d], h) /\ rows[d] \in Row
      BY <1>2, <1>6, <2>1, <2>5, <3>1, RowFacts DEF ClaimJoinable
    <3>3. rows'[d].status = "joining" /\ rows'[d].joinedInto = h
      BY <3>2 DEF Joining, Row
    <3> QED BY <3>1, <3>3 DEF Joins
  <2>6. \A d \in Submissions : d \notin C => rows'[d] = rows[d]
    BY <1>6, <2>1 DEF ClaimJoinable
  <2>7. RowsOrdered
    BY <1>2, <1>6, JoinIsOrdered
  <2>8. InLine(h, C)'
    BY <1>2, <2>5, <2>7, ClearStays DEF InLine
  <2>9. Listed(h, C)'
    BY <1>4, <1>6, <2>6 DEF Listed, NoneJoins, Joins
  <2>10. Orderly(x)'
    BY <1>4, <2>3, <2>4, <2>8, <2>9, MakesOrderly DEF Knows
  <2>11. JoinedArePersisted'
    BY <1>2, <2>5, <2>6, PersistedStays DEF OrderInv, JoinedArePersisted, Joins
  <2> QED BY <1>1, <1>2, <1>3, <1>6, <2>4, <2>10, <2>11, JoinStepKeepsOrder
<1> QED BY <1>3, <1>5, <1>6 DEF ClaimJoins

\* The delivery the host is about to apply may land its input.
LEMMA JoinMayLand ==
  ASSUME OrderInv, NEW h \in Submissions, Persisted(h), NEW S \in SUBSET Submissions,
         InLine(h, S), NEW s \in First(S), ~Persisted(s)
  PROVE  MayLand(s)
<1>1. /\ s \in S /\ s \in Submissions /\ Joins(s, h)
      /\ \A u \in S : ~Earlier(u, s)
  BY FirstInLine
<1>2. Unsettled(s) /\ rows[s].status # "terminalizing"
  BY <1>1 DEF Joins, Unsettled, UnsettledStatus
<1>3. ASSUME NEW u \in Submissions, Earlier(u, s), Unsettled(u)
      PROVE  Persisted(u) \/ rows[u].status = "terminalizing"
  <2>1. u = h \/ u \in S \/ rows[u].status = "terminalizing" \/ Joined(u, h)
    BY <1>1, <1>3 DEF InLine, Clear
  <2> QED BY <1>1, <1>3, <2>1 DEF OrderInv, JoinedArePersisted, Joined
<1> QED BY <1>2, <1>3 DEF MayLand

LEMMA LandedIsPersisted ==
  ASSUME PInv, NEW r \in Record, r.type = "input", stream' = Append(stream, r)
  PROVE  Persisted(r.submission)'
<1>1. Len(stream) + 1 \in Positions' /\ stream'[Len(stream) + 1] = r
  BY DEF PInv, Positions
<1> QED BY <1>1 DEF Persisted, InputAt

LEMMA ApplyJoinKeepsOrder ==
  ASSUME OrderInv, NEW x \in Executors, ApplyJoin(x)
  PROVE  OrderInv'
<1>1. executors[x].pc = "join" /\ executors[x].pc \in SessionPcs /\ LedgerUnchanged
  BY DEF ApplyJoin, At, SessionPcs
<1>2. /\ PInv /\ Inv /\ executors[x] \in Executor /\ executors[x].sub \in Submissions
      /\ executors[x].todo \in SUBSET Submissions /\ executors[x].attempt \in Nat
      /\ executors[x].next \in {"turn", "drive"}
      /\ Persisted(executors[x].sub) /\ Sound /\ rows' = rows
      /\ Mine(x) => Knows(executors[x].sub, "join", executors[x].todo)
  BY <1>1, RunFacts, ActivityFacts, ApplyJoinIsSound, UnwrittenLedger DEF ExecutorOK
<1>3a. PICK h \in Submissions : h = executors[x].sub
  BY <1>2
<1>3b. PICK S \in SUBSET Submissions : S = executors[x].todo
  BY <1>2
<1>3c. PICK a \in Nat : a = executors[x].attempt
  BY <1>2
<1>3. /\ h = executors[x].sub /\ a = executors[x].attempt /\ S = executors[x].todo
      /\ Mine(x) <=> Runs(h, a)
  BY <1>3a, <1>3b, <1>3c DEF Mine
<1>4. Persisted(h) /\ Persisted(h)' /\ (Mine(x) => Knows(h, "join", S))
  BY <1>2, <1>3, PersistedStays
<1>5. CASE S = {} /\ stream' = stream
           /\ Set(x, [executors[x] EXCEPT !.pc = executors[x].next, !.next = None])
  <2>1. PICK pc \in {"turn", "drive"} : pc = executors[x].next
    BY <1>2
  <2> DEFINE e == [executors[x] EXCEPT !.pc = pc, !.next = None]
  <2>2. e.pc = pc /\ e.todo = S /\ e.sub = h /\ e.attempt = executors[x].attempt
    BY <1>2, <1>3 DEF Executor
  <2>3. Set(x, e)
    BY <1>5, <2>1
  <2>4. Mine(x) => Knows(h, pc, S)
    BY <1>4, <1>5, <2>1 DEF Knows, Listed, NoneJoins
  <2>5. Mine(x) => Knows(h, pc, S)'
    BY <1>2, <2>4, KnowsWithRows
  <2>6. StreamInOrder'
    BY <1>1, <1>5, UnwrittenLedger, RowsKeepOrder
  <2> HIDE DEF e
  <2> QED BY <1>1, <1>2, <1>3, <1>4, <2>2, <2>3, <2>5, <2>6, RunStepKeepsOrder
<1>6. ASSUME NEW s \in First(S),
             IF Persisted(s)
               THEN Go(x, "confirm") /\ UNCHANGED stream
               ELSE AppendAs(x, RecordOf("input", s, a), h,
                             [executors[x] EXCEPT !.pc = "confirm"], Caught(x))
      PROVE  OrderInv'
  <2> DEFINE e == [executors[x] EXCEPT !.pc = "confirm"]
             r == RecordOf("input", s, a)
  <2>1. e.pc = "confirm" /\ e.todo = S /\ e.sub = h /\ e.attempt = executors[x].attempt
    BY <1>2, <1>3 DEF Executor
  <2>2. s \in Submissions
    BY DEF First
  <2>3. r \in Record /\ r.type = "input" /\ r.submission = s /\ r.attempt = a
    BY <2>2, RecordOfType DEF RecordTypes, RecordOf
  <2>4. IF Persisted(s) THEN Set(x, e) /\ stream' = stream ELSE AppendAs(x, r, h, e, Caught(x))
    BY <1>6 DEF Go
  <2> HIDE DEF e, r
  <2>5. ASSUME Mine(x), Persisted(s)' PROVE Knows(h, "confirm", S)'
    <3>1. Listed(h, S) /\ InLine(h, S)
      BY <1>4, <2>5 DEF Knows
    <3>2. Listed(h, S)' /\ InLine(h, S)' /\ First(S)' = First(S)
      BY <1>2, <3>1 DEF Listed, InLine, Clear, Joins, Joined, Earlier, SameSession, Unsettled, First
    <3>3. First(S) = {s}
      BY <3>1, FirstInLine
    <3> QED BY <2>5, <3>2, <3>3 DEF Knows
  <2>6. CASE Persisted(s)
    <3>1. Set(x, e) /\ stream' = stream
      BY <2>4, <2>6
    <3>2. StreamInOrder' /\ Persisted(s)'
      BY <1>1, <1>2, <2>6, <3>1, UnwrittenLedger, RowsKeepOrder, PersistedStays
    <3> QED BY <1>1, <1>2, <1>3, <1>4, <2>1, <2>5, <3>1, <3>2, RunStepKeepsOrder
  <2>7. CASE ~Persisted(s) /\ ~Authorized(r, h, executors[x].attempt)
    BY <1>1, <1>2, <2>4, <2>7, CaughtKeepsOrder DEF AppendAs
  <2>8. CASE ~Persisted(s) /\ Authorized(r, h, executors[x].attempt)
    <3>1. stream' = Append(stream, r) /\ Set(x, e)
      BY <2>4, <2>8 DEF AppendAs
    <3>2. Mine(x)
      BY <1>3, <2>3, <2>8 DEF Authorized, SettledRecord, Runs
    <3>3. InLine(h, S)
      BY <1>4, <3>2 DEF Knows
    <3>4. MayLand(s)
      BY <1>4, <2>8, <3>3, JoinMayLand
    <3>5. StreamInOrder'
      BY <1>2, <2>3, <3>1, <3>4, RecordKeepsOrder DEF MayLand, Unsettled, UnsettledStatus
    <3>6. Persisted(s)'
      BY <1>2, <2>3, <3>1, LandedIsPersisted
    <3> QED BY <1>1, <1>2, <1>3, <1>4, <2>1, <2>5, <3>1, <3>5, <3>6, RunStepKeepsOrder
  <2> QED BY <2>6, <2>7, <2>8
<1> QED BY <1>3, <1>5, <1>6 DEF ApplyJoin

LEMMA ConfirmJoinKeepsOrder ==
  ASSUME OrderInv, NEW x \in Executors, ConfirmJoin(x)
  PROVE  OrderInv'
<1>1. executors[x].pc = "confirm" /\ executors[x].pc \in SessionPcs /\ stream' = stream
  BY DEF ConfirmJoin, At, SessionPcs
<1>2. /\ PInv /\ Inv /\ executors[x] \in Executor /\ executors[x].sub \in Submissions
      /\ executors[x].todo \in SUBSET Submissions
      /\ Persisted(executors[x].sub) /\ Sound
      /\ Mine(x) => Knows(executors[x].sub, "confirm", executors[x].todo)
  BY <1>1, RunFacts, ConfirmJoinIsSound
<1>3a. PICK h \in Submissions : h = executors[x].sub
  BY <1>2
<1>3b. PICK S \in SUBSET Submissions : S = executors[x].todo
  BY <1>2
<1>3c. PICK a : a = executors[x].attempt
  OBVIOUS
<1>3. /\ h = executors[x].sub /\ a = executors[x].attempt /\ S = executors[x].todo
      /\ Mine(x) <=> Runs(h, a)
  BY <1>3a, <1>3b, <1>3c DEF Mine
<1>4. Persisted(h)' /\ (Mine(x) => Knows(h, "confirm", S))
  BY <1>2, <1>3, PersistedStays
<1>5. PICK s \in First(S) :
        /\ Set(x, [executors[x] EXCEPT !.pc = "join", !.todo = S \ {s}])
        /\ IF Runs(h, a) /\ Attached(s, h) /\ rows[s].status = "joining"
             THEN FinalizeJoined(h, a, s) ELSE LedgerUnchanged
  BY <1>3 DEF ConfirmJoin
<1> DEFINE e == [executors[x] EXCEPT !.pc = "join", !.todo = S \ {s}]
<1>6. /\ e.pc = "join" /\ e.todo = S \ {s} /\ e.sub = h /\ e.attempt = a
      /\ s \in Submissions /\ Set(x, e)
  BY <1>2, <1>3, <1>5 DEF Executor, First
<1> HIDE DEF e
<1>7. CASE ~Mine(x)
  <2>1. LedgerUnchanged
    BY <1>3, <1>5, <1>7
  <2> QED BY <1>1, <1>2, <1>3, <1>4, <1>6, <1>7, <2>1, UnwrittenLedger, RowsKeepOrder,
             RunStepKeepsOrder
<1>8. CASE Mine(x)
  <2>1. Listed(h, S) /\ InLine(h, S) /\ Persisted(s)
    BY <1>4, <1>5, <1>8 DEF Knows
  <2>2. Joins(s, h) /\ s \in S
    BY <1>5, <2>1, FirstInLine
  <2>3. FinalizeJoined(h, a, s)
    BY <1>3, <1>5, <1>8, <2>2 DEF Joins, Attached
  <2>4. /\ ~Joins(s, h)' /\ Joined(s, h)'
        /\ \A d \in Submissions : d # s => rows'[d] = rows[d]
    BY <1>2, <1>6, <2>3, JoinDecided
  <2>5. RowsOrdered
    BY <1>2, <1>6, <2>3, JoinIsOrdered
  <2>6. Listed(h, S \ {s})'
    BY <2>1, <2>4 DEF Listed, Joins
  <2>7. ASSUME NEW d \in S \ {s}
        PROVE  Joins(d, h)' /\ Clear(d, h, S \ {s})'
    <3>1. d \in Submissions /\ Joins(d, h) /\ Clear(d, h, S) /\ rows[d].status # "absent"
      BY <2>1 DEF InLine, Joins
    <3>2. Clear(d, h, S)'
      BY <1>2, <2>5, <3>1, ClearStays
    <3>3. Clear(d, h, S \ {s})'
      BY <2>4, <3>2 DEF Clear
    <3> QED BY <2>4, <2>7, <3>1, <3>3 DEF Joins
  <2>8. Knows(h, "join", S \ {s})'
    BY <2>6, <2>7 DEF Knows, InLine
  <2>9. Only(x) /\ TaskGoes(x) /\ executors'[x] = e
    BY <1>1, <1>3, <1>6, RunGoesOn
  <2>10. Orderly(x)'
    BY <1>4, <1>6, <2>8, <2>9, MakesOrderly
  <2>11. JoinedArePersisted'
    BY <1>2, <2>1, <2>4, PersistedStays DEF OrderInv, JoinedArePersisted
  <2> QED BY <1>1, <1>2, <1>3, <1>6, <2>3, <2>9, <2>10, <2>11, JoinStepKeepsOrder
<1> QED BY <1>7, <1>8

\* An activity that knows of no join goes on, whatever it writes that is not an
\* input.
LEMMA WriteKeepsOrder ==
  ASSUME OrderInv, Sound, LedgerUnchanged, NEW x \in Executors,
         executors[x].pc \in {"turn", "drive"},
         NEW pc \in {"joins", "turn"}, NEW type \in RecordTypes \ {"input"},
         AppendAs(x, RecordOf(type, executors[x].sub, executors[x].attempt), executors[x].sub,
                  [executors[x] EXCEPT !.pc = pc], Caught(x))
  PROVE  OrderInv'
<1>1. executors[x].pc \in SessionPcs \ {"input"}
  BY DEF SessionPcs
<1>2. /\ PInv /\ Inv /\ executors[x] \in Executor /\ executors[x].sub \in Submissions
      /\ executors[x].todo \in SUBSET Submissions /\ executors[x].attempt \in Nat
      /\ Persisted(executors[x].sub) /\ rows' = rows
      /\ Mine(x) => Knows(executors[x].sub, executors[x].pc, executors[x].todo)
  BY <1>1, RunFacts, UnwrittenLedger
<1>3. PICK h \in Submissions : h = executors[x].sub
  BY <1>2
<1>4. PICK S \in SUBSET Submissions : S = executors[x].todo
  BY <1>2
<1> DEFINE e == [executors[x] EXCEPT !.pc = pc]
           r == RecordOf(type, h, executors[x].attempt)
<1>5. e.pc = pc /\ e.todo = S /\ e.sub = h /\ e.attempt = executors[x].attempt
  BY <1>2, <1>3, <1>4 DEF Executor
<1>6. r \in Record /\ r.type # "input" /\ r.submission = h
  BY <1>2, RecordOfType DEF RecordOf
<1>7. AppendAs(x, r, h, e, Caught(x))
  BY <1>3
<1> HIDE DEF e, r
<1>8. CASE stream' = stream /\ Set(x, Caught(x))
  BY <1>1, <1>8, CaughtKeepsOrder
<1>9. CASE stream' = Append(stream, r) /\ Set(x, e)
  <2>1. rows[h].status # "absent" /\ Persisted(h)'
    BY <1>2, <1>3, PersistedFacts, PersistedStays
  <2>2. StreamInOrder'
    BY <1>2, <1>6, <1>9, <2>1, RecordKeepsOrder
  <2>3. Mine(x) => Knows(h, pc, S)
    BY <1>2, <1>3, <1>4 DEF Knows
  <2>4. Mine(x) => Knows(h, pc, S)'
    BY <1>2, <2>3, KnowsWithRows
  <2> QED BY <1>1, <1>3, <1>5, <1>9, <2>1, <2>2, <2>4, RunStepKeepsOrder
<1> QED BY <1>7, <1>8, <1>9 DEF AppendAs

LEMMA TurnKeepsOrder ==
  ASSUME OrderInv, NEW x \in Executors, NEW type \in {"step", "answer"}, Turn(x, type)
  PROVE  OrderInv'
<1>1. executors[x].pc = "turn" /\ LedgerUnchanged /\ Sound /\ type \in RecordTypes \ {"input"}
  BY TurnIsSound DEF Turn, At, OrderInv, RecordTypes
<1> QED BY <1>1, WriteKeepsOrder DEF Turn

LEMMA DriveKeepsOrder ==
  ASSUME OrderInv, NEW x \in Executors, Drive(x)
  PROVE  OrderInv'
<1>1. /\ executors[x].pc = "drive" /\ LedgerUnchanged /\ Sound
      /\ "cycle" \in RecordTypes \ {"input"}
  BY DriveIsSound DEF Drive, At, OrderInv, RecordTypes
<1>2. executors[x].pc \in SessionPcs \ {"input"}
  BY <1>1 DEF SessionPcs
<1>3. /\ PInv /\ executors[x] \in Executor /\ Persisted(executors[x].sub)
      /\ Mine(x) => Knows(executors[x].sub, "drive", executors[x].todo)
  BY <1>1, <1>2, RunFacts
<1>4. CASE Go(x, "turn") /\ stream' = stream
  <2>1. PICK h, S : h = executors[x].sub /\ S = executors[x].todo
    OBVIOUS
  <2> DEFINE e == [executors[x] EXCEPT !.pc = "turn"]
  <2>2. e.pc = "turn" /\ e.todo = S /\ e.sub = h /\ e.attempt = executors[x].attempt
    BY <1>3, <2>1 DEF Executor
  <2>3. Set(x, e)
    BY <1>4 DEF Go
  <2> HIDE DEF e
  <2>4. Mine(x) => Knows(h, "turn", S)
    BY <1>3, <2>1 DEF Knows
  <2>5. /\ Mine(x) => Knows(h, "turn", S)'
        /\ StreamInOrder' /\ Persisted(h)'
    BY <1>1, <1>3, <1>4, <2>1, <2>4, UnwrittenLedger, KnowsWithRows, RowsKeepOrder, PersistedStays
  <2> QED BY <1>1, <1>2, <1>4, <2>1, <2>2, <2>3, <2>5, RunStepKeepsOrder
<1>5. CASE Go(x, "ran") /\ stream' = stream
  <2>1. PICK e : Set(x, e) /\ e.pc = "ran"
    BY <1>3, <1>5, PcFacts DEF Go
  <2> QED BY <1>1, <1>5, <2>1, UnwrittenLedger, AsideStepKeepsOrder DEF TaskPcs, SessionPcs
<1>6. CASE AppendAs(x, RecordOf("cycle", executors[x].sub, executors[x].attempt),
                    executors[x].sub, [executors[x] EXCEPT !.pc = "turn"], Caught(x))
  BY <1>1, <1>6, WriteKeepsOrder
<1> QED BY <1>4, <1>5, <1>6 DEF Drive

LEMMA InitOrderInv ==
  ASSUME ProcessingInit
  PROVE  OrderInv
<1>1. PInv
  BY InitPInv
<1>2. stream = <<>> /\ Positions = {} /\ \A x \in Executors : executors[x].pc = "idle"
  BY DEF ProcessingInit, Idle, Positions
<1>3. \A s \in Submissions : rows[s].status = "absent"
  BY DEF ProcessingInit, Init, AbsentRow
<1>4. TasksDiffer /\ \A x \in Executors : Orderly(x)
  BY <1>2 DEF TasksDiffer, TaskPcs, SessionPcs, Orderly
<1>5. HostsAreUnsettled /\ JoinedArePersisted
  BY <1>3 DEF HostsAreUnsettled, JoinedArePersisted, Attached
<1>6. RecordsAreAdmitted /\ NoneIsPassed /\ InputsLandInOrder
  BY <1>2 DEF RecordsAreAdmitted, NoneIsPassed, InputsLandInOrder, Persisted
<1> QED BY <1>1, <1>4, <1>5, <1>6 DEF OrderInv

LEMMA NextOrderInv ==
  ASSUME OrderInv, [ProcessingNext]_pvars
  PROVE  OrderInv'
<1>1. CASE Outside \/ UNCHANGED pvars
  BY <1>1, OutsideKeepsOrder
<1>2. ASSUME NEW x \in Executors, ExecutorStep(x) PROVE OrderInv'
  BY <1>2, BeginKeepsOrder, PersistInputKeepsOrder, MarkKeepsOrder, ListJoinsKeepsOrder,
     ResolveJoinKeepsOrder, ClaimJoinsKeepsOrder, ApplyJoinKeepsOrder, ConfirmJoinKeepsOrder,
     DriveKeepsOrder, TurnKeepsOrder, LooksAside, SettlesAside, AsideKeepsOrder,
     AppendSettlementKeepsOrder, DecideKeepsOrder DEF ExecutorStep, Looks, OrderInv
<1>3. ASSUME NEW x \in Executors, PassStep(x) \/ Crash(x) PROVE OrderInv'
  BY <1>3, StartKeepsOrder, LooksAside, AsideKeepsOrder DEF PassStep, Looks, OrderInv
<1> QED BY <1>1, <1>2, <1>3 DEF ProcessingNext

LEMMA SpecOrderInv == ProcessingSpec => []OrderInv
<1>1. ProcessingInit => OrderInv
  BY InitOrderInv
<1>2. OrderInv /\ [ProcessingNext]_pvars => OrderInv'
  BY NextOrderInv
<1> QED BY <1>1, <1>2, PTL DEF ProcessingSpec

\* An input lands once, and the inputs of a session land in admission order,
\* whichever attempts, hosts and recovery passes get to write them.
THEOREM InputsStayInOrder == ProcessingSpec => []InputsLandInOrder
<1>1. OrderInv => InputsLandInOrder
  BY DEF OrderInv
<1> QED BY <1>1, SpecOrderInv, PTL

-----------------------------------------------------------------------------
(* Why answers are not repeated *)

Continues(k) == stream[k].type \in {"input", "cycle"}

\* Behind every answer of s more input or a continuation landed.
Open(s) ==
  \A i \in Positions : stream[i].type = "answer" /\ stream[i].submission = s =>
    \E k \in Positions : k > i /\ Continues(k)

\* An activity that runs h and goes for another turn has a reason to, or is about
\* to land one: none of the deliveries it claimed landed before.
WillTurn(h, pc, next, S) ==
  /\ pc = "turn" => Open(h)
  /\ pc \in {"join", "confirm"} /\ next = "turn" =>
       Open(h) \/ (pc = "join" /\ S # {} /\ \A d \in S : ~Persisted(d))

Opens(x) ==
  LET e == executors[x] IN Mine(x) => WillTurn(e.sub, e.pc, e.next, e.todo)

AnswersFollowInput ==
  \A j \in Positions : AssistantAt(j) =>
    \E i \in Positions : i < j /\ InputAt(i, stream[j].submission)
OnlyHeadsAnswer == \A j \in Positions : AssistantAt(j) => IsHead(stream[j].submission)
AnswersKeepOrder ==
  \A i, j \in Positions : i < j /\ AssistantAt(i) /\ AssistantAt(j) =>
    rows[stream[i].submission].sequence <= rows[stream[j].submission].sequence

AnswersInOrder ==
  /\ AnswersFollowInput
  /\ OnlyHeadsAnswer
  /\ AnswersKeepOrder
  /\ AnswersAreNotRepeated

\* A delivery that landed before its join is confirmed was next in line; one
\* that landed and was handed back is the head of the queue again.
JoinsLandInLine ==
  \A d, h \in Submissions : Joins(d, h) /\ Persisted(d) => Clear(d, h, {})
QueuedLandedFirst ==
  \A d \in Submissions : rows[d].status = "queued" /\ Persisted(d) =>
    \A u \in Submissions : Earlier(u, d) /\ Unsettled(u) => rows[u].status = "terminalizing"

AnswerInv ==
  /\ OrderInv
  /\ AnswersInOrder
  /\ JoinsLandInLine
  /\ QueuedLandedFirst
  /\ \A x \in Executors : Opens(x)

LEMMA RowsKeepAnswers ==
  ASSUME AnswerInv, RowsOrdered, stream' = stream
  PROVE  AnswersInOrder'
<1>1. Inv /\ stream \in Seq(Record) /\ Positions' = Positions /\ AnswersInOrder
  BY DEF AnswerInv, OrderInv, PInv, Positions
<1>2. ASSUME NEW i \in Positions
      PROVE  /\ rows'[stream[i].submission].sequence = rows[stream[i].submission].sequence
             /\ IsHead(stream[i].submission) => IsHead(stream[i].submission)'
  <2>1. stream[i].submission \in Submissions /\ rows[stream[i].submission].status # "absent"
    BY <1>1, StreamFacts DEF AnswerInv, OrderInv, RecordsAreAdmitted
  <2>2. PICK u \in Submissions : u = stream[i].submission
    BY <2>1
  <2>3. rows'[u].sequence = rows[u].sequence /\ (IsHead(u) => IsHead(u)')
    BY <1>1, <2>1, <2>2, PlaceStays DEF IsHead
  <2> QED BY <2>2, <2>3
<1>3. AnswersFollowInput'
  BY <1>1 DEF AnswersInOrder, AnswersFollowInput, AssistantAt, InputAt
<1>4. OnlyHeadsAnswer'
  <2> SUFFICES ASSUME NEW j \in Positions, AssistantAt(j) PROVE IsHead(stream[j].submission)'
    BY <1>1 DEF OnlyHeadsAnswer, AssistantAt
  <2> QED BY <1>1, <1>2 DEF AnswersInOrder, OnlyHeadsAnswer
<1>5. AnswersKeepOrder'
  BY <1>1, <1>2 DEF AnswersInOrder, AnswersKeepOrder, AssistantAt
<1>6. AnswersAreNotRepeated'
  BY <1>1 DEF AnswersInOrder, AnswersAreNotRepeated, AssistantAt
<1> QED BY <1>3, <1>4, <1>5, <1>6 DEF AnswersInOrder

LEMMA AppendFacts ==
  ASSUME PInv, NEW r \in Record, stream' = Append(stream, r)
  PROVE  LET n == Len(stream) + 1 IN
         /\ n \in Nat /\ Positions' = Positions \cup {n} /\ n \notin Positions
         /\ stream'[n] = r
         /\ \A i \in Positions : stream'[i] = stream[i] /\ i < n /\ i \in Nat
BY DEF PInv, Positions

\* Where s is unsettled, nobody behind it answered.
LEMMA AnswersLieInFront ==
  ASSUME AnswerInv, NEW s \in Submissions, Unsettled(s), NEW j \in Positions, AssistantAt(j)
  PROVE  /\ stream[j].submission \in Submissions
         /\ rows[stream[j].submission].sequence <= rows[s].sequence
<1>1. Inv /\ stream \in Seq(Record)
  BY DEF AnswerInv, OrderInv, PInv
<1>2. stream[j].submission \in Submissions
  BY <1>1, StreamFacts
<1>3. PICK u \in Submissions : u = stream[j].submission
  BY <1>2
<1>4. IsHead(u)
  BY <1>3 DEF AnswerInv, AnswersInOrder, OnlyHeadsAnswer
<1>5. ~Earlier(s, u) /\ SameSession(u, s)
  BY <1>4, InstanceAssumption DEF IsHead, SameSession
<1>6. rows[s].sequence \in Nat /\ rows[u].sequence \in Nat
  BY <1>1, RowFacts DEF Row
<1>7. rows[u].sequence <= rows[s].sequence
  BY <1>5, <1>6 DEF Earlier
<1> QED BY <1>3, <1>7

LEMMA RecordKeepsAnswers ==
  ASSUME AnswerInv, rows' = rows, NEW r \in Record, stream' = Append(stream, r),
         r.type \in {"step", "answer"} =>
           /\ Persisted(r.submission) /\ Open(r.submission)
           /\ IsHead(r.submission) /\ Unsettled(r.submission)
  PROVE  AnswersInOrder'
<1>0. PInv /\ AnswersInOrder /\ r.submission \in Submissions
  BY DEF AnswerInv, OrderInv, Record
<1>v. PICK v \in Submissions : v = r.submission
  BY <1>0
<1>n. PICK n : /\ n \in Nat /\ Positions' = Positions \cup {n} /\ n \notin Positions
               /\ stream'[n] = r
               /\ \A i \in Positions : stream'[i] = stream[i] /\ i < n /\ i \in Nat
  BY <1>0, AppendFacts
<1>1. /\ PInv /\ AnswersInOrder /\ v \in Submissions /\ v = r.submission
      /\ n \in Nat /\ Positions' = Positions \cup {n} /\ n \notin Positions
      /\ stream'[n] = r
      /\ \A i \in Positions : stream'[i] = stream[i] /\ i < n /\ i \in Nat
  BY <1>0, <1>v, <1>n
<1>2. \A i \in Positions : (AssistantAt(i)' <=> AssistantAt(i))
                           /\ \A s : InputAt(i, s)' <=> InputAt(i, s)
  BY <1>1 DEF AssistantAt, InputAt
<1>3. AssistantAt(n)' <=> r.type \in {"step", "answer"}
  BY <1>1 DEF AssistantAt
<1>4. AnswersFollowInput'
  <2> SUFFICES ASSUME NEW j \in Positions', AssistantAt(j)'
               PROVE  \E i \in Positions' : /\ i < j /\ stream'[i].type = "input"
                                            /\ stream'[i].submission = stream'[j].submission
    BY DEF AnswersFollowInput, InputAt
  <2>1. CASE j \in Positions
    <3>1. PICK i \in Positions : i < j /\ InputAt(i, stream[j].submission)
      BY <1>1, <1>2, <2>1 DEF AnswersInOrder, AnswersFollowInput
    <3> QED BY <1>1, <2>1, <3>1 DEF InputAt
  <2>2. CASE j = n
    <3>1. PICK i \in Positions : InputAt(i, v)
      BY <1>1, <1>3, <2>2 DEF Persisted
    <3> QED BY <1>1, <2>2, <3>1 DEF InputAt
  <2> QED BY <1>1, <2>1, <2>2
<1>5. OnlyHeadsAnswer'
  <2> SUFFICES ASSUME NEW j \in Positions', AssistantAt(j)'
               PROVE  IsHead(stream'[j].submission)
    BY DEF OnlyHeadsAnswer, IsHead, Earlier, SameSession, Unsettled
  <2> QED BY <1>1, <1>2, <1>3 DEF AnswersInOrder, OnlyHeadsAnswer
<1>6. AnswersKeepOrder'
  <2> SUFFICES ASSUME NEW i \in Positions', NEW j \in Positions', i < j,
                      AssistantAt(i)', AssistantAt(j)'
               PROVE  rows[stream'[i].submission].sequence <= rows[stream'[j].submission].sequence
    BY DEF AnswersKeepOrder
  <2>1. i \in Positions
    BY <1>1
  <2>2. CASE j \in Positions
    BY <1>1, <1>2, <2>1, <2>2 DEF AnswersInOrder, AnswersKeepOrder
  <2>3. CASE j = n
    BY <1>1, <1>2, <1>3, <2>1, <2>3, AnswersLieInFront
  <2> QED BY <1>1, <2>2, <2>3
<1>7. AnswersAreNotRepeated'
  <2> SUFFICES ASSUME NEW i \in Positions', NEW j \in Positions', i < j,
                      stream'[i].type = "answer", AssistantAt(j)',
                      stream'[i].submission = stream'[j].submission
               PROVE  \E k \in i .. j : stream'[k].type \in {"input", "cycle"}
    BY DEF AnswersAreNotRepeated
  <2>1. i \in Positions /\ i \in Nat /\ stream[i].type = "answer"
    <3>1. i \in Positions
      BY <1>1
    <3> QED BY <1>1, <3>1
  <2>2. CASE j \in Positions
    <3>1. PICK k \in i .. j : stream[k].type \in {"input", "cycle"}
      BY <1>1, <1>2, <2>1, <2>2 DEF AnswersInOrder, AnswersAreNotRepeated
    <3>2. k \in Positions
      BY <1>1, <2>1, <2>2, <3>1 DEF PInv, Positions
    <3> QED BY <1>1, <3>1, <3>2
  <2>3. CASE j = n
    <3>1. PICK k \in Positions : k > i /\ Continues(k)
      BY <1>1, <1>3, <2>1, <2>3 DEF Open
    <3>2. k \in Nat /\ j \in Nat /\ i <= k /\ k <= j
      BY <1>1, <2>1, <2>3, <3>1
    <3>3. k \in i .. j
      BY <2>1, <3>2
    <3>4. stream'[k].type \in {"input", "cycle"}
      <4>1. stream'[k] = stream[k]
        BY <1>1
      <4> QED BY <3>1, <4>1 DEF Continues
    <3> QED BY <3>3, <3>4
  <2> QED BY <1>1, <2>2, <2>3
<1> QED BY <1>4, <1>5, <1>6, <1>7 DEF AnswersInOrder

\* What a step makes or undoes of the joins keeps them in line.
JoinsFollow ==
  /\ \A d, h \in Submissions : Joins(d, h)' => Joins(d, h) \/ ~Persisted(d)
  /\ \A d, h \in Submissions :
       Joins(d, h) /\ rows'[d].status = "queued" /\ Persisted(d) => ~Unsettled(h)'

LEMMA JoinsStayInLine ==
  ASSUME AnswerInv, HostsAreUnsettled', RowsOrdered, stream' = stream, JoinsFollow
  PROVE  JoinsLandInLine' /\ QueuedLandedFirst'
<1>1. /\ Inv /\ OrderInv
      /\ \A d : Persisted(d)' <=> Persisted(d)
  BY DEF AnswerInv, OrderInv, PInv, Persisted, InputAt, Positions
<1>2. JoinsLandInLine'
  <2> SUFFICES ASSUME NEW d \in Submissions, NEW h \in Submissions, Joins(d, h)', Persisted(d)'
               PROVE  Clear(d, h, {})'
    BY DEF JoinsLandInLine
  <2>1. Joins(d, h) /\ Persisted(d) /\ rows[d].status # "absent"
    BY <1>1 DEF JoinsFollow, Joins
  <2> QED BY <1>1, <2>1, ClearStays DEF AnswerInv, JoinsLandInLine
<1>3. QueuedLandedFirst'
  <2> SUFFICES ASSUME NEW d \in Submissions, rows'[d].status = "queued", Persisted(d)',
                      NEW u \in Submissions, Earlier(u, d)', Unsettled(u)'
               PROVE  rows'[u].status = "terminalizing"
    BY DEF QueuedLandedFirst
  <2>1. Persisted(d) /\ rows[d].status # "absent"
    BY <1>1, PersistedFacts
  <2>2. Earlier(u, d) /\ Unsettled(u)
    BY <1>1, <2>1, PlaceStays
  <2>3. Ordered(d, rows'[d]) /\ Ordered(u, rows'[u])
    BY DEF RowsOrdered
  <2>4. rows[u].status = "terminalizing" => rows'[u].status = "terminalizing"
    BY <2>3 DEF Ordered, Sealed, Unsettled, UnsettledStatus
  <2>5. rows[d].status \in {"queued", "running", "waiting", "joining"}
    BY <2>1, <2>3 DEF Ordered, Sealed, Unsettled, UnsettledStatus
  <2>6. CASE rows[d].status = "queued"
    BY <2>1, <2>2, <2>4, <2>6 DEF AnswerInv, QueuedLandedFirst
  <2>7. CASE rows[d].status \in {"running", "waiting"}
    BY <1>1, <2>2, <2>7 DEF Inv, ExecutesInAdmissionOrder, Executing
  <2>8. CASE rows[d].status = "joining"
    <3>1. rows[d].joinedInto \in Submissions
      BY <1>1, <2>8, RowFacts DEF ColumnsAgree, Row
    <3>2. PICK h \in Submissions : h = rows[d].joinedInto
      BY <3>1
    <3>3. Joins(d, h) /\ ~Unsettled(h)'
      BY <2>1, <2>8, <3>2 DEF Joins, JoinsFollow
    <3>4. u = h \/ rows[u].status = "terminalizing" \/ Joined(u, h)
      BY <2>1, <2>2, <3>3 DEF AnswerInv, JoinsLandInLine, Clear
    <3>5. CASE Joined(u, h)
      <4>1. ~Joined(u, h)'
        BY <3>3 DEF HostsAreUnsettled, Attached, Joined
      <4> QED BY <2>3, <3>5, <4>1 DEF Ordered, Sealed, Unsettled, UnsettledStatus, Joined
    <3> QED BY <2>4, <3>3, <3>4, <3>5
  <2> QED BY <2>5, <2>6, <2>7, <2>8
<1> QED BY <1>2, <1>3

LEMMA CalmJoinsFollow ==
  ASSUME NoNewJoins, HostsAreUnsettled'
  PROVE  JoinsFollow
<1>1. ASSUME NEW d \in Submissions, NEW h \in Submissions, Joins(d, h)' PROVE Joins(d, h)
  BY <1>1 DEF HostsAreUnsettled, Attached, Joins, NoNewJoins, JoinsKept
<1>2. ASSUME NEW d \in Submissions, NEW h \in Submissions, Joins(d, h),
             rows'[d].status = "queued"
      PROVE  ~Unsettled(h)'
  BY <1>2 DEF Joins, NoNewJoins, JoinsKept
<1> QED BY <1>1, <1>2 DEF JoinsFollow

\* A step neither answers for g nor lands the input of what joins it.
Untouched(g) ==
  /\ Open(g) => Open(g)'
  /\ \A d \in Submissions : Joins(d, g) /\ Persisted(d)' => Persisted(d)

LEMMA OtherStaysOpen ==
  ASSUME AnswerInv, Sound, NEW y \in Executors, executors'[y] = executors[y],
         NEW h, h = executors[y].sub,
         executors[y].pc \in SessionPcs /\ Mine(y) => Untouched(h)
  PROVE  Opens(y)'
<1>1. PICK pc, next, S, a :
        /\ h = executors[y].sub /\ pc = executors[y].pc /\ next = executors[y].next
        /\ S = executors[y].todo /\ a = executors[y].attempt
  OBVIOUS
<1> SUFFICES ASSUME Runs(h, a)', pc \in {"turn", "join", "confirm"}
             PROVE  WillTurn(h, pc, next, S)'
  BY <1>1 DEF Opens, Mine, WillTurn
<1>2. pc \in SessionPcs /\ pc # "input"
  BY DEF SessionPcs
<1>3. h \in Submissions /\ S \in SUBSET Submissions /\ a <= lastAttempt
  BY <1>1, <1>2, ActivityFacts DEF AnswerInv, OrderInv, TasksDiffer, TaskPcs, SessionPcs
<1>4. Runs(h, a)
  BY <1>3, RanBefore DEF AnswerInv
<1>5. WillTurn(h, pc, next, S) /\ Knows(h, pc, S) /\ Untouched(h)
  BY <1>1, <1>2, <1>4 DEF AnswerInv, OrderInv, Opens, Orderly, Mine
<1>6. pc \in {"join", "confirm"} => \A d \in S : d \in Submissions /\ Joins(d, h)
  BY <1>3, <1>5 DEF Knows, InLine
<1> QED BY <1>5, <1>6 DEF WillTurn, Untouched

LEMMA StepKeepsAnswers ==
  ASSUME AnswerInv, OrderInv', Sound, AnswersInOrder', JoinsLandInLine', QueuedLandedFirst',
         NEW x \in Executors, Only(x), Opens(x)',
         \A y \in Executors : \A g :
           y # x /\ g = executors[y].sub /\ executors[y].pc \in SessionPcs /\ Mine(y)
             => Untouched(g)
  PROVE  AnswerInv'
<1>1. ASSUME NEW y \in Executors PROVE Opens(y)'
  <2>1. PICK g : g = executors[y].sub
    OBVIOUS
  <2> QED BY <2>1, OtherStaysOpen DEF Only
<1> QED BY <1>1 DEF AnswerInv

LEMMA SilenceLeavesUntouched ==
  ASSUME stream' = stream, NEW g
  PROVE  Untouched(g)
BY DEF Untouched, Open, Continues, Persisted, InputAt, Positions

\* A step that writes nothing to the stream.
LEMMA SilentStepKeepsAnswers ==
  ASSUME AnswerInv, OrderInv', Sound, RowsOrdered, JoinsFollow, stream' = stream,
         NEW x \in Executors, Only(x), Opens(x)'
  PROVE  AnswerInv'
<1>1. AnswersInOrder'
  BY RowsKeepAnswers
<1>2. JoinsLandInLine' /\ QueuedLandedFirst'
  BY JoinsStayInLine DEF OrderInv
<1> QED BY <1>1, <1>2, SilenceLeavesUntouched, StepKeepsAnswers

\* ... and goes for no turn.
LEMMA CalmStepKeepsAnswers ==
  ASSUME AnswerInv, OrderInv', Sound, RowsOrdered, NoNewJoins, stream' = stream,
         NEW x \in Executors, NEW e, Set(x, e), e.pc \notin {"turn", "join", "confirm"}
  PROVE  AnswerInv'
<1>1. Only(x) /\ executors'[x] = e
  BY SetFacts DEF AnswerInv, OrderInv
<1>2. Opens(x)'
  BY <1>1 DEF Opens, WillTurn
<1> QED BY <1>1, <1>2, CalmJoinsFollow, SilentStepKeepsAnswers DEF OrderInv

LEMMA TwoRunTwo ==
  ASSUME OrderInv, NEW x \in Executors, NEW y \in Executors, x # y, Mine(x), Mine(y),
         executors[x].pc \in SessionPcs, executors[y].pc \in SessionPcs
  PROVE  executors[x].sub # executors[y].sub
BY DEF OrderInv, TasksDiffer, TaskPcs, Mine, Runs

\* A step that appends a record.
LEMMA RecordStepKeepsAnswers ==
  ASSUME AnswerInv, OrderInv', Sound, LedgerUnchanged, NEW r \in Record,
         stream' = Append(stream, r), NEW x \in Executors, Only(x), Opens(x)',
         NEW v, v = r.submission, NEW h, h = executors[x].sub,
         r.type \in {"step", "answer"} => Persisted(v) /\ Open(v) /\ v = h,
         r.type = "input" => v = h \/ (Joins(v, h) /\ Clear(v, h, {})),
         r.type \in {"step", "answer", "input"} => Mine(x) /\ executors[x].pc \in SessionPcs
  PROVE  AnswerInv'
<1>1. PInv /\ Inv /\ OrderInv /\ rows' = rows /\ v \in Submissions
  BY UnwrittenLedger DEF AnswerInv, OrderInv, PInv, Record
<1>2. PICK n : /\ n \in Nat /\ Positions' = Positions \cup {n} /\ n \notin Positions
               /\ stream'[n] = r
               /\ \A i \in Positions : stream'[i] = stream[i] /\ i < n /\ i \in Nat
  BY <1>1, AppendFacts
<1>3. \A d : Persisted(d)' => Persisted(d) \/ (r.type = "input" /\ d = v)
  BY <1>2 DEF Persisted, InputAt
<1>4. r.type \in {"step", "answer", "input"} =>
        h \in Submissions /\ rows[h].status = "running" /\ IsHead(h) /\ Unsettled(h)
  BY <1>1, RunFacts DEF Mine, Runs, Inv, ExecutesInAdmissionOrder, Executing, IsHead,
                        Unsettled, UnsettledStatus
<1>5. AnswersInOrder'
  BY <1>1, <1>4, RecordKeepsAnswers
<1>6. JoinsLandInLine'
  <2> SUFFICES ASSUME NEW d \in Submissions, NEW g \in Submissions, Joins(d, g), Persisted(d)'
               PROVE  Clear(d, g, {})
    BY <1>1 DEF JoinsLandInLine, Joins, Clear, Joined, Earlier, SameSession, Unsettled
  <2>1. CASE Persisted(d)
    BY <2>1 DEF AnswerInv, JoinsLandInLine
  <2>2. CASE r.type = "input" /\ d = v
    BY <1>4, <2>2 DEF Joins
  <2> QED BY <1>3, <2>1, <2>2
<1>7. QueuedLandedFirst'
  <2> SUFFICES ASSUME NEW d \in Submissions, rows[d].status = "queued", Persisted(d)',
                      NEW u \in Submissions, Earlier(u, d), Unsettled(u)
               PROVE  rows[u].status = "terminalizing"
    BY <1>1 DEF QueuedLandedFirst, Earlier, SameSession, Unsettled
  <2>1. ~(r.type = "input" /\ d = v)
    BY <1>4 DEF Joins
  <2> QED BY <1>3, <2>1 DEF AnswerInv, QueuedLandedFirst
<1>8. ASSUME NEW y \in Executors, NEW g, y # x, g = executors[y].sub,
             executors[y].pc \in SessionPcs, Mine(y)
      PROVE  Untouched(g)
  <2>2. r.type \in {"step", "answer", "input"} => g # h
    BY <1>1, <1>8, TwoRunTwo
  <2>3. ASSUME Open(g) PROVE Open(g)'
    <3> SUFFICES ASSUME NEW i \in Positions', stream'[i].type = "answer",
                        stream'[i].submission = g
                 PROVE  \E k \in Positions' : k > i /\ stream'[k].type \in {"input", "cycle"}
      BY DEF Open, Continues
    <3>1. i \in Positions
      BY <1>2, <2>2
    <3>2. PICK k \in Positions : k > i /\ Continues(k)
      BY <1>2, <2>3, <3>1 DEF Open
    <3> QED BY <1>2, <3>2 DEF Continues
  <2>4. ASSUME NEW d \in Submissions, Joins(d, g), Persisted(d)' PROVE Persisted(d)
    BY <1>3, <1>4, <2>2, <2>4 DEF Joins
  <2> QED BY <2>3, <2>4 DEF Untouched
<1> QED BY <1>5, <1>6, <1>7, <1>8, StepKeepsAnswers

LEMMA AsideKeepsAnswers ==
  ASSUME AnswerInv, OrderInv', NEW x \in Executors, Aside(x)
  PROVE  AnswerInv'
BY CalmStepKeepsAnswers DEF Aside, TaskPcs, SessionPcs

LEMMA NewTaskKeepsAnswers ==
  ASSUME AnswerInv, OrderInv', Sound, NEW x \in Executors, NEW s \in Submissions, NEW o, NEW a,
         Claim(s, o) \/ \E b : ReplaceAttempt(s, b, o), stream' = stream,
         Set(x, [Idle EXCEPT !.pc = "start", !.sub = s, !.attempt = a])
  PROVE  AnswerInv'
<1>1. RowsOrdered /\ NoNewJoins
  BY NewAttemptIsCalm, CalmLeavesJoins DEF AnswerInv, OrderInv, PInv
<1>2. [Idle EXCEPT !.pc = "start", !.sub = s, !.attempt = a].pc = "start"
  BY DEF Idle
<1> QED BY <1>1, <1>2, CalmStepKeepsAnswers

LEMMA StartKeepsAnswers ==
  ASSUME AnswerInv, NEW x \in Executors, NEW s \in Submissions, NEW o \in Owners, Start(x, s, o)
  PROVE  AnswerInv'
BY StartKeepsOrder, StartIsSound, NewTaskKeepsAnswers DEF Start, AnswerInv, OrderInv

LEMMA DecideKeepsAnswers ==
  ASSUME AnswerInv, NEW x \in Executors, Decide(x)
  PROVE  AnswerInv'
<1>1. /\ PInv /\ Inv /\ executors[x].sub \in Submissions /\ stream' = stream /\ Sound /\ OrderInv'
  BY ActivityFacts, DecideIsSound, DecideKeepsOrder DEF AnswerInv, OrderInv, Decide, At
<1>2. ASSUME NEW e, Set(x, e), e.pc \notin TaskPcs,
             LedgerUnchanged \/ Requeue(executors[x].sub, executors[x].attempt)
      PROVE  AnswerInv'
  BY <1>1, <1>2, UnwrittenLedger, AttemptIsCalm, CalmLeavesJoins, AsideKeepsAnswers DEF Aside
<1>3. Idle.pc \notin TaskPcs /\ \A outcome : SettleAs(x, outcome).pc \notin TaskPcs
  BY <1>1, PcFacts DEF TaskPcs, SessionPcs
<1> QED BY ZenonT(60), <1>1, <1>2, <1>3, NewTaskKeepsAnswers DEF Decide

LEMMA BeginKeepsAnswers ==
  ASSUME AnswerInv, NEW x \in Executors, Begin(x)
  PROVE  AnswerInv'
<1>1. PInv /\ stream' = stream /\ Sound /\ LedgerUnchanged /\ OrderInv'
  BY BeginIsSound, BeginKeepsOrder DEF AnswerInv, OrderInv, Begin
<1>2. PICK e : Set(x, e) /\ e.pc \in {"idle", "listJoined", "input"}
  BY <1>1, PcFacts DEF Begin
<1> QED BY <1>1, <1>2, UnwrittenLedger, CalmStepKeepsAnswers

LEMMA MarkKeepsAnswers ==
  ASSUME AnswerInv, NEW x \in Executors, NEW d \in Durabilities, Mark(x, d)
  PROVE  AnswerInv'
<1>1. executors[x].pc \in SessionPcs /\ stream' = stream
  BY DEF Mark, At, SessionPcs
<1>2. PInv /\ Inv /\ Sound /\ OrderInv' /\ executors[x].sub \in Submissions
  BY <1>1, RunFacts, MarkIsSound, MarkKeepsOrder DEF AnswerInv
<1>3. PICK e : Set(x, e) /\ e.pc \in {"listJoins", "caught"}
  BY <1>2, PcFacts DEF Mark, Go
<1>4. RowsOrdered /\ NoNewJoins
  BY <1>2, AttemptIsCalm, CalmLeavesJoins, UnwrittenLedger DEF Mark
<1> QED BY <1>1, <1>2, <1>3, <1>4, CalmStepKeepsAnswers

LEMMA ListJoinsKeepsAnswers ==
  ASSUME AnswerInv, NEW x \in Executors, ListJoins(x)
  PROVE  AnswerInv'
<1>1. /\ PInv /\ executors[x] \in Executor /\ Sound /\ OrderInv' /\ LedgerUnchanged
      /\ stream' = stream
  BY ActivityFacts, ListJoinsIsSound, ListJoinsKeepsOrder DEF AnswerInv, OrderInv, ListJoins
<1>2. PICK S : Set(x, [executors[x] EXCEPT !.pc = "resolve", !.todo = S])
  BY DEF ListJoins
<1>3. [executors[x] EXCEPT !.pc = "resolve", !.todo = S].pc = "resolve"
  BY <1>1 DEF Executor
<1> QED BY <1>1, <1>2, <1>3, UnwrittenLedger, CalmStepKeepsAnswers

LEMMA OutsideKeepsAnswers ==
  ASSUME AnswerInv, Outside \/ UNCHANGED pvars
  PROVE  AnswerInv'
<1>1. OrderInv' /\ OrderInv /\ Inv
  BY OutsideKeepsOrder DEF AnswerInv, OrderInv, PInv
<1>2. Sound /\ RowsCalm /\ stream' = stream /\ executors' = executors
  <2>1. CASE Outside
    BY <1>1, <2>1, OutsideIsSound, OutsideIsCalm DEF Outside, OrderInv
  <2>2. CASE UNCHANGED pvars
    <3>1. LedgerUnchanged /\ stream' = stream /\ crashes' = crashes /\ executors' = executors
      BY <2>2 DEF pvars, LedgerUnchanged, vars
    <3>2. Sound
      BY <1>1, <3>1, NoLedgerStep, LedgerStepIsSound DEF OrderInv, PInv
    <3> QED BY <3>1, <3>2, SameRowsAreCalm DEF LedgerUnchanged, vars
  <2> QED BY <2>1, <2>2
<1>3. RowsOrdered /\ NoNewJoins
  BY <1>2, CalmLeavesJoins
<1>4. JoinsFollow
  BY <1>1, <1>3, CalmJoinsFollow DEF OrderInv
<1>5. AnswersInOrder' /\ JoinsLandInLine' /\ QueuedLandedFirst'
  BY <1>1, <1>2, <1>3, <1>4, RowsKeepAnswers, JoinsStayInLine DEF OrderInv
<1>6. ASSUME NEW y \in Executors PROVE Opens(y)'
  <2>1. PICK g : g = executors[y].sub
    OBVIOUS
  <2> QED BY <1>2, <2>1, SilenceLeavesUntouched, OtherStaysOpen
<1> QED BY <1>1, <1>5, <1>6 DEF AnswerInv

LEMMA CaughtKeepsAnswers ==
  ASSUME AnswerInv, OrderInv', Sound, LedgerUnchanged, stream' = stream, NEW x \in Executors,
         Set(x, Caught(x))
  PROVE  AnswerInv'
BY UnwrittenLedger, CalmStepKeepsAnswers, PcFacts DEF AnswerInv, OrderInv

LEMMA AppendSettlementKeepsAnswers ==
  ASSUME AnswerInv, NEW x \in Executors, AppendSettlement(x)
  PROVE  AnswerInv'
<1>1. /\ PInv /\ executors[x] \in Executor /\ LedgerUnchanged /\ Sound /\ OrderInv'
      /\ executors[x].pc = "append" /\ executors[x].target \in Submissions
      /\ AppendAs(x, executors[x].record, executors[x].target,
                  [executors[x] EXCEPT !.pc = "finalize"], Idle)
  BY ActivityFacts, AppendSettlementIsSound, AppendSettlementKeepsOrder
  DEF AnswerInv, OrderInv, AppendSettlement, At, ExecutorOK, SettlePcs
<1>2. PICK r : r = executors[x].record
  OBVIOUS
<1>3. r \in Record /\ r.type = "settled"
  BY <1>1, <1>2, ActivityFacts, DecidedType DEF ExecutorOwes, Owing, Decided, SettledRecord
<1>4. PICK e : Set(x, e) /\ e.pc \in {"finalize", "idle"}
  <2>1. Idle.pc = "idle" /\ [executors[x] EXCEPT !.pc = "finalize"].pc = "finalize"
    BY <1>1, PcFacts
  <2> QED BY <1>1, <2>1 DEF AppendAs
<1>5. CASE stream' = stream
  BY <1>1, <1>4, <1>5, UnwrittenLedger, CalmStepKeepsAnswers
<1>6. CASE stream' = Append(stream, r)
  <2>1. Only(x) /\ executors'[x] = e
    BY <1>1, <1>4, SetFacts
  <2>2. Opens(x)'
    BY <1>4, <2>1 DEF Opens, WillTurn
  <2>3. PICK v, h : v = r.submission /\ h = executors[x].sub
    OBVIOUS
  <2> QED BY <1>1, <1>3, <1>6, <2>1, <2>2, <2>3, RecordStepKeepsAnswers
<1> QED BY <1>1, <1>2, <1>5, <1>6 DEF AppendAs

LEMMA PersistInputKeepsAnswers ==
  ASSUME AnswerInv, NEW x \in Executors, PersistInput(x)
  PROVE  AnswerInv'
<1>1. executors[x].pc \in SessionPcs /\ LedgerUnchanged
  BY DEF PersistInput, At, SessionPcs
<1>2. /\ PInv /\ executors[x] \in Executor /\ executors[x].sub \in Submissions
      /\ executors[x].attempt \in Nat /\ Sound /\ OrderInv'
  BY <1>1, RunFacts, PersistInputIsSound, PersistInputKeepsOrder DEF AnswerInv
<1>3. PICK s \in Submissions : s = executors[x].sub
  BY <1>2
<1>4. PICK e : e = [executors[x] EXCEPT !.pc = "mark"]
  OBVIOUS
<1>5. PICK r : r = RecordOf("input", s, executors[x].attempt)
  OBVIOUS
<1>6. e.pc = "mark"
  BY <1>2, <1>4, PcFacts
<1>7. r \in Record /\ r.type = "input" /\ r.submission = s /\ r.attempt = executors[x].attempt
  BY <1>2, <1>5, RecordOfType DEF RecordTypes, RecordOf
<1>8. \/ Set(x, e) /\ stream' = stream
      \/ AppendAs(x, r, s, e, Caught(x))
  BY <1>3, <1>4, <1>5 DEF PersistInput, Go
<1>9. CASE Set(x, e) /\ stream' = stream
  BY <1>1, <1>2, <1>6, <1>9, UnwrittenLedger, CalmStepKeepsAnswers
<1>10. CASE Set(x, Caught(x)) /\ stream' = stream
  BY <1>1, <1>2, <1>10, CaughtKeepsAnswers
<1>11. CASE Authorized(r, s, executors[x].attempt) /\ stream' = Append(stream, r) /\ Set(x, e)
  <2>1. Only(x) /\ executors'[x] = e
    BY <1>2, <1>11, SetFacts
  <2>2. Opens(x)'
    BY <1>6, <2>1 DEF Opens, WillTurn
  <2>3. Mine(x)
    BY <1>3, <1>7, <1>11 DEF Authorized, SettledRecord, Mine, Runs
  <2> QED BY <1>1, <1>2, <1>3, <1>7, <1>11, <2>1, <2>2, <2>3, RecordStepKeepsAnswers
<1> QED BY <1>8, <1>9, <1>10, <1>11 DEF AppendAs

\* What the step leaves of an attempt that ran before.
LEMMA OpensAfter ==
  ASSUME AnswerInv, Sound, NEW x \in Executors, executors[x].pc \in SessionPcs,
         NEW e, executors'[x] = e, e.sub = executors[x].sub, e.attempt = executors[x].attempt,
         NEW h, h = e.sub, NEW pc, pc = e.pc, NEW next, next = e.next, NEW S, S = e.todo,
         Mine(x) => WillTurn(h, pc, next, S)'
  PROVE  Opens(x)'
<1>1. PICK a : a = executors[x].attempt
  OBVIOUS
<1>2. h \in Submissions /\ a <= lastAttempt
  BY <1>1, ActivityFacts DEF AnswerInv, OrderInv, TasksDiffer, TaskPcs, SessionPcs
<1>3. ASSUME Runs(h, a)' PROVE WillTurn(h, pc, next, S)'
  <2>1. Runs(h, a)
    BY <1>2, <1>3, RanBefore DEF AnswerInv
  <2> QED BY <1>1, <2>1 DEF Mine
<1> QED BY <1>1, <1>3 DEF Opens, Mine

LEMMA DecidedJoinFollows ==
  ASSUME Inv, NEW h \in Submissions, NEW a, NEW s \in Submissions,
         FinalizeJoined(h, a, s) \/ (RevertJoining(h, a, s) /\ ~Persisted(s))
  PROVE  RowsOrdered /\ JoinsFollow
<1>1. RowsOrdered
  BY JoinIsOrdered
<1>2. /\ \A d \in Submissions : d # s => rows'[d] = rows[d]
      /\ rows'[s].status = "joined" \/ (rows'[s].status = "queued" /\ ~Persisted(s))
  BY JoinDecided DEF Joined
<1>3. ASSUME NEW d \in Submissions, NEW g \in Submissions
      PROVE  /\ Joins(d, g)' => Joins(d, g)
             /\ Joins(d, g) /\ rows'[d].status = "queued" => ~Persisted(d)
  BY <1>2 DEF Joins
<1> QED BY <1>1, <1>3 DEF JoinsFollow

LEMMA ResolveJoinKeepsAnswers ==
  ASSUME AnswerInv, NEW x \in Executors, ResolveJoin(x)
  PROVE  AnswerInv'
<1>1. executors[x].pc = "resolve" /\ executors[x].pc \in SessionPcs /\ stream' = stream
  BY DEF ResolveJoin, At, SessionPcs
<1>2. /\ PInv /\ Inv /\ executors[x] \in Executor /\ executors[x].sub \in Submissions
      /\ Sound /\ OrderInv'
  BY <1>1, RunFacts, ResolveJoinIsSound, ResolveJoinKeepsOrder DEF AnswerInv
<1>3. PICK e : Set(x, e) /\ e.pc \in {"resolve", "wakeJoins"}
  <2>1. \A S : [executors[x] EXCEPT !.todo = S].pc = "resolve"
    BY <1>1, <1>2 DEF Executor
  <2>2. \/ Go(x, "wakeJoins")
        \/ \E s : Set(x, [executors[x] EXCEPT !.todo = executors[x].todo \ {s}])
    BY DEF ResolveJoin
  <2>3. CASE Go(x, "wakeJoins")
    BY <1>2, <2>3, PcFacts DEF Go
  <2>4. ASSUME NEW s, Set(x, [executors[x] EXCEPT !.todo = executors[x].todo \ {s}])
        PROVE  \E e : Set(x, e) /\ e.pc \in {"resolve", "wakeJoins"}
    BY <2>1, <2>4
  <2> QED BY <2>2, <2>3, <2>4
<1>4. RowsOrdered /\ JoinsFollow
  <2>1. CASE LedgerUnchanged
    BY <1>2, <2>1, UnwrittenLedger, CalmJoinsFollow DEF OrderInv
  <2>2. ASSUME NEW s \in First(executors[x].todo),
               \/ FinalizeJoined(executors[x].sub, executors[x].attempt, s)
               \/ RevertJoining(executors[x].sub, executors[x].attempt, s) /\ ~Persisted(s)
        PROVE  RowsOrdered /\ JoinsFollow
    <3>1. s \in Submissions
      BY <1>2 DEF First, Executor
    <3> QED BY <1>2, <2>2, <3>1, DecidedJoinFollows
  <2> QED BY <2>1, <2>2 DEF ResolveJoin
<1>5. Only(x) /\ executors'[x] = e
  BY <1>2, <1>3, SetFacts
<1>6. Opens(x)'
  BY <1>3, <1>5 DEF Opens, WillTurn
<1> QED BY <1>1, <1>2, <1>4, <1>5, <1>6, SilentStepKeepsAnswers

LEMMA ConfirmJoinKeepsAnswers ==
  ASSUME AnswerInv, NEW x \in Executors, ConfirmJoin(x)
  PROVE  AnswerInv'
<1>1. executors[x].pc = "confirm" /\ executors[x].pc \in SessionPcs /\ stream' = stream
  BY DEF ConfirmJoin, At, SessionPcs
<1>2. /\ PInv /\ Inv /\ executors[x] \in Executor /\ executors[x].sub \in Submissions
      /\ Sound /\ OrderInv'
  BY <1>1, RunFacts, ConfirmJoinIsSound, ConfirmJoinKeepsOrder DEF AnswerInv
<1>3. PICK h \in Submissions : h = executors[x].sub
  BY <1>2
<1>4. PICK s \in First(executors[x].todo) :
        /\ Set(x, [executors[x] EXCEPT !.pc = "join", !.todo = executors[x].todo \ {s}])
        /\ FinalizeJoined(h, executors[x].attempt, s) \/ LedgerUnchanged
  BY <1>3 DEF ConfirmJoin
<1>5. PICK e : e = [executors[x] EXCEPT !.pc = "join", !.todo = executors[x].todo \ {s}]
  OBVIOUS
<1>6. /\ e.pc = "join" /\ e.sub = h /\ e.attempt = executors[x].attempt
      /\ e.next = executors[x].next /\ s \in Submissions
  BY <1>2, <1>3, <1>5 DEF Executor, First
<1>7. Only(x) /\ executors'[x] = e
  BY <1>2, <1>4, <1>5, SetFacts
<1>8. RowsOrdered /\ JoinsFollow
  BY <1>2, <1>4, <1>6, DecidedJoinFollows, UnwrittenLedger, CalmJoinsFollow DEF OrderInv
<1>9. PICK next, S : next = e.next /\ S = e.todo
  OBVIOUS
<1>10. Mine(x) => WillTurn(h, "join", next, S)'
  <2>1. Mine(x) => (next = "turn" => Open(h))
    BY <1>1, <1>3, <1>6, <1>9 DEF AnswerInv, Opens, WillTurn
  <2>2. Open(h) => Open(h)'
    BY <1>1, SilenceLeavesUntouched DEF Untouched
  <2> QED BY <2>1, <2>2 DEF WillTurn
<1>11. Opens(x)'
  BY <1>1, <1>2, <1>3, <1>6, <1>7, <1>9, <1>10, OpensAfter
<1> QED BY <1>1, <1>2, <1>7, <1>8, <1>11, SilentStepKeepsAnswers

LEMMA ClaimJoinsKeepsAnswers ==
  ASSUME AnswerInv, NEW x \in Executors, ClaimJoins(x)
  PROVE  AnswerInv'
<1>1. /\ executors[x].pc \in {"wakeJoins", "joins"} /\ executors[x].pc \in SessionPcs
      /\ stream' = stream
  BY DEF ClaimJoins, SessionPcs
<1>2. /\ OrderInv /\ PInv /\ Inv /\ executors[x] \in Executor /\ executors[x].sub \in Submissions
      /\ Sound /\ OrderInv'
      /\ Mine(x) => Knows(executors[x].sub, executors[x].pc, executors[x].todo)
  BY <1>1, RunFacts, ClaimJoinsIsSound, ClaimJoinsKeepsOrder DEF AnswerInv
<1>3a. PICK h \in Submissions : h = executors[x].sub
  BY <1>2
<1>3b. PICK a : a = executors[x].attempt
  OBVIOUS
<1>4. CASE Go(x, "drive") /\ LedgerUnchanged
  <2>1. PICK e : Set(x, e) /\ e.pc = "drive"
    BY <1>2, <1>4, PcFacts DEF Go
  <2> QED BY <1>1, <1>2, <1>4, <2>1, UnwrittenLedger, CalmStepKeepsAnswers
<1>5. CASE /\ Runs(h, a) /\ ClaimJoinable(h, a)
           /\ \E next : Set(x, [executors[x] EXCEPT !.pc = "join", !.todo = JoinablePrefix(h),
                                                    !.next = next])
  <2>1. PICK C : C = JoinablePrefix(h)
    OBVIOUS
  <2>2. PICK next : Set(x, [executors[x] EXCEPT !.pc = "join", !.todo = C, !.next = next])
    BY <1>5, <2>1
  <2>3. PICK e : e = [executors[x] EXCEPT !.pc = "join", !.todo = C, !.next = next]
    OBVIOUS
  <2>4. /\ e.pc = "join" /\ e.todo = C /\ e.sub = h /\ e.attempt = executors[x].attempt
        /\ e.next = next
    BY <1>2, <1>3a, <2>3 DEF Executor
  <2>5. Only(x) /\ executors'[x] = e
    BY <1>2, <2>2, <2>3, SetFacts
  <2>6. NoneJoins(h) /\ rows[h].status = "running" /\ Unsettled(h)
    BY <1>1, <1>2, <1>3a, <1>3b, <1>5 DEF Mine, Knows, Runs, Unsettled, UnsettledStatus
  <2>7. ASSUME NEW d \in C PROVE d \in Submissions /\ rows[d].status = "queued" /\ ~Persisted(d)
    <3>1. d \in Submissions /\ rows[d].status = "queued" /\ Earlier(h, d)
      BY <1>2, <2>1, <2>6, <2>7, ClaimIsClear
    <3>2. rows[h].status # "terminalizing"
      BY <2>6
    <3> QED BY <2>6, <3>1, <3>2 DEF AnswerInv, QueuedLandedFirst
  <2>8. \A d \in Submissions : d \notin C => rows'[d] = rows[d]
    BY <1>5, <2>1 DEF ClaimJoinable
  <2>9. RowsOrdered /\ C # {}
    BY <1>2, <1>5, <2>1, JoinIsOrdered DEF ClaimJoinable
  <2>10. JoinsFollow
    <3>1. ASSUME NEW d \in Submissions, NEW g \in Submissions
          PROVE  /\ Joins(d, g)' => Joins(d, g) \/ ~Persisted(d)
                 /\ ~(Joins(d, g) /\ rows'[d].status = "queued")
      BY <2>7, <2>8 DEF Joins
    <3> QED BY <3>1 DEF JoinsFollow
  <2>11. WillTurn(h, "join", next, C)'
    <3>1. \A d \in C : ~Persisted(d)'
      BY <1>1, <2>7 DEF Persisted, InputAt, Positions
    <3> QED BY <2>9, <3>1 DEF WillTurn
  <2>12. Opens(x)'
    BY <1>1, <1>2, <1>3a, <2>4, <2>5, <2>11, OpensAfter
  <2> QED BY <1>1, <1>2, <2>5, <2>9, <2>10, <2>12, SilentStepKeepsAnswers
<1> QED BY <1>3a, <1>3b, <1>4, <1>5 DEF ClaimJoins

\* More input, or a continuation, gives every response a reason to go on.
LEMMA ContinuationOpens ==
  ASSUME PInv, NEW r \in Record, r.type \in {"input", "cycle"}, stream' = Append(stream, r),
         NEW g
  PROVE  Open(g)'
<1>1. PICK n : /\ n \in Nat /\ Positions' = Positions \cup {n} /\ n \notin Positions
               /\ stream'[n] = r
               /\ \A i \in Positions : stream'[i] = stream[i] /\ i < n /\ i \in Nat
  BY AppendFacts
<1> SUFFICES ASSUME NEW i \in Positions', stream'[i].type = "answer"
             PROVE  \E k \in Positions' : k > i /\ stream'[k].type \in {"input", "cycle"}
  BY DEF Open, Continues
<1>2. i \in Positions
  BY <1>1
<1>3. n > i /\ n \in Positions'
  BY <1>1, <1>2
<1> QED BY <1>1, <1>3

LEMMA ApplyJoinKeepsAnswers ==
  ASSUME AnswerInv, NEW x \in Executors, ApplyJoin(x)
  PROVE  AnswerInv'
<1>1. executors[x].pc = "join" /\ executors[x].pc \in SessionPcs /\ LedgerUnchanged
  BY DEF ApplyJoin, At, SessionPcs
<1>2. /\ OrderInv /\ PInv /\ Inv /\ executors[x] \in Executor /\ executors[x].sub \in Submissions
      /\ executors[x].todo \in SUBSET Submissions /\ executors[x].attempt \in Nat
      /\ Sound /\ OrderInv' /\ RowsOrdered /\ NoNewJoins /\ rows' = rows
      /\ Mine(x) => Knows(executors[x].sub, "join", executors[x].todo)
  BY <1>1, RunFacts, ApplyJoinIsSound, ApplyJoinKeepsOrder, UnwrittenLedger DEF AnswerInv
<1>3. JoinsFollow
  BY <1>2, CalmJoinsFollow DEF OrderInv
<1>4a. PICK h \in Submissions : h = executors[x].sub
  BY <1>2
<1>4b. PICK S \in SUBSET Submissions : S = executors[x].todo
  BY <1>2
<1>4c. PICK a \in Nat : a = executors[x].attempt
  BY <1>2
<1>4d. PICK next : next = executors[x].next
  OBVIOUS
<1>4. /\ h = executors[x].sub /\ S = executors[x].todo /\ a = executors[x].attempt
      /\ next = executors[x].next
      /\ Mine(x) => WillTurn(h, "join", next, S) /\ Knows(h, "join", S)
  BY <1>1, <1>2, <1>4a, <1>4b, <1>4c, <1>4d DEF AnswerInv, Opens
<1>5. CASE S = {} /\ stream' = stream
           /\ Set(x, [executors[x] EXCEPT !.pc = next, !.next = None])
  <2>1. PICK e : e = [executors[x] EXCEPT !.pc = next, !.next = None]
    OBVIOUS
  <2>2. /\ e.pc = next /\ e.todo = S /\ e.sub = h /\ e.attempt = executors[x].attempt
        /\ e.next = None
    BY <1>2, <1>4, <2>1 DEF Executor
  <2>3. Only(x) /\ executors'[x] = e
    BY <1>2, <1>5, <2>1, SetFacts
  <2>4. next \in {"turn", "drive"}
    BY <1>1, <1>2, <1>4, ActivityFacts DEF ExecutorOK
  <2>5. Mine(x) => WillTurn(h, next, None, S)'
    <3>1. Mine(x) /\ next = "turn" => Open(h)
      BY <1>4, <1>5 DEF WillTurn
    <3>2. Open(h) => Open(h)'
      BY <1>5, SilenceLeavesUntouched DEF Untouched
    <3> QED BY <2>4, <3>1, <3>2 DEF WillTurn
  <2>6. Opens(x)'
    BY <1>1, <1>2, <1>4, <2>2, <2>3, <2>5, OpensAfter
  <2> QED BY <1>2, <1>3, <1>5, <2>3, <2>6, SilentStepKeepsAnswers
<1>6. ASSUME NEW s \in First(S),
             IF Persisted(s)
               THEN Go(x, "confirm") /\ UNCHANGED stream
               ELSE AppendAs(x, RecordOf("input", s, a), h,
                             [executors[x] EXCEPT !.pc = "confirm"], Caught(x))
      PROVE  AnswerInv'
  <2>1. PICK e : e = [executors[x] EXCEPT !.pc = "confirm"]
    OBVIOUS
  <2>2. PICK r : r = RecordOf("input", s, a)
    OBVIOUS
  <2>3. /\ e.pc = "confirm" /\ e.todo = S /\ e.sub = h /\ e.attempt = executors[x].attempt
        /\ e.next = next
    BY <1>2, <1>4, <2>1 DEF Executor
  <2>4. s \in Submissions /\ s \in S
    BY DEF First
  <2>5. r \in Record /\ r.type = "input" /\ r.submission = s /\ r.attempt = a
    BY <2>2, <2>4, RecordOfType DEF RecordTypes, RecordOf
  <2>6. IF Persisted(s) THEN Set(x, e) /\ stream' = stream ELSE AppendAs(x, r, h, e, Caught(x))
    BY <1>6, <2>1, <2>2 DEF Go
  <2>7. ASSUME Set(x, e), Mine(x) => Open(h)'
        PROVE  Only(x) /\ Opens(x)'
    <3>1. Only(x) /\ executors'[x] = e
      BY <1>2, <2>7, SetFacts
    <3>2. Mine(x) => WillTurn(h, "confirm", next, S)'
      BY <2>7 DEF WillTurn
    <3> QED BY <1>1, <1>2, <1>4, <2>3, <3>1, <3>2, OpensAfter
  <2>8. CASE Persisted(s)
    <3>1. Set(x, e) /\ stream' = stream
      BY <2>6, <2>8
    <3>2. Only(x) /\ executors'[x] = e
      BY <1>2, <3>1, SetFacts
    <3>3. Mine(x) => WillTurn(h, "confirm", next, S)'
      <4>1. Mine(x) => (next = "turn" => Open(h))
        BY <1>4, <2>4, <2>8 DEF WillTurn
      <4>2. Open(h) => Open(h)'
        BY <3>1, SilenceLeavesUntouched DEF Untouched
      <4> QED BY <4>1, <4>2 DEF WillTurn
    <3>4. Opens(x)'
      BY <1>1, <1>2, <1>4, <2>3, <3>2, <3>3, OpensAfter
    <3> QED BY <1>2, <1>3, <3>1, <3>2, <3>4, SilentStepKeepsAnswers
  <2>9. CASE ~Persisted(s) /\ ~Authorized(r, h, executors[x].attempt)
    BY <1>1, <1>2, <2>6, <2>9, CaughtKeepsAnswers DEF AppendAs
  <2>10. CASE ~Persisted(s) /\ Authorized(r, h, executors[x].attempt)
    <3>1. stream' = Append(stream, r) /\ Set(x, e)
      BY <2>6, <2>10 DEF AppendAs
    <3>2. Mine(x)
      BY <1>4, <2>5, <2>10 DEF Authorized, SettledRecord, Mine, Runs
    <3>3. Only(x) /\ Opens(x)'
      BY <1>2, <2>5, <2>7, <3>1, ContinuationOpens
    <3>4. InLine(h, S)
      BY <1>4, <3>2 DEF Knows
    <3>5. Joins(s, h) /\ Clear(s, h, {})
      <4>1. Joins(s, h) /\ \A u \in S : ~Earlier(u, s)
        BY <1>2, <3>4, FirstInLine
      <4> QED BY <2>4, <3>4, <4>1 DEF InLine, Clear
    <3> QED BY <1>1, <1>2, <1>4, <2>5, <3>1, <3>2, <3>3, <3>5, RecordStepKeepsAnswers
  <2> QED BY <2>8, <2>9, <2>10
<1> QED BY <1>4, <1>5, <1>6 DEF ApplyJoin

\* Whose input has landed and who has not completed answered last, if at all, and
\* was asked to go on.
LEMMA UnfinishedIsOpen ==
  ASSUME AnswerInv, NEW s \in Submissions, Unsettled(s), Persisted(s), Inspect(s) # "completed"
  PROVE  Open(s)
<1> SUFFICES ASSUME NEW i \in Positions, stream[i].type = "answer", stream[i].submission = s
             PROVE  \E k \in Positions : k > i /\ Continues(k)
  BY DEF Open
<1>1. /\ Inv /\ stream \in Seq(Record) /\ AnswersInOrder
      /\ \A k \in Positions : k \in Nat
  BY DEF AnswerInv, OrderInv, PInv, Positions
<1>2. AssistantAt(i)
  BY DEF AssistantAt
<1>3. PICK i0 \in Positions : i0 < i /\ InputAt(i0, s)
  BY <1>1, <1>2 DEF AnswersInOrder, AnswersFollowInput
<1>4. PICK j \in Positions : j > i /\ AssistantAt(j)
  <2>1. Inspect(s) = IF \E p, q \in Positions :
                          /\ p < q /\ InputAt(p, s) /\ stream[q].type = "answer"
                          /\ \A k \in Positions : k > q => ~AssistantAt(k)
                       THEN "completed" ELSE "interrupted"
    BY DEF Inspect
  <2>2. ~ \E p, q \in Positions :
            /\ p < q /\ InputAt(p, s) /\ stream[q].type = "answer"
            /\ \A k \in Positions : k > q => ~AssistantAt(k)
    BY <2>1
  <2> QED BY <1>3, <2>2
<1>5. PICK u \in Submissions : u = stream[j].submission
  BY <1>1, StreamFacts
<1>6. rows[u].sequence <= rows[s].sequence
  BY <1>4, <1>5, AnswersLieInFront
<1>7. rows[s].sequence <= rows[u].sequence
  BY <1>1, <1>2, <1>4, <1>5 DEF AnswersInOrder, AnswersKeepOrder
<1>8. u = s
  <2>1. rows[u].sequence \in Nat /\ rows[s].sequence \in Nat /\ rows[s].status # "absent"
    BY <1>1, RowFacts DEF Row, Unsettled, UnsettledStatus
  <2>2. rows[u].sequence = rows[s].sequence
    BY <1>6, <1>7, <2>1
  <2> QED BY <1>1, <2>1, <2>2 DEF Inv, SequencesAreUnique
<1>9. PICK k \in i .. j : stream[k].type \in {"input", "cycle"}
  BY <1>1, <1>4, <1>5, <1>8 DEF AnswersInOrder, AnswersAreNotRepeated
<1>10. k # i /\ k \in Positions /\ k > i
  <2>1. i \in Nat /\ j \in Nat /\ k \in Nat /\ i <= k /\ k <= j
    BY <1>1, <1>9
  <2>2. k # i
    BY <1>9
  <2>3. k \in Positions
    BY <1>1, <2>1 DEF Positions
  <2> QED BY <2>1, <2>2, <2>3
<1> QED BY <1>9, <1>10 DEF Continues

LEMMA SteeredIsOpen ==
  ASSUME AnswerInv, NEW s, Steered(s)
  PROVE  Open(s)
<1>1. \A k \in Positions : k \in Nat
  BY DEF AnswerInv, OrderInv, PInv, Positions
<1>2. PICK i \in Positions :
        /\ stream[i].type \in {"input", "cycle"}
        /\ \A k \in Positions : k > i => ~AssistantAt(k)
  BY DEF Steered
<1>3. ASSUME NEW k \in Positions, stream[k].type = "answer" PROVE i > k
  <2>1. AssistantAt(k) /\ k # i
    BY <1>2, <1>3 DEF AssistantAt
  <2>2. ~(k > i)
    BY <1>2, <2>1
  <2> QED BY <1>1, <2>1, <2>2
<1> QED BY <1>2, <1>3 DEF Open, Continues

LEMMA TurnKeepsAnswers ==
  ASSUME AnswerInv, NEW x \in Executors, NEW type \in {"step", "answer"}, Turn(x, type)
  PROVE  AnswerInv'
<1>1. executors[x].pc = "turn" /\ executors[x].pc \in SessionPcs /\ LedgerUnchanged
  BY DEF Turn, At, SessionPcs
<1>2. /\ PInv /\ executors[x] \in Executor /\ executors[x].sub \in Submissions
      /\ executors[x].attempt \in Nat /\ Sound /\ OrderInv' /\ Persisted(executors[x].sub)
  BY <1>1, RunFacts, TurnIsSound, TurnKeepsOrder DEF AnswerInv
<1>3. PICK h \in Submissions : h = executors[x].sub
  BY <1>2
<1>4. PICK e : e = [executors[x] EXCEPT !.pc = "joins"]
  OBVIOUS
<1>5. PICK r : r = RecordOf(type, h, executors[x].attempt)
  OBVIOUS
<1>6. e.pc = "joins"
  BY <1>2, <1>4, PcFacts
<1>7. r \in Record /\ r.type = type /\ r.submission = h
  BY <1>2, <1>5, RecordOfType DEF RecordTypes, RecordOf
<1>8. AppendAs(x, r, h, e, Caught(x))
  BY <1>3, <1>4, <1>5 DEF Turn
<1>9. CASE stream' = stream /\ Set(x, Caught(x))
  BY <1>1, <1>2, <1>9, CaughtKeepsAnswers
<1>10. CASE Authorized(r, h, executors[x].attempt) /\ stream' = Append(stream, r) /\ Set(x, e)
  <2>1. Only(x) /\ executors'[x] = e
    BY <1>2, <1>10, SetFacts
  <2>2. Opens(x)'
    BY <1>6, <2>1 DEF Opens, WillTurn
  <2>3. Mine(x)
    BY <1>3, <1>7, <1>10 DEF Authorized, SettledRecord, Mine, Runs
  <2>4. Open(h)
    BY <1>1, <1>3, <2>3 DEF AnswerInv, Opens, WillTurn
  <2> QED BY <1>1, <1>2, <1>3, <1>7, <1>10, <2>1, <2>2, <2>3, <2>4, RecordStepKeepsAnswers
<1> QED BY <1>8, <1>9, <1>10 DEF AppendAs

LEMMA DriveKeepsAnswers ==
  ASSUME AnswerInv, NEW x \in Executors, Drive(x)
  PROVE  AnswerInv'
<1>1. executors[x].pc = "drive" /\ executors[x].pc \in SessionPcs /\ LedgerUnchanged
  BY DEF Drive, At, SessionPcs
<1>2. /\ PInv /\ executors[x] \in Executor /\ executors[x].sub \in Submissions
      /\ executors[x].attempt \in Nat /\ Sound /\ OrderInv' /\ Persisted(executors[x].sub)
      /\ RowsOrdered /\ NoNewJoins
  BY <1>1, RunFacts, DriveIsSound, DriveKeepsOrder, UnwrittenLedger DEF AnswerInv
<1>3. PICK h \in Submissions : h = executors[x].sub
  BY <1>2
<1>4. PICK e : e = [executors[x] EXCEPT !.pc = "turn"]
  OBVIOUS
<1>5. /\ e.pc = "turn" /\ e.sub = h /\ e.attempt = executors[x].attempt
  BY <1>2, <1>3, <1>4 DEF Executor
<1>6. ASSUME Set(x, e), Mine(x) => Open(h)'
      PROVE  Only(x) /\ Opens(x)'
  <2>1. Only(x) /\ executors'[x] = e
    BY <1>2, <1>6, SetFacts
  <2>2. PICK next, S : next = e.next /\ S = e.todo
    OBVIOUS
  <2>3. Mine(x) => WillTurn(h, "turn", next, S)'
    BY <1>6 DEF WillTurn
  <2> QED BY <1>1, <1>2, <1>3, <1>5, <2>1, <2>2, <2>3, OpensAfter
<1>7. CASE (Inspect(h) # "completed" \/ Steered(h)) /\ Set(x, e) /\ stream' = stream
  <2>1. Mine(x) => Open(h)
    <3>1. Mine(x) => Unsettled(h)
      BY <1>3 DEF Mine, Runs, Unsettled, UnsettledStatus
    <3> QED BY <1>2, <1>3, <1>7, <3>1, UnfinishedIsOpen, SteeredIsOpen
  <2>2. Open(h) => Open(h)'
    BY <1>7, SilenceLeavesUntouched DEF Untouched
  <2>3. JoinsFollow
    BY <1>2, CalmJoinsFollow DEF OrderInv
  <2> QED BY <1>2, <1>6, <1>7, <2>1, <2>2, <2>3, SilentStepKeepsAnswers
<1>8. CASE Go(x, "ran") /\ stream' = stream
  <2>1. PICK q : Set(x, q) /\ q.pc = "ran"
    BY <1>2, <1>8, PcFacts DEF Go
  <2> QED BY <1>2, <1>8, <2>1, CalmStepKeepsAnswers
<1>9. CASE AppendAs(x, RecordOf("cycle", h, executors[x].attempt), h, e, Caught(x))
  <2>1. PICK r : r = RecordOf("cycle", h, executors[x].attempt)
    OBVIOUS
  <2>2. r \in Record /\ r.type = "cycle" /\ r.submission = h
    BY <1>2, <2>1, RecordOfType DEF RecordTypes, RecordOf
  <2>3. CASE stream' = stream /\ Set(x, Caught(x))
    BY <1>1, <1>2, <2>3, CaughtKeepsAnswers
  <2>4. CASE stream' = Append(stream, r) /\ Set(x, e)
    <3>1. Only(x) /\ Opens(x)'
      BY <1>2, <1>6, <2>2, <2>4, ContinuationOpens
    <3> QED BY <1>1, <1>2, <1>3, <2>2, <2>4, <3>1, RecordStepKeepsAnswers
  <2> QED BY <1>9, <2>1, <2>3, <2>4 DEF AppendAs
<1> QED BY <1>3, <1>4, <1>7, <1>8, <1>9 DEF Drive, Go

LEMMA InitAnswerInv ==
  ASSUME ProcessingInit
  PROVE  AnswerInv
<1>1. OrderInv
  BY InitOrderInv
<1>2. Positions = {} /\ \A s \in Submissions : rows[s].status = "absent"
  BY DEF ProcessingInit, Init, AbsentRow, Positions
<1>3. AnswersInOrder
  BY <1>2 DEF AnswersInOrder, AnswersFollowInput, OnlyHeadsAnswer, AnswersKeepOrder,
              AnswersAreNotRepeated
<1>4. JoinsLandInLine /\ QueuedLandedFirst
  BY <1>2 DEF JoinsLandInLine, QueuedLandedFirst, Joins
<1>5. \A x \in Executors : Opens(x)
  BY <1>2 DEF Opens, WillTurn, Open, ProcessingInit, Idle
<1> QED BY <1>1, <1>3, <1>4, <1>5 DEF AnswerInv

LEMMA NextAnswerInv ==
  ASSUME AnswerInv, [ProcessingNext]_pvars
  PROVE  AnswerInv'
<1>1. CASE Outside \/ UNCHANGED pvars
  BY <1>1, OutsideKeepsAnswers
<1>2. OrderInv' /\ PInv
  BY NextOrderInv DEF AnswerInv, OrderInv
<1>3. ASSUME NEW x \in Executors, Looks(x) \/ Reserve(x) \/ Finalize(x) PROVE AnswerInv'
  BY <1>2, <1>3, LooksAside, SettlesAside, AsideKeepsAnswers
<1>4. ASSUME NEW x \in Executors, ExecutorStep(x) PROVE AnswerInv'
  BY <1>3, <1>4, BeginKeepsAnswers, PersistInputKeepsAnswers, MarkKeepsAnswers,
     ListJoinsKeepsAnswers, ResolveJoinKeepsAnswers, ClaimJoinsKeepsAnswers,
     ApplyJoinKeepsAnswers, ConfirmJoinKeepsAnswers, DriveKeepsAnswers, TurnKeepsAnswers,
     AppendSettlementKeepsAnswers, DecideKeepsAnswers DEF ExecutorStep, Looks
<1>5. ASSUME NEW x \in Executors, PassStep(x) \/ Crash(x) PROVE AnswerInv'
  BY <1>3, <1>5, StartKeepsAnswers DEF PassStep, Looks
<1> QED BY <1>1, <1>4, <1>5 DEF ProcessingNext

LEMMA SpecAnswerInv == ProcessingSpec => []AnswerInv
<1>1. ProcessingInit => AnswerInv
  BY InitAnswerInv
<1>2. AnswerInv /\ [ProcessingNext]_pvars => AnswerInv'
  BY NextAnswerInv
<1> QED BY <1>1, <1>2, PTL DEF ProcessingSpec

\* Whatever attempts die, are replaced or are requeued, and whichever deliveries
\* join on the way, a response that was answered only goes on when more input or
\* a requested continuation landed behind the answer.
THEOREM AnswersStayUnrepeated == ProcessingSpec => []AnswersAreNotRepeated
<1>1. AnswerInv => AnswersAreNotRepeated
  BY DEF AnswerInv, AnswersInOrder
<1> QED BY <1>1, SpecAnswerInv, PTL

-----------------------------------------------------------------------------
(* How often a submission is started *)

\* What can be claimed, now or once it is released, has an attempt left.
Startable == {"queued", "joining", "waiting"}
HasTried(n) == \E m \in AttemptLimits : n <= m
MayTry(n) == \E m \in AttemptLimits : n < m

\* The row s may become q: it stays within a limit, and whoever goes on to run
\* under its attempt is not charged.
Counts(s, q) ==
  /\ q.maxAttempts \in AttemptLimits
  /\ HasTried(q.attemptCount)
  /\ q.status \in Startable => MayTry(q.attemptCount)
  /\ q.status = "running" =>
       \/ q.attempt = lastAttempt + 1
       \/ Runs(s, q.attempt) /\ q.attemptCount = rows[s].attemptCount

RowsWithin ==
  \A s \in Submissions :
    /\ rows[s].maxAttempts \in AttemptLimits
    /\ HasTried(rows[s].attemptCount)
    /\ rows[s].status \in Startable => MayTry(rows[s].attemptCount)

RowsCount == \A s \in Submissions : Counts(s, rows'[s])

\* What an inspection read is what the attempt still is, as long as it runs.
Inspecting == {"inspect", "decide"}
InspectorKnows(e) ==
  e.pc \in Inspecting =>
    /\ e.sub \in Submissions /\ e.attempt <= lastAttempt
    /\ e.row.maxAttempts \in AttemptLimits
    /\ Runs(e.sub, e.attempt) => rows[e.sub].attemptCount = e.row.attemptCount

LimitInv ==
  /\ PInv
  /\ RowsWithin
  /\ \A x \in Executors : InspectorKnows(executors[x])

LEMMA LimitFacts ==
  /\ AttemptLimits \subseteq Nat \ {0}
  /\ DefaultMaxAttempts \in AttemptLimits
  /\ \A d \in Durabilities : d.maxAttempts \in AttemptLimits
BY DurabilityAssumption DEF AttemptLimits

LEMMA TryingCounts ==
  ASSUME NEW n \in Nat
  PROVE  /\ MayTry(n) => HasTried(n) /\ HasTried(n + 1)
         /\ MayTry(0)
<1>1. \A m \in AttemptLimits : m \in Nat /\ 0 < m
  BY LimitFacts
<1> QED BY <1>1, LimitFacts DEF MayTry, HasTried

LEMMA SameRowCounts ==
  ASSUME RowsWithin, NEW s \in Submissions
  PROVE  Counts(s, rows[s])
BY DEF RowsWithin, Counts, Runs

LEMMA WriteCounts ==
  ASSUME Inv, RowsWithin, NEW t \in Submissions, NEW q, Counts(t, q),
         rows' = [rows EXCEPT ![t] = q]
  PROVE  RowsCount
BY SameRowCounts DEF RowsCount, Inv, TypeOK

LEMMA ClaimCounts ==
  ASSUME Inv, RowsWithin, NEW t \in Submissions, NEW o \in Owners, Claim(t, o)
  PROVE  RowsCount
<1> DEFINE q == Claimed(rows[t], lastAttempt + 1, o)
<1>1. rows[t] \in Row /\ rows[t].attemptCount \in Nat
  BY RowFacts DEF Row
<1>2. /\ q.status = "running" /\ q.attempt = lastAttempt + 1
      /\ q.attemptCount = rows[t].attemptCount + 1
      /\ q.maxAttempts \in {rows[t].maxAttempts, DefaultMaxAttempts}
  BY <1>1 DEF Claimed, Row
<1>3. rows' = [rows EXCEPT ![t] = q]
  BY DEF Claim, WriteWithNewAttempt
<1> HIDE DEF q
<1>4. MayTry(rows[t].attemptCount)
  BY DEF Claim, Runnable, RowsWithin, Startable
<1>5. HasTried(q.attemptCount)
  BY <1>1, <1>2, <1>4, TryingCounts
<1>6. Counts(t, q)
  BY <1>2, <1>5, LimitFacts DEF Counts, RowsWithin, Startable
<1> QED BY <1>3, <1>6, WriteCounts

LEMMA MarkCounts ==
  ASSUME Inv, RowsWithin, NEW t \in Submissions, NEW a, NEW d \in Durabilities,
         MarkInputApplied(t, a, d)
  PROVE  RowsCount
<1>1. rows[t] \in Row
  BY RowFacts
<1>2. Counts(t, Stamped(rows[t], d))
  BY <1>1, LimitFacts, SameRowCounts DEF MarkInputApplied, Runs, Stamped, Counts, Row, Startable
<1> QED BY <1>2, WriteCounts DEF MarkInputApplied, Write

LEMMA JoinCounts ==
  ASSUME Inv, RowsWithin, NEW h \in Submissions, NEW a,
         \/ ClaimJoinable(h, a)
         \/ \E t \in Submissions : FinalizeJoined(h, a, t) \/ RevertJoining(h, a, t)
  PROVE  RowsCount
<1>1. CASE ClaimJoinable(h, a)
  <2>1. ASSUME NEW s \in JoinablePrefix(h) PROVE Counts(s, Joining(rows[s], h))
    <3>1. s \in Submissions /\ rows[s].status = "queued" /\ rows[s] \in Row
      BY RowFacts DEF JoinablePrefix
    <3> QED BY <3>1, SameRowCounts DEF Joining, Counts, Row, Startable
  <2> QED BY <1>1, <2>1, SameRowCounts, RowFacts DEF ClaimJoinable, RowsCount
<1>2. ASSUME NEW t \in Submissions, FinalizeJoined(h, a, t) \/ RevertJoining(h, a, t)
      PROVE  RowsCount
  <2>1. rows[t] \in Row /\ rows[t].status = "joining" /\ Counts(t, rows[t])
    BY <1>2, RowFacts, SameRowCounts DEF FinalizeJoined, RevertJoining
  <2>2. Counts(t, [rows[t] EXCEPT !.status = "joined", !.inputApplied = TRUE])
    BY <2>1 DEF Counts, Row, Startable
  <2>3. Counts(t, Released(rows[t]))
    BY <2>1 DEF Released, Counts, Row, Startable
  <2> QED BY <1>2, <2>2, <2>3, WriteCounts DEF FinalizeJoined, RevertJoining, Write
<1> QED BY <1>1, <1>2

LEMMA SettlementCounts ==
  ASSUME Inv, RowsWithin, NEW t \in Submissions, NEW a,
         (\E outcome : ReserveSettlement(t, a, outcome)) \/ FinalizeSettlement(t, a)
  PROVE  RowsCount
<1>1. rows[t] \in Row /\ Counts(t, rows[t])
  BY RowFacts, SameRowCounts
<1>2. ASSUME NEW outcome, ReserveSettlement(t, a, outcome) PROVE RowsCount
  <2>1. Counts(t, Reserved(rows[t], a, outcome))
    BY <1>1 DEF Reserved, Counts, Row, Startable
  <2> QED BY <1>2, <2>1, WriteCounts DEF ReserveSettlement, Write
<1>3. ASSUME NEW error, SettleWithJoins(t, error), NEW s \in Submissions
      PROVE  Counts(s, rows'[s])
  <2>1. rows[s] \in Row /\ Counts(s, rows[s])
    BY RowFacts, SameRowCounts
  <2>2. Counts(s, Settled(rows[s], error))
    BY <2>1 DEF Settled, Counts, Row, Startable
  <2>3. rows[s].status = "joining" => Counts(s, Released(rows[s]))
    BY <2>1 DEF Released, Counts, Row, Startable
  <2> QED BY <1>3, <2>1, <2>2, <2>3 DEF SettleWithJoins, FanOut, Attached
<1> QED BY <1>2, <1>3 DEF FinalizeSettlement, RowsCount

LEMMA OutsideCounts ==
  ASSUME Inv, RowsWithin, Outside
  PROVE  RowsCount
<1>1. ASSUME NEW t \in Submissions, Admit(t) PROVE RowsCount
  <2> DEFINE q == [AbsentRow EXCEPT !.status = "queued", !.sequence = lastSequence + 1]
  <2>1. q.status = "queued" /\ q.attemptCount = 0 /\ q.maxAttempts = DefaultMaxAttempts
    BY DEF AbsentRow
  <2>2. rows' = [rows EXCEPT ![t] = q]
    BY <1>1 DEF Admit
  <2> HIDE DEF q
  <2>3. Counts(t, q)
    BY <2>1, TryingCounts, LimitFacts DEF Counts
  <2> QED BY <2>2, <2>3, WriteCounts
<1>2. ASSUME NEW t \in Submissions, MarkCanonicalReady(t) PROVE RowsCount
  <2>1. rows[t] \in Row /\ Counts(t, rows[t])
    BY RowFacts, SameRowCounts
  <2>2. Counts(t, [rows[t] EXCEPT !.ready = TRUE])
    BY <2>1 DEF Counts, Row
  <2> QED BY <1>2, <2>2, WriteCounts DEF MarkCanonicalReady, Write
<1>3. ASSUME NEW k \in Sessions, RequestSessionAbort(k), NEW s \in Submissions
      PROVE  Counts(s, rows'[s])
  <2>1. rows[s] \in Row /\ Counts(s, rows[s])
    BY RowFacts, SameRowCounts
  <2>2. Counts(s, AbortedRow(rows[s]))
    BY <2>1 DEF AbortedRow, Counts, Row, Startable
  <2> QED BY <1>3, <2>1, <2>2 DEF RequestSessionAbort
<1>4. CASE Tick
  BY <1>4, SameRowCounts DEF Tick, RowsCount
<1> QED BY <1>1, <1>2, <1>3, <1>4 DEF Outside, RowsCount

\* A pass that gives the submission to another attempt, or back to the queue,
\* read a row that had one left, and the fence held.
LEMMA DecisionCounts ==
  ASSUME LimitInv, NEW x \in Executors, Decide(x)
  PROVE  RowsCount
<1> DEFINE s == executors[x].sub
           a == executors[x].attempt
           r == executors[x].row
<1>1. s \in Submissions /\ Inv /\ r.maxAttempts \in AttemptLimits /\ r.attemptCount \in Nat
  <2>1. executors[x] \in Executor /\ executors[x].pc = "decide"
    BY ActivityFacts DEF LimitInv, Decide, At
  <2> QED BY <2>1 DEF LimitInv, PInv, InspectorKnows, Inspecting, Executor, Row
<1>2. Runs(s, a) => rows[s].attemptCount = r.attemptCount
  BY DEF LimitInv, InspectorKnows, Inspecting, Decide, At
<1>3. rows[s] \in Row /\ rows[s].attemptCount \in Nat /\ Counts(s, rows[s])
  BY <1>1, RowFacts, SameRowCounts DEF Row, LimitInv
<1>4. ASSUME Runs(s, a), ~Exhausted(r) PROVE MayTry(rows[s].attemptCount)
  <2>1. r.maxAttempts \in Nat
    BY <1>1, LimitFacts
  <2>2. rows[s].attemptCount < r.maxAttempts
    BY <1>1, <1>2, <1>4, <2>1 DEF Exhausted
  <2> QED BY <1>1, <2>2 DEF MayTry
<1>5. Verdict(r, executors[x].found) \in {"replace", "requeue"} => ~Exhausted(r)
  BY DEF Verdict, Outcomes
<1>6. ASSUME NEW o, ReplaceAttempt(s, a, o), ~Exhausted(r) PROVE RowsCount
  <2> DEFINE q == Replaced(rows[s], lastAttempt + 1, o)
  <2>1. /\ q.status = "running" /\ q.attempt = lastAttempt + 1
        /\ q.attemptCount = rows[s].attemptCount + 1 /\ q.maxAttempts = rows[s].maxAttempts
    BY <1>3, <1>6 DEF Replaced, Row, ReplaceAttempt, Runs
  <2>2. rows' = [rows EXCEPT ![s] = q]
    BY <1>6 DEF ReplaceAttempt, WriteWithNewAttempt
  <2> HIDE DEF q
  <2>3. HasTried(q.attemptCount)
    BY <1>3, <1>4, <1>6, <2>1, TryingCounts DEF ReplaceAttempt
  <2>4. Counts(s, q)
    BY <1>3, <2>1, <2>3 DEF Counts, Startable
  <2> QED BY <1>1, <2>2, <2>4, WriteCounts DEF LimitInv
<1>7. ASSUME Requeue(s, a), ~Exhausted(r) PROVE RowsCount
  <2>1. MayTry(rows[s].attemptCount)
    BY <1>4, <1>7 DEF Requeue
  <2>2. Counts(s, Requeued(rows[s]))
    BY <1>3, <2>1 DEF Requeued, Counts, Row
  <2> QED BY <1>1, <1>7, <2>2, WriteCounts DEF Requeue, Write, LimitInv
<1>8. CASE LedgerUnchanged
  BY <1>8, SameRowCounts DEF LedgerUnchanged, vars, RowsCount, LimitInv
<1> QED BY <1>5, <1>6, <1>7, <1>8 DEF Decide

\* The next state e of an activity knows the row after the step.
KnowsThen(e) ==
  e.pc \in Inspecting =>
    /\ e.sub \in Submissions /\ e.attempt <= lastAttempt'
    /\ e.row.maxAttempts \in AttemptLimits
    /\ rows'[e.sub].status = "running" /\ rows'[e.sub].attempt = e.attempt
       => rows'[e.sub].attemptCount = e.row.attemptCount

LEMMA InspectionStays ==
  ASSUME PInv, Sound, RowsCount, NEW e, InspectorKnows(e), e.attempt \in Nat
  PROVE  KnowsThen(e)
<1> SUFFICES ASSUME e.pc \in Inspecting PROVE KnowsThen(e)
  BY DEF KnowsThen
<1>1. /\ e.sub \in Submissions /\ e.attempt <= lastAttempt /\ lastAttempt \in Nat
      /\ lastAttempt' \in {lastAttempt, lastAttempt + 1}
  BY DEF InspectorKnows, PInv, Inv, TypeOK, Sound, LedgerStep
<1>2. e.attempt # lastAttempt + 1 /\ e.attempt <= lastAttempt'
  BY <1>1
<1>3. Counts(e.sub, rows'[e.sub])
  BY <1>1 DEF RowsCount
<1> QED BY <1>1, <1>2, <1>3 DEF Counts, Runs, InspectorKnows, KnowsThen

LEMMA StepKeepsLimits ==
  ASSUME LimitInv, Sound, RowsCount,
         executors' = executors \/ \E x \in Executors : \E e : Set(x, e) /\ KnowsThen(e)
  PROVE  LimitInv'
<1>1. PInv' /\ PInv
  BY SoundKeepsPInv DEF LimitInv
<1>2. RowsWithin'
  BY DEF RowsCount, Counts, RowsWithin
<1>3. ASSUME NEW y \in Executors PROVE KnowsThen(executors'[y])
  <2>1. KnowsThen(executors[y])
    BY <1>1, ActivityFacts, InspectionStays DEF LimitInv
  <2>2. ASSUME NEW x \in Executors, NEW e, Set(x, e), KnowsThen(e)
        PROVE  KnowsThen(executors'[y])
    <3>1. executors'[y] = IF y = x THEN e ELSE executors[y]
      BY <1>1, <2>2 DEF Set, PInv, ExecutorsOK
    <3> QED BY <2>1, <2>2, <3>1
  <2> QED BY <2>1, <2>2
<1>4. \A y \in Executors : InspectorKnows(executors[y])'
  BY <1>3 DEF KnowsThen, InspectorKnows, Runs
<1> QED BY <1>1, <1>2, <1>4 DEF LimitInv

\* x inspects nothing after the step.
LooksAway(x) == \E e : Set(x, e) /\ e.pc \notin Inspecting

LEMMA RunLooksAway ==
  ASSUME PInv, NEW x \in Executors,
         \/ Begin(x) \/ PersistInput(x) \/ \E d \in Durabilities : Mark(x, d)
         \/ ListJoins(x) \/ ResolveJoin(x) \/ ClaimJoins(x) \/ ApplyJoin(x) \/ ConfirmJoin(x)
         \/ Drive(x) \/ (\E type \in {"step", "answer"} : Turn(x, type)) \/ Throw(x) \/ EndRun(x)
  PROVE  LooksAway(x)
<1> USE DEF Inspecting
<1>1. executors[x] \in Executor /\ ExecutorOK(executors[x])
  BY ActivityFacts
<1>2. LooksAway(x) \/ ~Set(x, Idle)
  BY PcFacts DEF LooksAway
<1>3. LooksAway(x) \/ ~Set(x, Caught(x))
  BY PcFacts DEF LooksAway
<1>4. \A outcome : LooksAway(x) \/ ~Set(x, SettleAs(x, outcome))
  BY PcFacts DEF LooksAway
<1>5. ASSUME NEW pc \in Pcs \ Inspecting, Set(x, [executors[x] EXCEPT !.pc = pc])
      PROVE  LooksAway(x)
  <2>1. [executors[x] EXCEPT !.pc = pc].pc = pc
    BY PcFacts
  <2> QED BY <1>5, <2>1 DEF LooksAway
<1>6. \A pc : pc \in Pcs \ Inspecting /\ Go(x, pc) => LooksAway(x)
  BY <1>5 DEF Go
<1>7. {"input", "mark", "listJoins", "wakeJoins", "drive", "turn", "ran", "confirm", "joins"}
        \subseteq Pcs \ Inspecting
  BY DEF Pcs, SessionPcs
<1>8. CASE Begin(x)
  BY <1>2, <1>4, <1>5, <1>7, <1>8 DEF Begin
<1>9. CASE PersistInput(x)
  BY <1>3, <1>5, <1>6, <1>7, <1>9 DEF PersistInput, AppendAs
<1>10. CASE \E d \in Durabilities : Mark(x, d)
  BY <1>3, <1>6, <1>7, <1>10 DEF Mark
<1>11. CASE ListJoins(x)
  <2>1. \A S : [executors[x] EXCEPT !.pc = "resolve", !.todo = S].pc = "resolve"
    BY <1>1 DEF Executor
  <2> QED BY <1>11, <2>1 DEF ListJoins, LooksAway
<1>12. CASE ResolveJoin(x)
  <2>1. \A S : [executors[x] EXCEPT !.todo = S].pc = executors[x].pc
    BY <1>1 DEF Executor
  <2>2. executors[x].pc = "resolve"
    BY <1>12 DEF ResolveJoin, At
  <2>3. \/ Go(x, "wakeJoins")
        \/ \E s : Set(x, [executors[x] EXCEPT !.todo = executors[x].todo \ {s}])
    BY <1>12 DEF ResolveJoin
  <2> QED BY <1>6, <1>7, <2>1, <2>2, <2>3 DEF LooksAway
<1>13. CASE ClaimJoins(x)
  <2>1. \A S, n : [executors[x] EXCEPT !.pc = "join", !.todo = S, !.next = n].pc = "join"
    BY <1>1 DEF Executor
  <2>2. Go(x, "drive") \/ \E S, n : Set(x, [executors[x] EXCEPT !.pc = "join", !.todo = S, !.next = n])
    BY <1>13 DEF ClaimJoins
  <2> QED BY <1>6, <1>7, <2>1, <2>2 DEF LooksAway
<1>14. CASE ApplyJoin(x)
  <2>1. executors[x].next \in {"turn", "drive"}
    BY <1>1, <1>14 DEF ExecutorOK, ApplyJoin, At
  <2>2. \A pc, n : [executors[x] EXCEPT !.pc = pc, !.next = n].pc = pc
    BY <1>1 DEF Executor
  <2>3. Set(x, [executors[x] EXCEPT !.pc = executors[x].next, !.next = None]) => LooksAway(x)
    BY <2>1, <2>2 DEF LooksAway
  <2> QED BY <1>3, <1>5, <1>6, <1>7, <1>14, <2>3 DEF ApplyJoin, AppendAs
<1>15. CASE ConfirmJoin(x)
  <2>1. \A S : [executors[x] EXCEPT !.pc = "join", !.todo = S].pc = "join"
    BY <1>1 DEF Executor
  <2>2. \E S : Set(x, [executors[x] EXCEPT !.pc = "join", !.todo = S])
    BY <1>15 DEF ConfirmJoin
  <2> QED BY <2>1, <2>2 DEF LooksAway
<1>16. CASE Drive(x)
  BY <1>3, <1>5, <1>6, <1>7, <1>16 DEF Drive, AppendAs
<1>17. CASE \E type \in {"step", "answer"} : Turn(x, type)
  BY <1>3, <1>5, <1>7, <1>17 DEF Turn, AppendAs
<1>18. CASE Throw(x) \/ EndRun(x)
  BY <1>2, <1>3, <1>4, <1>18 DEF Throw, EndRun, Ended
<1> QED BY <1>8, <1>9, <1>10, <1>11, <1>12, <1>13, <1>14, <1>15, <1>16, <1>17, <1>18

LEMMA SettlementLooksAway ==
  ASSUME PInv, NEW x \in Executors,
         \/ ListJoined(x) \/ Lookup(x) \/ Reserve(x) \/ Check(x) \/ AppendSettlement(x)
         \/ Finalize(x) \/ Crash(x) \/ \E s \in Submissions : TakeUp(x, s)
  PROVE  LooksAway(x)
<1> USE DEF Inspecting
<1>1. executors[x] \in Executor
  BY ActivityFacts
<1>2. ASSUME Set(x, Idle) PROVE LooksAway(x)
  BY <1>2, PcFacts DEF LooksAway
<1>3. ASSUME NEW pc \in {"check", "append", "finalize"}, Go(x, pc) PROVE LooksAway(x)
  <2>1. [executors[x] EXCEPT !.pc = pc].pc = pc
    BY PcFacts
  <2> QED BY <1>3, <2>1 DEF Go, LooksAway
<1>4. ASSUME NEW S, SettleNext(x, S) PROVE LooksAway(x)
  <2>1. PICK s : Set(x, [executors[x] EXCEPT !.pc = "lookup", !.todo = S, !.record = None,
                                             !.target = s])
    BY <1>4 DEF SettleNext
  <2>2. [executors[x] EXCEPT !.pc = "lookup", !.todo = S, !.record = None, !.target = s].pc
          = "lookup"
    BY <1>1 DEF Executor
  <2> QED BY <2>1, <2>2 DEF LooksAway
<1>5. CASE ListJoined(x)
  BY <1>4, <1>5 DEF ListJoined
<1>6. CASE Lookup(x)
  <2>1. PICK owed, pc : /\ pc \in {"reserve", "check"}
                        /\ Set(x, [executors[x] EXCEPT !.record = owed, !.pc = pc])
    BY <1>6 DEF Lookup
  <2>2. [executors[x] EXCEPT !.record = owed, !.pc = pc].pc = pc
    BY <1>1 DEF Executor
  <2> QED BY <2>1, <2>2 DEF LooksAway
<1>7. ASSUME AfterTarget(x) PROVE LooksAway(x)
  BY <1>2, <1>4, <1>7 DEF AfterTarget
<1>8. CASE Reserve(x)
  <2>1. \A r : [executors[x] EXCEPT !.pc = "check", !.record = r].pc = "check"
    BY <1>1 DEF Executor
  <2>2. AfterTarget(x) \/ \E r : Set(x, [executors[x] EXCEPT !.pc = "check", !.record = r])
    BY <1>8 DEF Reserve
  <2> QED BY <1>7, <2>1, <2>2 DEF LooksAway
<1>9. CASE Check(x)
  BY <1>3, <1>9 DEF Check
<1>10. CASE AppendSettlement(x)
  <2>1. Set(x, Idle) \/ Go(x, "finalize")
    BY <1>10 DEF AppendSettlement, AppendAs, Go
  <2> QED BY <1>2, <1>3, <2>1
<1>11. CASE Finalize(x)
  BY <1>7, <1>11 DEF Finalize
<1>12. CASE Crash(x)
  BY <1>2, <1>12 DEF Crash
<1>13. ASSUME NEW s \in Submissions, TakeUp(x, s) PROVE LooksAway(x)
  <2> DEFINE e == [Idle EXCEPT !.pc = "check", !.sub = s, !.target = s,
                               !.attempt = rows[s].attempt, !.record = Obligation(s)]
  <2>1. Set(x, e) /\ e.pc = "check"
    BY <1>13 DEF TakeUp, Idle
  <2> QED BY <2>1 DEF LooksAway
<1> QED BY <1>5, <1>6, <1>8, <1>9, <1>10, <1>11, <1>12, <1>13

LEMMA DecisionLooksAway ==
  ASSUME PInv, NEW x \in Executors,
         Decide(x) \/ \E s \in Submissions, o \in Owners : Start(x, s, o)
  PROVE  LooksAway(x)
<1> USE DEF Inspecting
<1>1. \A s, a : [Idle EXCEPT !.pc = "start", !.sub = s, !.attempt = a].pc = "start"
  BY DEF Idle
<1>2. \/ Set(x, Idle) \/ \E outcome : Set(x, SettleAs(x, outcome))
      \/ \E s, a : Set(x, [Idle EXCEPT !.pc = "start", !.sub = s, !.attempt = a])
  BY DEF Decide, Start
<1> QED BY <1>1, <1>2, PcFacts DEF LooksAway

\* A recovery pass lists a row, and inspects it as it read it.
LEMMA InspectionKnows ==
  ASSUME LimitInv, NEW x \in Executors,
         InspectInput(x) \/ \E s \in Submissions : Recover(x, s)
  PROVE  \E e : Set(x, e) /\ KnowsThen(e)
<1>1. PInv /\ Inv /\ executors[x] \in Executor /\ rows' = rows /\ lastAttempt' = lastAttempt
  BY ActivityFacts DEF LimitInv, InspectInput, Recover, LedgerUnchanged, vars
<1>2. ASSUME NEW s \in Submissions, Recover(x, s) PROVE \E e : Set(x, e) /\ KnowsThen(e)
  <2> DEFINE e == [Idle EXCEPT !.pc = "inspect", !.sub = s, !.attempt = rows[s].attempt,
                               !.row = rows[s]]
  <2>1. e.sub = s /\ e.attempt = rows[s].attempt /\ e.row = rows[s] /\ Set(x, e)
    BY <1>2 DEF Recover, Idle
  <2> HIDE DEF e
  <2>2. rows[s].attempt <= lastAttempt
    <3>1. PICK a : a = rows[s].attempt
      OBVIOUS
    <3>2. a \in 1 .. lastAttempt /\ lastAttempt \in Nat
      BY <1>1, <1>2, <3>1, AttemptIsKnown DEF Recover, Runs, AttemptIds, Inv, TypeOK
    <3> QED BY <3>1, <3>2
  <2>3. KnowsThen(e)
    BY <1>1, <2>1, <2>2 DEF KnowsThen, LimitInv, RowsWithin
  <2> QED BY <2>1, <2>3
<1>3. CASE InspectInput(x)
  <2>1. CASE Set(x, SettleAs(x, "failed"))
    BY <1>1, <2>1, PcFacts DEF KnowsThen, Inspecting
  <2>2. ASSUME NEW found, Set(x, [executors[x] EXCEPT !.pc = "decide", !.found = found])
        PROVE  \E e : Set(x, e) /\ KnowsThen(e)
    <3> DEFINE e == [executors[x] EXCEPT !.pc = "decide", !.found = found]
    <3>1. e.sub = executors[x].sub /\ e.attempt = executors[x].attempt /\ e.row = executors[x].row
      BY <1>1 DEF Executor
    <3>2. Set(x, e)
      BY <2>2
    <3> HIDE DEF e
    <3>3. InspectorKnows(executors[x]) /\ executors[x].pc \in Inspecting
      BY <1>3 DEF LimitInv, InspectInput, At, Inspecting
    <3>4. KnowsThen(e)
      BY <1>1, <3>1, <3>3 DEF KnowsThen, InspectorKnows, Runs
    <3> QED BY <3>2, <3>4
  <2> QED BY <1>3, <2>1, <2>2 DEF InspectInput
<1> QED BY <1>2, <1>3

\* The operations of the ledger that a step of x takes.
LEMMA StepCounts ==
  ASSUME LimitInv, NEW x \in Executors, ExecutorStep(x) \/ PassStep(x) \/ Crash(x)
  PROVE  RowsCount
<1> USE DEF LimitInv
<1>1. Inv /\ executors[x] \in Executor /\ ExecutorOK(executors[x])
      /\ (executors[x].pc # "idle" => executors[x].sub \in Submissions)
  BY ActivityFacts
<1>2. LedgerUnchanged => RowsCount
  BY SameRowCounts DEF LedgerUnchanged, vars, RowsCount
<1>3. ASSUME NEW d \in Durabilities, Mark(x, d) PROVE RowsCount
  BY <1>1, <1>2, <1>3, MarkCounts DEF Mark, At
<1>4. CASE ResolveJoin(x) \/ ClaimJoins(x) \/ ConfirmJoin(x)
  <2> DEFINE h == executors[x].sub
             a == executors[x].attempt
  <2>1. h \in Submissions
    BY <1>1, <1>4 DEF ResolveJoin, ClaimJoins, ConfirmJoin, At
  <2>2. \/ LedgerUnchanged \/ ClaimJoinable(h, a)
        \/ \E t \in Submissions : FinalizeJoined(h, a, t) \/ RevertJoining(h, a, t)
    BY <1>1, <1>4 DEF ResolveJoin, ClaimJoins, ConfirmJoin, First, Executor
  <2> HIDE DEF h, a
  <2> QED BY <1>1, <1>2, <2>1, <2>2, JoinCounts
<1>5. CASE Reserve(x) \/ Finalize(x)
  <2>1. executors[x].target \in Submissions
    BY <1>1, <1>5 DEF Reserve, Finalize, At, ExecutorOK, SettlePcs
  <2> QED BY <1>1, <1>2, <1>5, <2>1, SettlementCounts DEF Reserve, Finalize
<1>6. CASE PassStep(x)
  BY <1>1, <1>2, <1>6, ClaimCounts DEF PassStep, Start, Recover, TakeUp
<1>7. CASE Decide(x)
  BY <1>7, DecisionCounts
<1>8. CASE \/ Begin(x) \/ PersistInput(x) \/ ListJoins(x) \/ ApplyJoin(x) \/ Drive(x)
           \/ (\E type \in {"step", "answer"} : Turn(x, type)) \/ Throw(x) \/ EndRun(x)
           \/ ListJoined(x) \/ Lookup(x) \/ Check(x) \/ AppendSettlement(x)
           \/ InspectInput(x) \/ Crash(x)
  BY <1>2, <1>8 DEF Begin, PersistInput, ListJoins, ApplyJoin, Drive, Turn, Throw, EndRun,
                    ListJoined, Lookup, Check, AppendSettlement, InspectInput, Crash
<1> QED BY <1>3, <1>4, <1>5, <1>6, <1>7, <1>8 DEF ExecutorStep

LEMMA StepSets ==
  ASSUME LimitInv, NEW x \in Executors, ExecutorStep(x) \/ PassStep(x) \/ Crash(x)
  PROVE  \E e : Set(x, e) /\ KnowsThen(e)
<1>1. LooksAway(x) => \E e : Set(x, e) /\ KnowsThen(e)
  BY DEF LooksAway, KnowsThen
<1>2. CASE InspectInput(x) \/ \E s \in Submissions : Recover(x, s)
  BY <1>2, InspectionKnows
<1>3. PInv
  BY DEF LimitInv
<1>4. CASE ExecutorStep(x)
  BY <1>1, <1>2, <1>3, <1>4, RunLooksAway, SettlementLooksAway, DecisionLooksAway
  DEF ExecutorStep
<1>5. CASE PassStep(x) \/ Crash(x)
  BY <1>1, <1>2, <1>3, <1>5, SettlementLooksAway, DecisionLooksAway DEF PassStep
<1> QED BY <1>4, <1>5

LEMMA NextLimitInv ==
  ASSUME LimitInv, [ProcessingNext]_pvars
  PROVE  LimitInv'
<1>1. PInv /\ Inv
  BY DEF LimitInv, PInv
<1>2. CASE ProcessingNext
  <2>1. Sound
    BY <1>1, <1>2, StepIsSound
  <2>2. CASE Outside
    <3>1. executors' = executors /\ RowsCount
      BY <1>1, <2>2, OutsideCounts DEF Outside, LimitInv
    <3> QED BY <2>1, <3>1, StepKeepsLimits
  <2>3. ASSUME NEW x \in Executors, ExecutorStep(x) \/ PassStep(x) \/ Crash(x)
        PROVE  LimitInv'
    BY <2>1, <2>3, StepCounts, StepSets, StepKeepsLimits
  <2> QED BY <1>2, <2>2, <2>3 DEF ProcessingNext
<1>3. CASE UNCHANGED pvars
  <2>1. LedgerUnchanged /\ stream' = stream /\ crashes' = crashes /\ executors' = executors
    BY <1>3 DEF pvars, LedgerUnchanged, vars
  <2>2. Sound
    BY <1>1, <2>1, NoLedgerStep, LedgerStepIsSound
  <2>3. RowsCount
    BY <2>1, SameRowCounts DEF LedgerUnchanged, vars, RowsCount, LimitInv
  <2> QED BY <2>1, <2>2, <2>3, StepKeepsLimits
<1> QED BY <1>2, <1>3

\* Whichever passes and attempts race, and however often a submission is put
\* back without its stamp, it is not started more often than the larger of the
\* default limit and its agent's allows.
THEOREM AttemptsStayLimited == ProcessingSpec => []AttemptsAreLimited
<1>1. ProcessingInit => LimitInv
  <2> SUFFICES ASSUME ProcessingInit PROVE LimitInv
    OBVIOUS
  <2>1. \A s \in Submissions : rows[s] = AbsentRow
    BY DEF ProcessingInit, Init
  <2>2. RowsWithin
    BY <2>1, LimitFacts, TryingCounts DEF RowsWithin, AbsentRow, Startable
  <2>3. \A x \in Executors : InspectorKnows(executors[x])
    BY DEF ProcessingInit, InspectorKnows, Inspecting, Idle
  <2> QED BY <2>2, <2>3, InitPInv DEF LimitInv
<1>2. LimitInv /\ [ProcessingNext]_pvars => LimitInv'
  BY NextLimitInv
<1>3. LimitInv => AttemptsAreLimited
  BY DEF LimitInv, RowsWithin, HasTried, AttemptsAreLimited
<1> QED BY <1>1, <1>2, <1>3, PTL DEF ProcessingSpec

=============================================================================
