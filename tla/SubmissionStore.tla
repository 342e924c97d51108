--------------------------- MODULE SubmissionStore ---------------------------
(***************************************************************************)
(* The submission ledger of the runtime: the table flue_agent_submissions  *)
(* and the store operations that write it (AgentSubmissionStoreImpl in     *)
(* src/packages/runtime/src/sql-agent-execution-store.ts).                 *)
(*                                                                         *)
(* Every operation is one SQL statement or one synchronous transaction, so *)
(* it is one action here.  The callers are not modelled: any holder of any *)
(* attempt id ever issued, stale ones included, may call any operation at  *)
(* any time.  A call whose compare-and-set misses returns null or false    *)
(* and writes nothing, which is a stuttering step.                         *)
(***************************************************************************)
EXTENDS Integers, FiniteSets

CONSTANTS
  Submissions,        \* ids a caller may submit under
  Sessions,           \* session keys
  Agents,             \* agent names
  Owners,             \* coordinator (process) ids
  SessionOf,          \* session key in a submission's payload
  AgentOf,            \* agent name in a submission's payload
  Malformed,          \* submissions whose persisted payload does not parse
  Durabilities,       \* (maxAttempts, timeout) pairs agents configure
  DefaultMaxAttempts, \* DURABILITY_DEFAULT_MAX_ATTEMPTS
  DefaultTimeout,     \* DURABILITY_DEFAULT_TIMEOUT_MS
  None,               \* SQL NULL
  MaxAttemptIds,      \* bound: attempt ids ever generated
  MaxTime             \* bound: how far the clock runs

ASSUME SubmissionsAssumption ==
  /\ None \notin Submissions
  /\ None \notin Owners
  /\ None \notin Nat
  /\ None \notin {"completed", "failed", "aborted", "malformed"}
  /\ SessionOf \in [Submissions -> Sessions]
  /\ AgentOf \in [Submissions -> Agents]
  /\ Malformed \subseteq Submissions

ASSUME DurabilityAssumption ==
  /\ DefaultMaxAttempts \in Nat \ {0}
  /\ DefaultTimeout \in Nat \ {0}
  /\ Durabilities \subseteq [maxAttempts : Nat \ {0}, timeout : Nat \ {0}]
  /\ MaxAttemptIds \in Nat
  /\ MaxTime \in Nat

VARIABLES
  rows,         \* flue_agent_submissions, by submission id
  lastSequence, \* AUTOINCREMENT high-water mark of the table
  lastAttempt,  \* attempt ids generated so far are 1 .. lastAttempt
  now           \* the wall clock, Date.now()

ledger == <<rows, lastSequence>>
vars == <<rows, lastSequence, lastAttempt, now>>

-----------------------------------------------------------------------------
(* Rows *)

UnsettledStatus ==
  {"queued", "running", "waiting", "terminalizing", "joining", "joined"}
Status == UnsettledStatus \cup {"absent", "settled"}

Outcomes == {"completed", "failed", "aborted"}

\* What the error column distinguishes: NULL, or the message of a failure, of
\* an abort, or of a payload that did not parse.
Errors == {None, "failed", "aborted", "malformed"}
ErrorOf(outcome) == IF outcome = "completed" THEN None ELSE outcome

NoAttempt == 0
LeaseStates == {"none", "live", "lapsed"}

Row == [status         : Status,
        sequence       : Nat,
        ready          : BOOLEAN,                 \* canonical_ready_at set
        attempt        : Nat,                     \* attempt_id
        startedAt      : Nat,                     \* started_at
        inputApplied   : BOOLEAN,                 \* input_applied_at set
        abortRequested : BOOLEAN,                 \* abort_requested_at set
        joinedInto     : Submissions \cup {None},
        settlement     : Outcomes \cup {None},    \* settlement_record's outcome
        error          : Errors,
        attemptCount   : Nat,
        maxAttempts    : Nat,
        timeoutAt      : Nat,
        remaining      : Nat \cup {None},         \* approval_timeout_remaining_ms
        owner          : Owners \cup {None},
        lease          : LeaseStates]             \* lease_expires_at against the clock

AbsentRow ==
  [status |-> "absent", sequence |-> 0, ready |-> FALSE, attempt |-> NoAttempt,
   startedAt |-> 0, inputApplied |-> FALSE, abortRequested |-> FALSE,
   joinedInto |-> None, settlement |-> None, error |-> None, attemptCount |-> 0,
   maxAttempts |-> DefaultMaxAttempts, timeoutAt |-> 0, remaining |-> None,
   owner |-> None, lease |-> "none"]

Unsettled(s) == rows[s].status \in UnsettledStatus
SameSession(s, t) == SessionOf[s] = SessionOf[t]
Earlier(t, s) == SameSession(s, t) /\ rows[t].sequence < rows[s].sequence

\* Mutant: the test overlooks a submission parked for an approval.
IsHeadOverParked(s) ==
  \A t \in Submissions : Earlier(t, s) => ~Unsettled(t) \/ rows[t].status = "waiting"

\* The NOT EXISTS test of the claim and of the runnable list.
IsHead(s) == \A t \in Submissions : Earlier(t, s) => ~Unsettled(t)
\* Mutant: the claim tests for a running submission only.
RunnableUnlessRunning(s) ==
  /\ rows[s].status = "queued" /\ rows[s].ready
  /\ \A t \in Submissions : SameSession(s, t) => rows[t].status # "running"
Runnable(s) == rows[s].status = "queued" /\ rows[s].ready /\ IsHead(s)

\* Mutant: the fence compares the attempt only.
HoldsAttempt(s, a) == rows[s].attempt = a
\* The fence of every attempt-owned operation.
Runs(s, a) == rows[s].status = "running" /\ rows[s].attempt = a
AttemptIds == 1 .. lastAttempt

Attached(s, h) == rows[s].joinedInto = h /\ rows[s].status \in {"joining", "joined"}

-----------------------------------------------------------------------------
Init ==
  /\ rows = [s \in Submissions |-> AbsentRow]
  /\ lastSequence = 0
  /\ lastAttempt = 0
  /\ now = 0

\* The store writes row s and nothing else.
Write(s, r) ==
  /\ rows' = [rows EXCEPT ![s] = r]
  /\ UNCHANGED <<lastSequence, lastAttempt, now>>

\* The store writes row s for a caller that just generated an attempt id.
WriteWithNewAttempt(s, r) ==
  /\ lastAttempt < MaxAttemptIds
  /\ lastAttempt' = lastAttempt + 1
  /\ rows' = [rows EXCEPT ![s] = r]
  /\ UNCHANGED <<lastSequence, now>>

(* Admission *)

\* INSERT OR IGNORE: a replayed admission finds its row and writes nothing.
Admit(s) ==
  /\ rows[s].status = "absent"
  /\ lastSequence' = lastSequence + 1
  /\ rows' = [rows EXCEPT ![s] =
       [AbsentRow EXCEPT !.status = "queued", !.sequence = lastSequence + 1]]
  /\ UNCHANGED <<lastAttempt, now>>

MarkCanonicalReady(s) ==
  /\ rows[s].status = "queued"
  /\ Write(s, [rows[s] EXCEPT !.ready = TRUE])

(* Attempts *)

\* The deadline a claim installs: what an approval wait left of the budget, or
\* the default for a row that has none yet.
ClaimDeadline(r) ==
  IF r.remaining # None THEN now + (IF r.remaining > 1 THEN r.remaining ELSE 1)
  ELSE IF r.timeoutAt = 0 THEN now + DefaultTimeout
  ELSE r.timeoutAt

\* Mutant: a claim after an approval wait is not charged.
ClaimedUncharged(r, a, o) ==
  [r EXCEPT !.status = "running", !.attempt = a, !.startedAt = now,
            !.attemptCount = IF r.remaining = None THEN r.attemptCount + 1 ELSE r.attemptCount,
            !.maxAttempts = IF r.inputApplied THEN r.maxAttempts ELSE DefaultMaxAttempts,
            !.timeoutAt = ClaimDeadline(r), !.remaining = None,
            !.owner = o, !.lease = "live"]

Claimed(r, a, o) ==
  [r EXCEPT !.status = "running",
            !.attempt = a,
            !.startedAt = now,
            !.attemptCount = r.attemptCount + 1,
            !.maxAttempts = IF r.inputApplied THEN r.maxAttempts ELSE DefaultMaxAttempts,
            !.timeoutAt = ClaimDeadline(r),
            !.remaining = None,
            !.owner = o,
            !.lease = "live"]

Claim(s, o) ==
  /\ Runnable(s)
  /\ WriteWithNewAttempt(s, Claimed(rows[s], lastAttempt + 1, o))

\* The agent's durability is stamped unless the row carries a stamp already, and
\* anchored at the attempt's start.
Stamped(r, d) ==
  IF r.inputApplied THEN r
  ELSE [r EXCEPT !.inputApplied = TRUE,
                 !.maxAttempts = d.maxAttempts,
                 !.timeoutAt = r.startedAt + d.timeout]

MarkInputApplied(s, a, d) == Runs(s, a) /\ Write(s, Stamped(rows[s], d))

\* Recovery hands an interrupted submission to a new attempt.
Replaced(r, a, o) ==
  [r EXCEPT !.attempt = a, !.startedAt = now, !.attemptCount = r.attemptCount + 1,
            !.owner = o, !.lease = "live"]

ReplaceAttempt(s, a, o) ==
  Runs(s, a) /\ WriteWithNewAttempt(s, Replaced(rows[s], lastAttempt + 1, o))

\* Mutant: the requeue leaves the lease with its owner.
RequeuedLeased(r) ==
  [r EXCEPT !.status = "queued", !.attempt = NoAttempt, !.inputApplied = FALSE,
            !.startedAt = 0]

Requeued(r) ==
  [r EXCEPT !.status = "queued", !.attempt = NoAttempt, !.inputApplied = FALSE,
            !.startedAt = 0, !.owner = None, !.lease = "none"]

Requeue(s, a) == Runs(s, a) /\ Write(s, Requeued(rows[s]))

RenewLeases(o) ==
  LET held == {s \in Submissions : rows[s].owner = o /\ rows[s].status = "running"}
  IN  \E S \in SUBSET held :
        /\ S # {}
        /\ rows' = [s \in Submissions |->
                      IF s \in S THEN [rows[s] EXCEPT !.lease = "live"] ELSE rows[s]]
        /\ UNCHANGED <<lastSequence, lastAttempt, now>>

\* The clock passes lease_expires_at before anybody renewed it.
LeaseLapses(s) ==
  /\ Unsettled(s)
  /\ rows[s].lease = "live"
  /\ Write(s, [rows[s] EXCEPT !.lease = "lapsed"])

(* Abort *)

\* The row half of requestSessionAbort; a waiting row goes back to the queue so
\* that a claim can settle it (its proposals close in the same transaction,
\* see ToolApprovals).
Abortable == UnsettledStatus \ {"terminalizing"}
AbortedRow(r) ==
  IF r.status = "waiting"
    THEN [r EXCEPT !.status = "queued", !.abortRequested = TRUE,
                   !.inputApplied = FALSE, !.remaining = None, !.timeoutAt = 0]
    ELSE [r EXCEPT !.abortRequested = TRUE]

RequestSessionAbort(k) ==
  /\ \E s \in Submissions : SessionOf[s] = k /\ rows[s].status \in Abortable
  /\ rows' = [s \in Submissions |->
                IF SessionOf[s] = k /\ rows[s].status \in Abortable
                  THEN AbortedRow(rows[s]) ELSE rows[s]]
  /\ UNCHANGED <<lastSequence, lastAttempt, now>>

-----------------------------------------------------------------------------
(* Settlement *)

\* Mutant: the release refunds an attempt the delivery never had.
ReleasedWithRefund(r) ==
  [r EXCEPT !.status = "queued", !.joinedInto = None, !.inputApplied = FALSE,
            !.attemptCount = r.attemptCount - 1]

Released(r) ==
  [r EXCEPT !.status = "queued", !.joinedInto = None, !.inputApplied = FALSE]

Settled(r, error) == [r EXCEPT !.status = "settled", !.error = error]

\* Mutants: the fan-out settles whatever ever joined, settles deliveries whose
\* own settlement is reserved, or leaves unconfirmed joins alone.
FanOutToAll(s, h, error) ==
  IF s = h \/ rows[s].joinedInto = h THEN Settled(rows[s], error) ELSE rows[s]
FanOutToReserved(s, h, error) ==
  IF s = h \/ (rows[s].joinedInto = h /\ rows[s].status \in {"joined", "terminalizing"})
    THEN Settled(rows[s], error)
  ELSE IF rows[s].joinedInto = h /\ rows[s].status = "joining"
    THEN Released(rows[s])
  ELSE rows[s]
FanOutToConfirmed(s, h, error) ==
  IF s = h \/ (rows[s].joinedInto = h /\ rows[s].status = "joined")
    THEN Settled(rows[s], error)
  ELSE rows[s]

\* The host's terminal write and the fan-out of the same transaction: joined
\* deliveries settle as the host does, a join never confirmed is undone.
FanOut(s, h, error) ==
  IF s = h \/ (rows[s].joinedInto = h /\ rows[s].status = "joined")
    THEN Settled(rows[s], error)
  ELSE IF rows[s].joinedInto = h /\ rows[s].status = "joining"
    THEN Released(rows[s])
  ELSE rows[s]

SettleWithJoins(h, error) ==
  /\ rows' = [s \in Submissions |-> FanOut(s, h, error)]
  /\ UNCHANGED <<lastSequence, lastAttempt, now>>

HostRuns(s, a) ==
  \E h \in Submissions : rows[s].joinedInto = h /\ Runs(h, a)

\* First step of the settlement outbox.  A joined delivery is reserved under
\* the attempt of its running host, whose attempt id the row adopts.
Reserved(r, a, outcome) ==
  [r EXCEPT !.status = "terminalizing", !.settlement = outcome, !.attempt = a,
            !.startedAt = IF r.attempt = NoAttempt THEN now ELSE r.startedAt]

ReserveSettlement(s, a, outcome) ==
  /\ rows[s].settlement = None
  /\ \/ Runs(s, a) /\ rows[s].owner # None
     \/ rows[s].status = "joined" /\ HostRuns(s, a)
  /\ Write(s, Reserved(rows[s], a, outcome))

\* Second step, once the canonical record is in the stream.
FinalizeSettlement(s, a) ==
  /\ rows[s].status = "terminalizing"
  /\ rows[s].attempt = a
  /\ SettleWithJoins(s, ErrorOf(rows[s].settlement))

Complete(s, a) == Runs(s, a) /\ SettleWithJoins(s, None)

Fail(s, a, error) == Runs(s, a) /\ SettleWithJoins(s, error)

\* No fan-out: joins attach to a running host.
SettleQueued(s, error) ==
  /\ rows[s].status = "queued"
  /\ Write(s, Settled(rows[s], error))

\* The unready, runnable, running, expired and waiting lists parse their rows;
\* a row that does not parse is terminated by the list that met it.
TerminateMalformed(s) ==
  /\ s \in Malformed
  /\ \/ rows[s].status = "queued" /\ (rows[s].ready => IsHead(s))
     \/ rows[s].status \in {"running", "waiting"}
  /\ SettleWithJoins(s, "malformed")

-----------------------------------------------------------------------------
(* Turn-boundary joins *)

Joinable(s, h) ==
  /\ rows[s].ready
  /\ ~rows[s].abortRequested
  /\ s \notin Malformed
  /\ AgentOf[s] = AgentOf[h]

\* The contiguous prefix of the session's queue that can join h.
JoinablePrefix(h) ==
  LET queued == {s \in Submissions : SameSession(s, h) /\ rows[s].status = "queued"}
  IN  {s \in queued :
         \A t \in queued : rows[t].sequence <= rows[s].sequence => Joinable(t, h)}

Joining(r, h) == [r EXCEPT !.status = "joining", !.joinedInto = h]

ClaimJoinable(h, a) ==
  /\ Runs(h, a)
  /\ JoinablePrefix(h) # {}
  /\ rows' = [s \in Submissions |->
                IF s \in JoinablePrefix(h)
                  THEN Joining(rows[s], h)
                  ELSE rows[s]]
  /\ UNCHANGED <<lastSequence, lastAttempt, now>>

FinalizeJoined(h, a, s) ==
  /\ Attached(s, h) /\ rows[s].status = "joining"
  /\ Runs(h, a)
  /\ Write(s, [rows[s] EXCEPT !.status = "joined", !.inputApplied = TRUE])

RevertJoining(h, a, s) ==
  /\ Attached(s, h) /\ rows[s].status = "joining"
  /\ Runs(h, a)
  /\ Write(s, Released(rows[s]))

-----------------------------------------------------------------------------
Tick ==
  /\ now < MaxTime
  /\ now' = now + 1
  /\ UNCHANGED <<rows, lastSequence, lastAttempt>>

AdmissionStep ==
  \E s \in Submissions : Admit(s) \/ MarkCanonicalReady(s)

AttemptStep ==
  \E s \in Submissions :
    \/ \E o \in Owners : Claim(s, o)
    \/ \E a \in AttemptIds :
         \/ \E d \in Durabilities : MarkInputApplied(s, a, d)
         \/ \E o \in Owners : ReplaceAttempt(s, a, o)
         \/ Requeue(s, a)
    \/ LeaseLapses(s)

SettlementStep ==
  \E s \in Submissions :
    \/ \E a \in AttemptIds :
         \/ \E outcome \in Outcomes : ReserveSettlement(s, a, outcome)
         \/ FinalizeSettlement(s, a)
         \/ Complete(s, a)
         \/ \E error \in {"failed", "aborted"} : Fail(s, a, error)
    \/ \E error \in {"failed", "aborted"} : SettleQueued(s, error)
    \/ TerminateMalformed(s)

JoinStep ==
  \E h \in Submissions, a \in AttemptIds :
    \/ ClaimJoinable(h, a)
    \/ \E s \in Submissions : FinalizeJoined(h, a, s) \/ RevertJoining(h, a, s)

Next ==
  \/ AdmissionStep
  \/ AttemptStep
  \/ SettlementStep
  \/ JoinStep
  \/ \E o \in Owners : RenewLeases(o)
  \/ \E k \in Sessions : RequestSessionAbort(k)
  \/ Tick

Spec == Init /\ [][Next]_vars

-----------------------------------------------------------------------------
(* Properties *)

\* Every variable has its type: the columns of flue_agent_submissions hold what
\* the store writes to them.
TypeOK ==
  /\ rows \in [Submissions -> Row]
  /\ lastSequence \in Nat
  /\ lastAttempt \in Nat
  /\ now \in Nat

\* The submission holds its session: it executes, waits for a decision on a
\* call it made, or is being settled on its own account.
Executing(s) ==
  \/ rows[s].status \in {"running", "waiting"}
  \/ rows[s].status = "terminalizing" /\ rows[s].joinedInto = None

\* A session executes one submission at a time, in admission order: whatever
\* executes, no earlier submission of its session is unsettled.  The claim
\* tests this once; nothing that requeues, parks, resumes, joins, reverts or
\* replaces a row afterwards may undo it.
ExecutesInAdmissionOrder ==
  \A s, t \in Submissions : Executing(s) /\ Earlier(t, s) => ~Unsettled(t)

\* A delivery joined into a host stays behind it: the host is an earlier
\* submission of the same session and agent, has not joined anything itself,
\* and until it settles it is the head of the session.  So the two never
\* execute apart and joins never chain.
JoinsFollowTheirHost ==
  \A s, h \in Submissions :
    Attached(s, h) =>
      /\ rows[h].status # "absent" /\ Earlier(h, s)
      /\ AgentOf[h] = AgentOf[s]
      /\ rows[h].joinedInto = None
      /\ Unsettled(h) => IsHead(h)

\* The columns agree with the status: a row back in the queue carries nothing
\* of the attempt or the join it left, an executing row is owned and claimed by
\* somebody, only a settlement in progress or done carries a record, and the
\* error of a settled row is the one its record tells.
ColumnsAgree(r) ==
  /\ r.status = "absent" => r = AbsentRow
  /\ r.status \in {"queued", "waiting", "joining", "joined"} =>
       r.attempt = NoAttempt /\ r.owner = None /\ r.lease = "none"
  /\ r.status \in {"queued", "running", "waiting"} => r.joinedInto = None
  /\ r.status \in {"joining", "joined"} => r.joinedInto # None
  /\ r.status \in {"running", "terminalizing"} =>
       r.attempt # NoAttempt /\ (r.joinedInto = None <=> r.owner # None)
  /\ r.status \in {"running", "waiting", "joining", "joined"} => r.ready
  /\ r.status \in UnsettledStatus => r.error = None
  /\ r.status \in UnsettledStatus => (r.settlement # None <=> r.status = "terminalizing")
  /\ r.status = "settled" /\ r.settlement # None => r.error = ErrorOf(r.settlement)

ColumnsMatchStatus == \A s \in Submissions : ColumnsAgree(rows[s])

\* Attempt ids are fenced: nobody owns an id that was not generated, and two
\* running submissions never share one.
AttemptsAreFenced ==
  \A s, t \in Submissions :
    /\ rows[s].attempt <= lastAttempt
    /\ rows[s].status = "running" /\ rows[t].status = "running" /\ s # t =>
         rows[s].attempt # rows[t].attempt

\* Admission order is a total order of the rows.
SequencesAreUnique ==
  \A s, t \in Submissions :
    /\ rows[s].sequence <= lastSequence
    /\ rows[s].status # "absent" => rows[s].sequence # 0
    /\ rows[s].status # "absent" /\ rows[s].sequence = rows[t].sequence => s = t

\* First terminal state wins: a settled row never changes again, whatever
\* stale attempts, aborts, fan-outs or recovery passes still arrive.
SettledIsFinal ==
  [][\A s \in Submissions : rows[s].status = "settled" => rows'[s] = rows[s]]_vars

\* A reserved settlement is an obligation: until the row settles nothing but
\* its lease may change, and it settles with the outcome of its record.
ObligationIsKept ==
  [][\A s \in Submissions :
       rows[s].status = "terminalizing" =>
         \/ rows'[s].status = "settled" /\ rows'[s].error = ErrorOf(rows[s].settlement)
         \/ rows'[s] = [rows[s] EXCEPT !.lease = rows'[s].lease]]_vars

\* When a host that holds its session settles, in whatever way, the same step
\* settles every delivery joined into it with the host's error and gives every
\* unconfirmed join back to the queue: none is left attached to a settled host.
HostSettlementReleasesJoins ==
  [][\A s, h \in Submissions :
       Attached(s, h) /\ Executing(h) /\ rows'[h].status = "settled" =>
         \/ /\ rows[s].status = "joined"
            /\ rows'[s].status = "settled"
            /\ rows'[s].error = rows'[h].error
         \/ /\ rows[s].status = "joining"
            /\ rows'[s].status = "queued"
            /\ rows'[s].joinedInto = None]_vars
=============================================================================
