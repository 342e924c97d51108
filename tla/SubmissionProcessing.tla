------------------------ MODULE SubmissionProcessing ------------------------
(***************************************************************************)
(* Execution, settlement and recovery of submissions: the ledger composed  *)
(* with the conversation stream by the code that runs attempts             *)
(* (src/packages/runtime/src/runtime/agent-submissions.ts and the          *)
(* submission path of session.ts).                                         *)
(*                                                                         *)
(* An executor is one asynchronous activity of some process: a task that   *)
(* runs a claimed attempt, a recovery pass over an interrupted attempt, or *)
(* the pass that finishes a reserved settlement.  Between two awaits it    *)
(* takes one step; what it read before an await it may use long after.     *)
(* Executors of one process and of several are treated alike: they share   *)
(* nothing but the ledger and the stream.                                  *)
(***************************************************************************)
EXTENDS SubmissionStore, Sequences

CONSTANTS
  Executors,   \* activities under way at a time
  MaxTurns,    \* bound: assistant messages in the stream
  MaxCycles,   \* bound: continuations recorded by useAgentFinish hooks
  MaxCrashes   \* bound: activities that die or throw outside an attempt's run

ASSUME ExecutorsAssumption ==
  /\ None \notin Executors
  /\ MaxTurns \in Nat /\ MaxCycles \in Nat /\ MaxCrashes \in Nat

\* One agent instance has one stream, and every submission addressed to it has
\* the same session key (admitSubmissionWithBackend derives it from agent and
\* id alone): the modelled submissions are those of one instance.
ASSUME InstanceAssumption ==
  \A s, t \in Submissions : SessionOf[s] = SessionOf[t]

VARIABLES
  stream,    \* the records of the instance's conversation stream
  executors, \* what each executor does
  crashes    \* activities that died so far

pvars == <<rows, lastSequence, lastAttempt, now, stream, executors, crashes>>

-----------------------------------------------------------------------------
(* The stream *)

RecordTypes == {"input", "step", "answer", "cycle", "settled"}

\* "step" is an assistant message that calls tools or was cut short, "answer"
\* one that completes the response, "cycle" a continuation requested by a
\* useAgentFinish hook.  Records name the attempt they were written under.
Record == [type : RecordTypes, submission : Submissions,
           attempt : Nat, outcome : Outcomes \cup {None}]

RecordOf(type, s, a) ==
  [type |-> type, submission |-> s, attempt |-> a, outcome |-> None]
SettledRecord(s, a, outcome) ==
  [type |-> "settled", submission |-> s, attempt |-> a, outcome |-> outcome]

Positions == DOMAIN stream
InputAt(i, s) == stream[i].type = "input" /\ stream[i].submission = s
\* Mutant: the row's mark is taken for the record.
MarkedApplied(s) == rows[s].inputApplied
Persisted(s) == \E i \in Positions : InputAt(i, s)
AssistantAt(i) == stream[i].type \in {"step", "answer"}
\* Mutant: a reserved settlement is taken for a recorded one.
ReservedSettlement(s) == rows[s].status = "terminalizing"
RecordedSettlement(s) ==
  \E i \in Positions : stream[i].type = "settled" /\ stream[i].submission = s

\* classifyConversationSubmission as reconciliation reads it: the last
\* assistant message behind the input decides, whoever wrote it.
Inspect(s) ==
  IF ~Persisted(s) THEN "absent"
  ELSE IF \E i, j \in Positions :
            /\ i < j /\ InputAt(i, s) /\ stream[j].type = "answer"
            /\ \A k \in Positions : k > j => ~AssistantAt(k)
         THEN "completed"
         ELSE "interrupted"

\* Mutant: whatever joined once asks for another turn.
SteeredEver(s) ==
  \E i \in Positions : stream[i].type = "input" /\ Attached(stream[i].submission, s)
\* hasPendingSteeredContinuation: input that joined s, or a continuation its
\* hooks requested, behind the last assistant message.
Steered(s) ==
  \E i \in Positions :
    /\ \/ stream[i].type = "input" /\ Attached(stream[i].submission, s)
       \/ stream[i].type = "cycle" /\ stream[i].submission = s
    /\ \A k \in Positions : k > i => ~AssistantAt(k)

\* Mutant: the stream does not compare the attempt.
AuthorizedForAnyAttempt(r, s, a) ==
  /\ r.submission = s \/ Attached(r.submission, s)
  /\ \/ rows[s].status = "running"
     \/ rows[s].status = "terminalizing" /\ r = SettledRecord(s, a, rows[s].settlement)

\* assertSubmissionAuthorization: the row must run under the attempt, or owe
\* exactly this settlement; a host writes for deliveries attached to it.
Authorized(r, s, a) ==
  /\ r.attempt = a
  /\ r.submission = s \/ Attached(r.submission, s)
  /\ rows[s].attempt = a
  /\ \/ rows[s].status = "running"
     \/ /\ rows[s].status = "terminalizing"
        /\ r = SettledRecord(s, a, rows[s].settlement)

-----------------------------------------------------------------------------
(* Executors *)

Idle == [pc |-> "idle", sub |-> None, attempt |-> NoAttempt, todo |-> {},
         next |-> None, outcome |-> None, target |-> None, record |-> None,
         row |-> AbsentRow, found |-> None]

SessionPcs == {"input", "mark", "listJoins", "resolve", "wakeJoins", "joins",
               "join", "confirm", "drive", "turn"}
SettlePcs == {"listJoined", "lookup", "reserve", "check", "append", "finalize"}
Pcs == {"idle", "start", "ran", "caught", "inspect", "decide"}
         \cup SessionPcs \cup SettlePcs

Executor ==
  [pc : Pcs, sub : Submissions \cup {None}, attempt : Nat,
   todo : SUBSET Submissions, next : Pcs \cup {None},
   outcome : Outcomes \cup {None}, target : Submissions \cup {None},
   record : Record \cup {None}, row : Row, found : {None, "absent", "completed", "interrupted"}]

At(x, pc) == executors[x].pc = pc
Set(x, e) == executors' = [executors EXCEPT ![x] = e]
Go(x, pc) == Set(x, [executors[x] EXCEPT !.pc = pc])
LedgerUnchanged == UNCHANGED vars

\* The first of the submissions S, in admission order, if there is any.
First(S) == {s \in S : \A t \in S : rows[s].sequence <= rows[t].sequence}

ProcessingInit ==
  /\ Init
  /\ stream = <<>>
  /\ executors = [x \in Executors |-> Idle]
  /\ crashes = 0

\* Append a record under the authority of submission s and go on, or be
\* refused and go where the exception leads.
AppendAs(x, r, s, then, else) ==
  IF Authorized(r, s, executors[x].attempt)
    THEN stream' = Append(stream, r) /\ Set(x, then)
    ELSE UNCHANGED stream /\ Set(x, else)

Caught(x) == [executors[x] EXCEPT !.pc = "caught", !.todo = {}, !.next = None]

-----------------------------------------------------------------------------
(* Running an attempt *)

\* The claim loop claims a submission and starts its task.
Start(x, s, o) ==
  /\ At(x, "idle")
  /\ Claim(s, o)
  /\ Set(x, [Idle EXCEPT !.pc = "start", !.sub = s, !.attempt = lastAttempt + 1])
  /\ UNCHANGED <<stream, crashes>>

SettleAs(x, outcome) ==
  [Idle EXCEPT !.pc = "listJoined", !.sub = executors[x].sub,
               !.attempt = executors[x].attempt, !.outcome = outcome]

Mine(x) == Runs(executors[x].sub, executors[x].attempt)

\* processSubmission reads its row before anything else.
Begin(x) ==
  /\ At(x, "start")
  /\ Set(x, IF ~Mine(x) THEN Idle
            ELSE IF rows[executors[x].sub].abortRequested THEN SettleAs(x, "aborted")
            ELSE [executors[x] EXCEPT !.pc = "input"])
  /\ LedgerUnchanged /\ UNCHANGED <<stream, crashes>>

\* The canonical input record, unless an earlier attempt persisted it.
PersistInput(x) ==
  LET s == executors[x].sub IN
  /\ At(x, "input")
  /\ IF Persisted(s)
       THEN Go(x, "mark") /\ UNCHANGED stream
       ELSE AppendAs(x, RecordOf("input", s, executors[x].attempt), s,
                     [executors[x] EXCEPT !.pc = "mark"], Caught(x))
  /\ LedgerUnchanged /\ UNCHANGED crashes

\* onInputApplied throws when the attempt lost the row.
Mark(x, d) ==
  LET s == executors[x].sub IN
  /\ At(x, "mark")
  /\ \/ MarkInputApplied(s, executors[x].attempt, d) /\ Go(x, "listJoins")
     \/ ~Mine(x) /\ LedgerUnchanged /\ Set(x, Caught(x))
  /\ UNCHANGED <<stream, crashes>>

\* resolveInterruptedJoins lists what a dead attempt left attached ...
ListJoins(x) ==
  /\ At(x, "listJoins")
  /\ Set(x, [executors[x] EXCEPT !.pc = "resolve",
               !.todo = {s \in Submissions :
                           Attached(s, executors[x].sub) /\ rows[s].status = "joining"}])
  /\ LedgerUnchanged /\ UNCHANGED <<stream, crashes>>

\* ... and adopts a join whose input landed, or hands the row back.  A call
\* the store refuses is not noticed.
ResolveJoin(x) ==
  LET h == executors[x].sub
      a == executors[x].attempt
  IN
  /\ At(x, "resolve")
  /\ \/ executors[x].todo = {} /\ Go(x, "wakeJoins") /\ LedgerUnchanged
     \/ \E s \in First(executors[x].todo) :
          /\ Set(x, [executors[x] EXCEPT !.todo = @ \ {s}])
          /\ IF Runs(h, a) /\ Attached(s, h) /\ rows[s].status = "joining"
               THEN IF Persisted(s) THEN FinalizeJoined(h, a, s) ELSE RevertJoining(h, a, s)
               ELSE LedgerUnchanged
  /\ UNCHANGED <<stream, crashes>>

\* applyQueuedJoins claims once per boundary.  Before the first turn the
\* response goes on as the stream says, later a claim forces another turn.
ClaimJoins(x) ==
  LET h == executors[x].sub
      a == executors[x].attempt
      claimed == IF Runs(h, a) THEN JoinablePrefix(h) ELSE {}
  IN
  /\ executors[x].pc \in {"wakeJoins", "joins"}
  /\ IF claimed = {}
       THEN Go(x, "drive") /\ LedgerUnchanged
       ELSE /\ ClaimJoinable(h, a)
            /\ Set(x, [executors[x] EXCEPT !.pc = "join", !.todo = claimed,
                         !.next = IF At(x, "joins") THEN "turn" ELSE "drive"])
  /\ UNCHANGED <<stream, crashes>>

\* applyJoinedDelivery: the delivery's input, under the host's attempt ...
ApplyJoin(x) ==
  /\ At(x, "join")
  /\ \/ /\ executors[x].todo = {}
        /\ Set(x, [executors[x] EXCEPT !.pc = executors[x].next, !.next = None])
        /\ UNCHANGED stream
     \/ \E s \in First(executors[x].todo) :
          IF Persisted(s)
            THEN Go(x, "confirm") /\ UNCHANGED stream
            ELSE AppendAs(x, RecordOf("input", s, executors[x].attempt), executors[x].sub,
                          [executors[x] EXCEPT !.pc = "confirm"], Caught(x))
  /\ LedgerUnchanged /\ UNCHANGED crashes

\* ... then its start hooks and the confirmation.
ConfirmJoin(x) ==
  LET h == executors[x].sub
      a == executors[x].attempt
  IN
  /\ At(x, "confirm")
  /\ \E s \in First(executors[x].todo) :
       /\ Set(x, [executors[x] EXCEPT !.pc = "join", !.todo = @ \ {s}])
       /\ IF Runs(h, a) /\ Attached(s, h) /\ rows[s].status = "joining"
            THEN FinalizeJoined(h, a, s) ELSE LedgerUnchanged
  /\ UNCHANGED <<stream, crashes>>

Turns == Cardinality({i \in Positions : AssistantAt(i)})
Cycles == Cardinality({i \in Positions : stream[i].type = "cycle"})

\* The model answers, or calls tools and meets the next turn boundary.
Turn(x, type) ==
  LET s == executors[x].sub IN
  /\ At(x, "turn")
  /\ Turns < MaxTurns
  /\ AppendAs(x, RecordOf(type, s, executors[x].attempt), s,
              [executors[x] EXCEPT !.pc = "joins"], Caught(x))
  /\ LedgerUnchanged /\ UNCHANGED crashes

\* resumeConversationToCompletion and the would-stop phase: drive a turn for
\* whatever has none, else evaluate the finish hooks.
Drive(x) ==
  LET s == executors[x].sub IN
  /\ At(x, "drive")
  /\ \/ /\ Inspect(s) # "completed" \/ Steered(s)
        /\ Go(x, "turn") /\ UNCHANGED stream
     \/ /\ Inspect(s) = "completed" /\ ~Steered(s)
        /\ Go(x, "ran") /\ UNCHANGED stream
     \/ /\ Inspect(s) = "completed" /\ ~Steered(s)
        /\ Cycles < MaxCycles
        /\ AppendAs(x, RecordOf("cycle", s, executors[x].attempt), s,
                    [executors[x] EXCEPT !.pc = "turn"], Caught(x))
  /\ LedgerUnchanged /\ UNCHANGED crashes

\* A provider, a hook, the deadline's or the abort's signal ends the run.
Throw(x) ==
  /\ executors[x].pc \in SessionPcs
  /\ Set(x, Caught(x))
  /\ LedgerUnchanged /\ UNCHANGED <<stream, crashes>>

\* What a run comes to, by the row read again after it.  (An attempt that a
\* shutdown interrupts settles nothing, as if it had crashed.)
Ended(x) ==
  IF ~Mine(x) THEN Idle
  ELSE IF At(x, "ran") THEN SettleAs(x, "completed")
  ELSE IF rows[executors[x].sub].abortRequested THEN SettleAs(x, "aborted")
  ELSE SettleAs(x, "failed")

EndRun(x) ==
  /\ executors[x].pc \in {"ran", "caught"}
  /\ Set(x, Ended(x))
  /\ LedgerUnchanged /\ UNCHANGED <<stream, crashes>>

-----------------------------------------------------------------------------
(* Settlement *)

\* Go on to the first of the deliveries S, or to the host when none is left.
SettleNext(x, S) ==
  \E s \in IF S = {} THEN {executors[x].sub} ELSE First(S) :
    Set(x, [executors[x] EXCEPT !.pc = "lookup", !.todo = S, !.record = None, !.target = s])

\* The deliveries that settle before their host, in admission order, as listed
\* once.
ListJoined(x) ==
  LET h == executors[x].sub IN
  /\ At(x, "listJoined")
  /\ SettleNext(x, {s \in Submissions : Attached(s, h) /\ rows[s].status = "joined"})
  /\ LedgerUnchanged /\ UNCHANGED <<stream, crashes>>

AfterTarget(x) ==
  LET e == executors[x] IN
  IF e.target = e.sub THEN Set(x, Idle) ELSE SettleNext(x, e.todo \ {e.target})

\* A settlement somebody reserved before is taken over as it is.
Obligation(s) ==
  IF rows[s].status = "terminalizing"
    THEN SettledRecord(s, rows[s].attempt, rows[s].settlement)
    ELSE None

Lookup(x) ==
  LET owed == Obligation(executors[x].target) IN
  /\ At(x, "lookup")
  /\ Set(x, [executors[x] EXCEPT !.record = owed,
               !.pc = IF owed = None THEN "reserve" ELSE "check"])
  /\ LedgerUnchanged /\ UNCHANGED <<stream, crashes>>

\* A refused reservation leaves the target to whoever has it.
Reserve(x) ==
  LET s == executors[x].target
      a == executors[x].attempt
      outcome == executors[x].outcome
  IN
  /\ At(x, "reserve")
  /\ \/ /\ ReserveSettlement(s, a, outcome)
        /\ Set(x, [executors[x] EXCEPT !.pc = "check", !.record = SettledRecord(s, a, outcome)])
     \/ /\ ~ \/ Runs(s, a)
             \/ rows[s].status = "joined" /\ HostRuns(s, a)
        /\ LedgerUnchanged
        /\ AfterTarget(x)
  /\ UNCHANGED <<stream, crashes>>

\* The record is looked for, and only then appended: two await points.
Check(x) ==
  /\ At(x, "check")
  /\ Go(x, IF RecordedSettlement(executors[x].target) THEN "finalize" ELSE "append")
  /\ LedgerUnchanged /\ UNCHANGED <<stream, crashes>>

AppendSettlement(x) ==
  /\ At(x, "append")
  /\ AppendAs(x, executors[x].record, executors[x].target,
              [executors[x] EXCEPT !.pc = "finalize"], Idle)
  /\ LedgerUnchanged /\ UNCHANGED crashes

Owes(s, a) == rows[s].status = "terminalizing" /\ rows[s].attempt = a

Finalize(x) ==
  LET s == executors[x].target
      a == executors[x].attempt
  IN
  /\ At(x, "finalize")
  /\ \/ FinalizeSettlement(s, a)
     \/ ~Owes(s, a) /\ LedgerUnchanged
  /\ AfterTarget(x)
  /\ UNCHANGED <<stream, crashes>>

-----------------------------------------------------------------------------
(* Recovery *)

Overdue(r) == r.timeoutAt > 0 /\ now >= r.timeoutAt

\* The recovery pass lists a submission whose lease lapsed, which may happen at
\* any moment; the deadline scan takes over one that is overdue or aborted and
\* whose task does not react.  What follows uses the row as it was read here.
Recover(x, s) ==
  /\ At(x, "idle")
  /\ rows[s].status = "running"
  /\ Set(x, [Idle EXCEPT !.pc = "inspect", !.sub = s, !.attempt = rows[s].attempt,
                         !.row = rows[s]])
  /\ LedgerUnchanged /\ UNCHANGED <<stream, crashes>>

\* Opening the session may throw: then the deadline alone decides, and without
\* one the pass gives up on the submission (a Crash).
InspectInput(x) ==
  /\ At(x, "inspect")
  /\ \/ Set(x, [executors[x] EXCEPT !.pc = "decide", !.found = Inspect(executors[x].sub)])
     \/ Overdue(executors[x].row) /\ Set(x, SettleAs(x, "failed"))
  /\ LedgerUnchanged /\ UNCHANGED <<stream, crashes>>

\* Mutant: one attempt more than the limit.
ExhaustedLate(r) == r.attemptCount > r.maxAttempts
Exhausted(r) == r.attemptCount >= r.maxAttempts

\* reconcileInterruptedSubmission: finished work first, then the abort, the
\* budget and the deadline, then another attempt or a clean start.
Verdict(r, found) ==
  IF found = "completed" THEN "completed"
  ELSE IF r.abortRequested THEN "aborted"
  ELSE IF Exhausted(r) \/ Overdue(r) THEN "failed"
  ELSE IF found = "interrupted" THEN "replace"
  ELSE "requeue"

Decide(x) ==
  LET s == executors[x].sub
      a == executors[x].attempt
      verdict == Verdict(executors[x].row, executors[x].found)
  IN
  /\ At(x, "decide")
  /\ \/ /\ verdict \in Outcomes
        /\ Set(x, SettleAs(x, verdict))
        /\ LedgerUnchanged
     \/ /\ verdict = "replace"
        /\ \E o \in Owners : ReplaceAttempt(s, a, o)
        /\ Set(x, [Idle EXCEPT !.pc = "start", !.sub = s, !.attempt = lastAttempt + 1])
     \/ /\ verdict = "requeue"
        /\ Requeue(s, a)
        /\ Set(x, Idle)
     \/ /\ verdict \in {"replace", "requeue"}
        /\ ~Mine(x)
        /\ Set(x, Idle)
        /\ LedgerUnchanged
  /\ UNCHANGED <<stream, crashes>>

\* Mutant: only what a joined delivery left is taken up.
TakeUpJoined(x, s) ==
  /\ At(x, "idle")
  /\ rows[s].status = "terminalizing" /\ rows[s].owner = None
  /\ Set(x, [Idle EXCEPT !.pc = "check", !.sub = s, !.target = s,
                         !.attempt = rows[s].attempt, !.record = Obligation(s)])
  /\ LedgerUnchanged /\ UNCHANGED <<stream, crashes>>
\* finalizePendingSettlement: the pass takes up a reserved settlement whose
\* lease lapsed; a joined delivery's never had one.
TakeUp(x, s) ==
  /\ At(x, "idle")
  /\ rows[s].status = "terminalizing"
  /\ Set(x, [Idle EXCEPT !.pc = "check", !.sub = s, !.target = s,
                         !.attempt = rows[s].attempt, !.record = Obligation(s)])
  /\ LedgerUnchanged /\ UNCHANGED <<stream, crashes>>

\* A process dies, or a store call fails outside the run of an attempt.
Crash(x) ==
  /\ ~At(x, "idle")
  /\ crashes < MaxCrashes
  /\ crashes' = crashes + 1
  /\ Set(x, Idle)
  /\ LedgerUnchanged /\ UNCHANGED stream

-----------------------------------------------------------------------------
ExecutorStep(x) ==
  \/ Begin(x) \/ PersistInput(x)
  \/ \E d \in Durabilities : Mark(x, d)
  \/ ListJoins(x) \/ ResolveJoin(x) \/ ClaimJoins(x) \/ ApplyJoin(x) \/ ConfirmJoin(x)
  \/ Drive(x) \/ \E type \in {"step", "answer"} : Turn(x, type)
  \/ Throw(x) \/ EndRun(x)
  \/ ListJoined(x) \/ Lookup(x) \/ Reserve(x) \/ Check(x) \/ AppendSettlement(x) \/ Finalize(x)
  \/ InspectInput(x) \/ Decide(x)

PassStep(x) ==
  \E s \in Submissions :
    \/ \E o \in Owners : Start(x, s, o)
    \/ Recover(x, s)
    \/ TakeUp(x, s)

\* What reaches the ledger from outside: admissions, aborts, the clock.
Outside ==
  /\ \/ \E s \in Submissions : Admit(s) \/ MarkCanonicalReady(s)
     \/ \E k \in Sessions : RequestSessionAbort(k)
     \/ Tick
  /\ UNCHANGED <<stream, executors, crashes>>

ProcessingNext ==
  \/ \E x \in Executors : ExecutorStep(x) \/ PassStep(x) \/ Crash(x)
  \/ Outside

ProcessingSpec == ProcessingInit /\ [][ProcessingNext]_pvars

\* What the event loop and the coordinators give: an awaited call settles, a
\* turn ends, passes keep being run while something is unsettled.  A task that
\* hangs is none of this: recovery takes over.
ProcessingFairness ==
  \A x \in Executors : WF_pvars(ExecutorStep(x)) /\ WF_pvars(PassStep(x))

FairProcessingSpec == ProcessingSpec /\ ProcessingFairness

-----------------------------------------------------------------------------
(* Properties *)

\* Every variable has its type; records name submissions and attempts.
ProcessingTypeOK ==
  /\ TypeOK
  /\ stream \in Seq(Record)
  /\ executors \in [Executors -> Executor]
  /\ crashes \in 0 .. MaxCrashes

\* The stream and the ledger tell one outcome: every settlement record of a
\* submission is the one its row reserved, a row only settles through the
\* outbox when its record is in the stream, and records of one submission are
\* the same record, however many executors raced to write it.
OutcomesAgree ==
  /\ \A i \in Positions :
       stream[i].type = "settled" =>
         LET r == rows[stream[i].submission] IN
         /\ r.status \in {"terminalizing", "settled"}
         /\ stream[i] = SettledRecord(stream[i].submission, r.attempt, r.settlement)
  /\ \A s \in Submissions :
       rows[s].status = "settled" /\ rows[s].settlement # None => RecordedSettlement(s)

\* An input lands once, whichever of its own attempts and the hosts it joins
\* get to write it, and inputs of a session land in admission order.
InputsLandInOrder ==
  \A i, j \in Positions :
    /\ i < j /\ stream[i].type = "input" /\ stream[j].type = "input"
    /\ SameSession(stream[i].submission, stream[j].submission)
    => rows[stream[i].submission].sequence < rows[stream[j].submission].sequence

\* The fence holds in the stream: the messages and continuations of a
\* submission are written under attempts that never go back, and none of them
\* behind its settlement.
AttemptsNeverReturn ==
  \A i, j \in Positions :
    /\ i < j /\ stream[i].submission = stream[j].submission
    => /\ stream[i].attempt <= stream[j].attempt
       /\ stream[i].type = "settled" => stream[j].type = "settled"

\* Work that was answered is not done again: behind an answer the response only
\* goes on when more input or a requested continuation landed in between.
AnswersAreNotRepeated ==
  \A i, j \in Positions :
    /\ i < j /\ stream[i].type = "answer" /\ AssistantAt(j)
    /\ stream[i].submission = stream[j].submission
    => \E k \in i .. j : stream[k].type \in {"input", "cycle"}

AttemptLimits == {DefaultMaxAttempts} \cup {d.maxAttempts : d \in Durabilities}

\* However recovery passes race each other and the live attempt, a submission
\* is not started more often than the larger of the default limit and its
\* agent's allows.  A claim asks no limit, so whatever put a row back must have
\* found it below one; and a requeue takes the stamp away, so that the next
\* claim and mark replace limit and deadline, but it refunds no attempt.
AttemptsAreLimited ==
  \A s \in Submissions : \E m \in AttemptLimits : rows[s].attemptCount <= m

\* Every accepted submission settles, whatever attempts, passes and settlements
\* die, throw, hang or race on the way: nothing is lost between the ledger and
\* the stream, and the budget ends what never succeeds.
SubmissionsSettle ==
  \A s \in Submissions :
    rows[s].ready ~> rows[s].status = "settled"

-----------------------------------------------------------------------------
(* What the code says of itself and does not keep; see the README *)

\* session.ts:1845-1851: input that joined a response and a continuation its
\* hooks requested are driven before the response settles, a crash before their
\* turn included.
SteeredInputIsAnswered ==
  \A h \in Submissions :
    rows[h].status = "settled" /\ rows[h].settlement = "completed" =>
      \A i \in Positions :
        \/ stream[i].type = "cycle" /\ stream[i].submission = h
        \/ /\ stream[i].type = "input"
           /\ rows[stream[i].submission].joinedInto = h
           /\ rows[stream[i].submission].status = "settled"
        => \E j \in Positions : j > i /\ stream[j].type = "answer"
=============================================================================
