# Formal models of the Flue runtime's durable execution

Flue runs agents whose work must survive crashes: a prompt, once accepted, is executed
by exactly one attempt at a time, in order, and ends in exactly one outcome, whatever
processes die, however many coordinators share a database and however long a human takes
to approve a tool call. The code that promises this is the submission ledger and what is
built on it, and what was said and done is the conversation stream, an append-only log
with one writer at a time. This directory models in TLA+ the ledger with its tool
approvals, the stream with its writers and caches, the processing and recovery that tie
the two together, and the coordinator of a Node process. TLC checks all of it on small
instances; TLAPS proves, for every instance, the safety of the ledger, the approvals, the
writers and the caches, that processing settles every submission with one outcome, lands
its inputs in the order of admission, never lets an old attempt write behind a new one
never answers twice and starts no submission more often than its limits allow, that the
coordinator tracks every task it runs, starts nothing once shutdown has begun to stop
tasks and loses no wake-up, and that ledger, approvals, processing, coordinator and
writers each keep what an abstract specification promises.

Paths below are relative to `src/packages/runtime/src/` unless they start with another
package.

## 1. Inventory of the system

| Component | State it keeps | Operations | Correct when |
|---|---|---|---|
| **Submission ledger** `sql-agent-execution-store.ts` (contract: `agent-execution-store.ts`) | table `flue_agent_submissions`: one row per accepted prompt or delivery, with status, attempt, owner, lease, deadline, joins, reserved settlement | admit, ready, claim, mark applied, replace, requeue, renew, abort, reserve/finalize settlement, complete, fail, settle queued, claim/finalize/revert joins; lists that terminate malformed rows | a session executes in admission order, one submission at a time; first terminal state wins; a reserved settlement is kept; joined deliveries follow their host |
| **Tool approvals and escalation grants** same file, `tool-approval.ts`, `tool-escalation.ts` | tables `flue_tool_approvals`, `flue_tool_escalation_grants`; the budget an approval wait saved in the submission's row | propose, park, decide (host, mode, grant, runtime), escalate, expire, revoke, abort | no wakeup lost; decisions are final; a denied call is never approved; a wait costs neither attempts nor time |
| **Conversation stream store** `runtime/conversation-stream-store.ts` | per stream: producer epoch, next sequence, incarnation, batches | acquire producer, append, read, delete | appends of a superseded producer never land; a repeated append lands once |
| **Conversation writer** `conversation-writer.ts` | buffered records, the in-flight flush, a failure latch | append, flush, close | batches in order, nothing dropped silently, nothing written after a failure |
| **Submission processing and recovery** `runtime/agent-submissions.ts`, `submission-state.ts`, `runtime/settlement-rebuild.ts` | none of its own: derives decisions from stream and ledger | run an attempt, settle through the outbox, recover an interrupted attempt, recover joins | a record per outcome, exactly once; an applied input is not executed twice from scratch |
| **Node coordinator** `node/agent-coordinator.ts` | active tasks, wake flag and promise, timers, shutdown flags | claim loop, lease renewal and scan, deadline enforcement, shutdown | accepted work is eventually claimed; nothing runs after close |
| **Cloudflare coordinator** `cloudflare/agent-coordinator.ts` | in-memory drain state, durable alarms | reconcile pass, heartbeat, dispatch | as for Node, across evictions |
| **Session execution** `session.ts`, `compaction.ts`, `harness.ts` | the running turn | model loop, tool calls, turn-boundary joins, approvals | asks the store only for what it owns |
| **Conversation reducer and fold checkpoints** `conversation-reducer.ts`, `conversation-fold-*.ts` | a fold of the stream; its checkpoint | reduce, checkpoint | a checkpoint never disagrees with the stream |
| **Runtime activity gate** `runtime/runtime-activity-gate.ts` | counters | enter, leave, reload | no reload under work |
| **HTTP application** `runtime/flue-app.ts`, `runtime/agent-routes.ts` | listeners only | routes | data of the stores |
| **Client SDK and React bindings** `src/packages/sdk`, `src/packages/react` | offset and view state | observe, reconnect | each batch applied once, in order |
| **Database adapters** `src/packages/{postgres,mysql,libsql,mongodb,redis}` | the same tables elsewhere | the same contract | as the SQL store |
| Hooks, MCP clients, channels, CLI, build tooling, telemetry | configuration, third-party protocols | | not modelled |

### How they interact

```
 HTTP / dispatch ── admit ──▶ ledger ◀── claim, recover, renew ── coordinator
                                ▲                                      │ starts
        park / decide / resume  │   mark applied, join, settle         ▼
 host decisions ─▶ approvals ───┘◀──────────────────────────── submission processing
                                                                       │ append
                          client observation ◀── conversation stream ◀─ writer
```

The ledger is the only state that every process shares with transactions; all other
components coordinate through it by compare-and-set on `(status, attempt_id)`. A call
whose compare-and-set misses returns `null` or `false` and writes nothing. The stream is
written under a producer epoch and, for submissions, under an authorization that reads
the ledger's row.

### What is hard

* **Stale callers.** An attempt that was replaced, requeued or parked keeps running in
  its process until it notices; a second coordinator may recover a submission whose
  owner is merely slow.
* **Rows that come back.** A row passes through queued, running, waiting-for-approval,
  joining, joined and terminalizing, some of them many times; a column left over from a
  previous life is a lie to the next one.
* **One transaction, several submissions.** A host's settlement settles its joined
  deliveries; an escalating approval decides calls of several submissions and must wake
  each; a session abort writes every row.
* **Crashes between two transactions**: proposal created but its mode not applied;
  outcome reserved but its record not appended.
* **Time**: deadlines saved over a wait and restored after it, leases that lapse under a
  live owner, overdue decisions.

`PROJECT.json` lists these as hazards, each at its line, with the properties that would
catch it.

## 2. Modules

| Module | What it is |
|---|---|
| `SubmissionStore` | the ledger: state, one action per store operation, safety and action properties |
| `SubmissionStoreProofs` | the inductive invariant of the ledger and its theorems |
| `ToolApprovals` | EXTENDS `SubmissionStore` with the approval and grant tables, parking and resuming |
| `ToolApprovalsProofs` | the ledger's theorems again with approvals, those of the approvals, and that both together implement `AcceptedWork` |
| `AcceptedWork` | the abstract specification: what a caller is promised about accepted work |
| `LedgerRefinement` | EXTENDS `SubmissionStore` with the refinement mapping to `AcceptedWork` |
| `LedgerRefinementProofs` | the proof that the ledger implements `AcceptedWork` under the mapping |
| `ConversationStream` | the stream's row and its batches: claims of the producer, the fence, repeated calls |
| `ConversationWriter` | EXTENDS `ConversationStream` with the writers, their calls, their flushes, and the fold hosts |
| `DurableLog` | the abstract specification: an append-only log and answers that claim no more than it holds |
| `ConversationRefinement` | EXTENDS `ConversationWriter` with the refinement mapping to `DurableLog` |
| `ConversationWriterProofs` | the inductive invariant of the writers, their calls and the fold hosts, and its theorems |
| `ConversationRefinementProofs` | the proof that the writers implement `DurableLog` |
| `FoldCheckpoints` | checkpoint slot, hosts and writers over a stream that is wiped and recreated |
| `FoldCheckpointsProofs` | the inductive invariant of the caches |
| `SubmissionProcessing` | EXTENDS `SubmissionStore` with the stream's records and the activities that run, settle and recover submissions |
| `SubmissionProcessingProofs` | every step of processing is a ledger step or none; one outcome, attempts that only go forward, inputs in order, answers unrepeated |
| `NodeCoordinator` | EXTENDS `SubmissionStore` with the threads, tasks and wake-ups of one Node process |
| `NodeCoordinatorProofs` | every step of the coordinator is a ledger step or none, and what follows from it; tasks tracked, shutdown quiet, no wake-up lost |
| `MCSubmissionStore`, `MCToolApprovals`, `MCConversationWriter`, `MCFoldCheckpoints`, `MCSubmissionProcessing`, `MCNodeCoordinator` | the functions, symmetry sets and constraints that instantiate them for TLC |

`SubmissionProcessing` and `NodeCoordinator` compose with the ledger without approvals:
a submission that parks is, to both, one that runs on.

In each module an operator whose comment begins "Mutant" is a plausible bug of the
definition after it; nothing but the mutation runs of `PROJECT.json` uses it.

### `SubmissionStore` and the code

`rows[s]` is the row of `flue_agent_submissions` with id `s` (`"absent"` before
admission), its fields are the columns; `"waiting"` is the status
`waiting_for_approval`. Timestamps that the code only tests for NULL are BOOLEANs
(`ready`, `inputApplied`, `abortRequested`); those it compares (`startedAt`,
`timeoutAt`, `remaining`) are numbers. `lease_expires_at` is abstracted to
none/live/lapsed with an action that lets it lapse. The payload is reduced to what the
store reads from it: session, agent, and whether it parses.

Every method is one SQL statement or one `transactionSync`, so it is one action. The
model adds no caller: **any** attempt id ever issued may be used in any call at any
time, which covers replaced and crashed attempts, two coordinators, and every
interleaving of their transactions. A process crash has no action of its own: the store
loses nothing in it, and what follows — nobody calling for a while, then a recovery
calling `replaceSubmissionAttempt` or `requeueSubmission` — is a behaviour of the model.
Calls without effect are stuttering steps.

The four lists of operational rows parse their payloads and terminate a malformed row;
since such a row is written in the transaction of the list, this is the action
`TerminateMalformed`.

### `ToolApprovals` and the code

`approvals[p]` and `grants[p]` are the rows of the two tables; a grant has the id of the
proposal whose approval created it. `Park`, `DecideAll` with `ResumeIfNoPending`, and
`AbortSession` write both tables and the ledger in one step because the code does so in
one transaction. Three choices of the session are guards, since the store relies on
them: a session proposes only for a submission it has run, a call without an escalation
group has mode `ask`, and the decision by mode or by grant follows the mode frozen with
the proposal. Left out: the columns that say what was already copied to the stream or
notified to a host, and the text of reasons.

### `AcceptedWork` and the mapping

A caller sees its work `"new"`, `"waiting"`, `"active"` or `"done"`. Work is accepted
into the line of its session, started only when everything ahead of it is done, put back
any number of times without losing its place, and finished once with one result, perhaps
together with work behind it. `LedgerRefinement` maps a row to `"active"` when it runs,
waits for an approval or settles on its own account (`Executing`), to `"waiting"` when
it is queued or attached to a host. Recoveries, lease changes, joins, parks and
proposals are invisible; requeues, resumes and aborts of parked rows are `PutBack`;
settlements with their fan-out are `Finish`.

### `ConversationStream`, `ConversationWriter` and the code

`stream` is the row of `flue_conversation_streams`, `log` the batches by offset; a batch
of the log is the call that stored it, since a repetition is recognised by comparing
exactly that. Create, acquire and append are one transaction each. An append is four
outcomes in the order the code tests them: not the current claim (refused), a repetition
of a stored call (the stored offset), not the next number or not accepted (refused),
stored. Wipes of the stream and reading it page by page are in `FoldCheckpoints`.

`writers[e]` is the `ConversationRecordWriter` made by claim number `e`. Its `tail` is
the promise chain of `appendBatch`, done operations included so that `next` is both the
count of those and the next producer sequence; `pending`, `timer` and `flushing` are the
fields of those names, `woken` and `chained` are continuations waiting in the microtask
queue. JavaScript runs one synchronous piece at a time, so each piece between two awaits
is an action, and they interleave freely.

`calls` are the appends under way. A call is executed once (`Execute`), at any later
time: the writer may have given it up (`Retry`, `Fail`), its process may be gone
(`Crash`), another process may have claimed the stream (`Open`). A writer retries once
with the same key and content and then fails for good; every failure, a refusal or a
lost answer, is the same `Retry` and `Fail` to it, as in the code.

`hosts[p]` is the process's `ConversationFoldHost`. A fold is the sequence of offsets
applied to it, which makes a repeated, skipped or reordered batch visible. Its requests
(`StartAdvance`, `ReadAdvance`, `FinishAdvance`) have an await between them, in which
the writer can hand its own state over (`Adopted`). `Refused` are records the reducer
throws on.

### `DurableLog` and the mapping

The promise to those who write records: a batch lands whole, a record lands at most
once, nothing in the log changes, and who is told an offset finds the record there. A
rejected record may have landed or land later, which is the promise the code can keep: a
writer that fails does not know what became of its last call. The mapping forgets
epochs, keys, tails, calls and folds.

### `FoldCheckpoints` and the code

`ConversationWriter` looks at one incarnation of a stream; this module at the caches
across incarnations. `stream` is the row, reduced to incarnation and epoch; epochs of a
new incarnation start again, so a writer of a wiped stream can meet its own number in
the next one, which is why the fence compares the incarnation too. (Within an
incarnation the epoch implies the producer.) `checkpoint` is the slot of the path and
`puts` the checkpoints on their way: `noteAppended` does not wait for them. A request to
`ConversationFoldHost` is taken apart into its awaits: `"meta"` (`getMeta`), `"slot"` and
`"check"` (the checkpoint and the row again), `"page"` (each page), `"done"`. Between
any two of them the stream may be wiped, claimed and regrown. Creating and claiming the
stream is one action here; lost answers and retries are in `ConversationWriter`.

### `SubmissionProcessing` and the code

`stream` is the sequence of the records that processing reads back: inputs, assistant
messages (`"step"` and `"answer"`), continuations requested by hooks, settlements. An
*executor* is one asynchronous activity: a task that runs an attempt
(`processSubmission`), a recovery (`reconcileInterruptedSubmission`), or the completion
of a reserved settlement (`finalizePendingSettlement`). Each of its `pc` values is an
await; what it read before, the row of a recovery or the list of joined deliveries, it
keeps and uses later. `Authorized` is `assertSubmissionAuthorization`, evaluated in the
append's transaction; `Verdict` is the decision of recovery, in the order of the code.
`Recover` takes any running submission at any time, since a lease may lapse under a live
owner; so attempts overlap with their recovery at every await. Provider, tools and hooks
are choices: `Turn`, `Drive`, `Throw`.

### `NodeCoordinator` and the code

`threads.start`, `threads.loop` and `threads.pass` are `reconcileSubmissions()` at
start-up, the claim loop and the single-flight reconciliation pass; a `pc` is an await,
`todo` the list being gone through, as it was read. `wakes.requested` is the flag that
`wake()` sets during a claim pass, `wakes.resolved` whether the promise the loop sleeps
on is resolved. `active` is `activeSubmissions`, `tasks` what `spawnSubmissionTask`
started, with the signal of its abort controller; a task settles, stops, ends or hangs.
`shutdown` is how far `shutdown()` has come. `unannounced` is a history variable: rows
made claimable by the reconciliation pass or by start-up, which wake nobody. `Exit` is
the end of the process, after a shutdown or in the middle of anything.

`admissions` are the ones that have tested `stopping` and not returned. An admission tests
the flag once (`BeginAdmission`), reads the instance's conversation, where it may throw
(`AdmissionRefused`), and only then writes its row (`AdmitRow`), marks it ready
(`Materialize`) and wakes the loop (`EndAdmission`); a shutdown may begin between any two.
Admissions are configured before start-up reconciles (`node/assemble.ts:173`), so they
come at any time.

A start-up that throws is logged and the process serves (`node/assemble.ts:177-181`). If
it throws in the reconciliation pass, the claim loop is running (`PassFails`); if it
throws earlier, `threads.start` is `"failed"` and there is no loop (`StartFails`).

Two guards are assumptions on durations. A lease does not run out within the store call
that sets it (`LeaseRunsOut`), and the grace of the deadline enforcement is longer than
the time for which a claim pass uses a row it has read (`GraceOver`).

## 3. Runs

All runs but `fold_checkpoints` disable the deadlock check: the ledger stops when the
attempt ids and the clock have reached their bounds and every submission is settled, a
writer when it has nothing left to append, a coordinator when its bounds are used up, as
the system does when it has no work.

| Run | Instance | What it shows |
|---|---|---|
| `ledger_joins` | 3 submissions of one session, one payload malformed, 2 attempt ids, clock 0..1 | join structure, columns, first terminal state, reserved settlements, release of joins |
| `approval_timers` | 1 submission, 2 owners, 1 ungrouped call, all host answers, 3 attempt ids, clock 0..3 | no lost wakeup, abort beats approval, attempt refunds, the budget over a wait, types |
| `approval_grants` | 1 submission, 2 calls in a group, all modes, grants with a lifetime, fair clock and sweep | denied calls, decided calls, coverage of grants; a parked submission does not wait for ever |
| `approval_joins` | 2 submissions, a call each in one group, 2 attempt ids | admission order while a host is parked and a decision for one submission wakes another; the refinement of `AcceptedWork` |
| `stream_delivery` | 2 processes, 2 claims, 3 single records, the reducer throws on the third; the folds of one process | the fence, order, single landing, true answers, folds that neither repeat nor go back, and the refinement of `DurableLog` |
| `stream_flush` | 1 claim, 3 records of an attempt or of none, flushes of at most 2, fair | batches keep attempts apart; every caller is answered |
| `refused_flush` | 1 claim, 2 records, the reducer throws on the first, fair | **expected violation**, see section 6 |
| `fold_checkpoints` | 2 processes, 2 incarnations, 2 claims, 3 batches, a checkpoint per append, pages of one batch | caches of the stream that exists are true |
| `processing_joins` | 2 submissions, 2 activities, 2 attempt ids, 2 assistant messages, 1 continuation | ledger and stream tell one outcome and one order |
| `processing_recovery` | 1 submission, 2 activities, 3 attempt ids, clock 0..1, 1 crash, fair | every submission settles; no submission is started more often than its limits allow |
| `steered_input` | 2 submissions, 1 activity, 1 crash | **expected violation**, see section 6 |
| `claim_loop` | 2 submissions of a session, 1 process, 2 attempt ids, clock 0..1, 1 fault, fair | no lost wake-up, no untracked attempt, nothing started after shutdown, progress |

**Bounds.** `MaxAttemptIds` bounds claims and replacements, `MaxTime` the clock,
`MaxFaults` and `MaxCrashes` what dies; each is a guard of one action. Three submissions
are what the ledger's interesting cases need: a host, a delivery joined into it and a
third row queued between, behind or joined with them. Two attempt ids give a current and
a stale attempt (of one row or of two); three also give a recovery of a recovery.
`ClockForTwo` lets the clock move in `ledger_joins` while at most two submissions are
admitted. A budget of 2 over a clock of 3 lets a deadline pass while running and while
parked, before and after each. Two proposals in a group are the smallest case in which a
grant covers another call.

In the stream, two claims by two processes give a superseded writer with calls under way
(or one process that claims twice), and three records give a batch before, in and after a
failure, or two that wait behind one being flushed. `Folding` names the processes whose
hosts take part: a host meets only the shared log and the writers of its own process, so
one suffices. `FewCallsWhenFolding` bounds the calls under way in `stream_delivery`: two
while that host holds a fold, one while it advances, and any number without a fold, so
that delivery by itself is explored whole. One call is enough to land a batch between a
reader's snapshot and its end; two put a late call beside its retry or its successor's.
Attempts are distinguished only in `stream_flush`, since no guard elsewhere reads them. In `fold_checkpoints`, two incarnations and two claims give a writer that
outlives its stream and meets its own epoch again; three batches let the second stream
grow past a checkpoint of the first; the smallest interval and page make every append
send a checkpoint and every load take several pages.

In `processing_joins`, two activities are an attempt and whatever races it (recovery,
the settlement pass, the other submission's attempt); two assistant messages let an
answer be followed by a turn for joined input or a continuation, and `CyclesForOne`
keeps continuations to the runs of one submission. In `processing_recovery` both limits
are two, and a third attempt id lets a limit be passed. In `claim_loop`, `TroubleForOne`
keeps faults, aborts and the clock to one submission, and to each other: the clock moves
only without fault, abort and shutdown. The second submission comes after start-up and
is there for wake-ups that arrive while the first is claimed, settled or reconciled.
After a fault during start-up the loop is started by start-up itself and not by an
admission. The theorems of section 5 have no such bounds.

**Symmetry.** `ledger_joins` permutes submissions, `fold_checkpoints` processes,
`processing_joins` submissions and activities. The instances treat the permuted values
alike (in `ledger_joins` only those that parse) and no liveness property is checked under
symmetry.

**Fairness.** `approval_grants` assumes weak fairness of the clock, and of the sweep
while a submission is unsettled. `reconcileSubmissions`
(`cloudflare/agent-coordinator.ts:898-914`) expires overdue proposals in each pass
unless nothing is unsettled, and the pass is re-armed by a durable alarm while work
remains. Nothing is assumed of hosts, attempts or coordinators otherwise, and proposals
without a deadline are excepted, since only a host can end such a wait. `stream_flush`
and `refused_flush` assume `WriterFairness`: timers fire, queued microtasks run, and a
call to the store settles, with its answer or with an error (`ReturnStep`), which is
what `setTimeout`, the event loop and an awaited promise of the store give while the
process lives. Nothing makes the store execute a call, and no caller has to flush.

`processing_recovery` assumes `ProcessingFairness`: an activity that can step does, and
an idle one takes up work that a pass would list, which is the coordinator's interval
(Node) or alarm (Cloudflare). Neither the clock nor any admission is fair. `claim_loop`
assumes `CoordinatorFairness`: awaited store calls of start-up, loop, pass and shutdown
return, with an answer or an error, the lease-scan timer fires where there is one, and an
admission that has written its row returns. Tasks may hang, deadlines need not come, and
nothing makes a host admit, readmit or abort.

## 4. What the properties say

Ledger:

* `ExecutesInAdmissionOrder` — while a submission runs, waits for an approval or is
  being settled on its own account, no earlier one of its session is unsettled.
* `JoinsFollowTheirHost` — a joined delivery is a later submission of the host's session
  and agent; joins do not chain; an unsettled host is the head of its session.
* `ColumnsMatchStatus` — owner, lease, attempt, join, error and reserved record agree
  with the status.
* `SettledIsFinal`, `ObligationIsKept`, `HostSettlementReleasesJoins` — what a step may
  never do.

Approvals:

* `WaitingHasPendingDecision` — a parked submission has something to wait for.
* `AbortedNeverWaits`, `RunningIsCharged`, `ApprovalWaitKeepsBudget` — aborts, attempts
  and time across a wait.
* `FirstDecisionWins`, `DeniedIsNeverApproved`, `GrantsApproveWhatTheyCover` — which
  decisions may happen.
* `ParkedSubmissionWakes` — liveness.
* `PromiseIsKept` — all of it implements `AcceptedWork`.

Stream and writers:

* `RecordsLandOnce`, `ClaimsFollowEachOther`, `TailLandsInOrder` — retries and late
  calls neither repeat nor reorder, and nothing of a superseded claim lands behind its
  successor's first batch.
* `LandedBatchesAreConfirmed` — one lost answer costs nothing.
* `BatchesHaveOneOwner` — the authorization of a batch is one of each of its records.
* `FoldsNeverRepeat`, `HostsNeverGoBack` — what readers of a host see.
* `EveryRecordIsAnswered` — liveness, for batches that the reducer accepts.
* `LogPromiseIsKept` — all of it implements `DurableLog`; that an answer is true is part
  of it.

Caches:

* `CurrentFoldsAreTrue` — a checkpoint of the incarnation that exists is a fold of its
  beginning (`CheckpointIsTrue`), so is the state a host holds of it (`HostsAreTrue`), and
  the current writer's state is exactly the log between its calls (`WriterIsAtHead`).

Processing:

* `OutcomesAgree` — a settlement record is the one the row reserved, and no row settles
  through the outbox without its record.
* `InputsLandInOrder` — an input lands once, by itself or as a join, in the admission
  order of its session.
* `AttemptsNeverReturn` — the records of a submission carry attempts that never go back,
  and nothing follows its settlement.
* `AnswersAreNotRepeated` — recovery does not run answered work again.
* `AttemptsAreLimited` — a submission is not started more often than the larger of the
  default limit and its agent's, although the claim asks no limit and a requeue takes the
  agent's away. It says nothing of the deadline; see the observations.
* `SubmissionsSettle` — liveness.

Coordinator:

* `NoWakeIsLost` — the loop does not sleep over a claimable row unless its admission, or a
  task of its session that ends, is about to wake it. Rows that the reconciliation pass or
  start-up made claimable are excepted.
* `TasksAreTracked` — an attempt that the process runs and the row still names is the
  one aborts, deadlines and shutdown reach.
* `NothingStartsAfterShutdown` — the comment in `shutdown()` says that once loop and pass
  have finished "no pass is mid-flight against the stores and no new submission task can
  spawn — so the abort sweep below is complete". After the sweep no attempt begins, no
  task is started, and a row that was in the ledger changes its status only by a task
  that was told to stop or has its settlement reserved. It does not say that the ledger is
  quiet: an admission that tested the flag before may still bring its row, an abort its
  stamp, the heartbeat a lease.
* `CoordinatorMakesProgress` — liveness: claimable work is claimed, a shutdown ends. A
  process that start-up left without a claim loop, and to which nothing has come since,
  is excepted by name (`Stranded`); see the observations.

## 5. Proofs

Everything here holds for every set of submissions, sessions, agents, owners, proposals,
groups, processes and records, every assignment of them and every bound. The assumptions
are the named ones of the modules: `None` is no id, number or outcome, payload functions
are functions, durations, lifetimes, intervals and page sizes are positive, bounds are
naturals. `SubmissionProcessing` adds `InstanceAssumption`: its submissions share one
session key, because an instance of the module is one stream, a stream belongs to one
agent instance and one session of it, and admission derives the key from just these
(`admitSubmissionWithBackend`). TLC evaluates them all in the runs.

### The ledger

`SubmissionStoreProofs` proves of the ledger alone `TypeCorrect`, `AdmissionOrder`,
`JoinStructure`, `RowsConsistent` (invariants) and `FirstTerminalStateWins`,
`ObligationsAreKept`, `HostsReleaseTheirJoins` (action properties), each `Spec => ...`.

**The inductive invariant.** `ExecutesInAdmissionOrder` alone is not inductive: a host
could settle with a delivery that is not behind it, a reserved delivery could adopt an
attempt that two rows share. `Inv` is the conjunction of

* `TypeOK`,
* `SequencesAreUnique` — admission order is a total order,
* `AttemptsAreFenced` — attempt ids below the last generated one, no two running rows
  share one,
* `ColumnsMatchStatus` — needed to know that a running row has no host and a joined one
  no attempt,
* `ExecutesInAdmissionOrder` and `JoinsFollowTheirHost`, which need each other: a joined
  delivery may only be reserved because its host is the head.

**The argument.** Most operations only move a row within its place: it keeps its
sequence, never becomes unsettled again, and starts neither to execute nor to follow a
host. `SafeWrite` says this of one row (`KeepsPlace`, `KeepsAttempt`),
`SafeWritesKeepInv` shows once that a step all of whose writes are safe keeps `Inv`, and
each simple action has a lemma that its row is safe. `NewAttemptKeepsInv` does the same
for the two operations that issue an attempt (`Claim` adds that the row is the head),
and `Admit`, `ClaimJoinable` and the settlements with fan-out have proofs of their own.
`NextInv` puts them together; the action properties follow from `Inv` and one case per
operation.

### Approvals and the refinement

`ToolApprovalsProofs` carries `Inv` over the approval operations with the same lemma,
`SafeWritesKeepInv`: a parked, resumed or aborted row is a safe write. `AInv` adds the
types of the two tables, `WaitingHasPendingDecision`, `AbortedNeverWaits`,
`RunningIsCharged` and `DeniedIsNeverApproved`; the first of them needs that no ledger
step parks anybody (`LedgerStepsPark`) and that a decision resumes whatever it leaves
without a pending proposal (`DecideAllKeepsLedger`). All ways to decide are brought to
one form, `DecidesSoundly` — pending proposals get verdicts each of which is sound — so
that `DecisionsAreFinal`, `DeniedStaysDenied` and `GrantsAreRespected` are read off it.
`WaitsKeepTheBudget` classifies what a step does to the budget columns of a row
(`BudgetStep`) and needs the invariant `BudgetIsSaved`: the saved rest is positive, there
while a submission waits or is queued with its input applied, and gone while it runs. The
ledger's six properties are stated again for `ApprovalsSpec`.

`LedgerKeepsPromise` proves `Spec => PromiseIsKept`: initial states map to initial
states, each step to `Accept`, `Start`, `PutBack` (of nothing, for the steps callers do
not see) or `Finish`. `Start` uses the claim's head test, `Finish` uses
`JoinsFollowTheirHost`: only the first of a line has anything to take along.
`ApprovalsKeepPromise` adds the operations of the approvals: a park, a decision, an
expiry and an abort are each a `PutBack` (`ApprovalStepIsQuiet`). Because processing and
coordinator implement the ledger, they implement the promise too
(`ProcessingKeepsPromise`, `CoordinatorKeepsPromise`): what a caller is told holds of the
whole tower, with its crashes, recoveries and stale lists.

### Processing

`SubmissionProcessingProofs` proves `OutcomesAlwaysAgree`, `AttemptsGoForward`,
`ProcessingTypeCorrect` and `ProcessingFollowsLedger` (the ledger only takes its own
steps). Neither of the first two is inductive.
`PInv` adds to the ledger's `Inv`

* `ExecutorOwes` — the record an activity is about to write, or has written, is the one
  its target's row has decided, and whoever is about to finalize knows it is in the
  stream. It survives every other activity's step because a decided outcome stays;
* `RecordsLieBehind` — no record of a submission is of a later attempt than the one that
  runs in its session or settles it. A joined delivery's input is written under its
  host's attempt, so this must speak of the session, and a replay of the delivery by its
  own attempt comes later because a session runs one submission at a time (`OneRuns`,
  from `ExecutesInAdmissionOrder`) and attempts are generated in order.

The proof has two halves. `Moves` says what a ledger step may do to one row — a decided
outcome stays, only the finalized row settles with a record, whoever starts does so under
a new attempt, a reservation is made by the attempt that runs — and is shown once per
ledger operation. `Entitled` says what the stream's authorization lets land, and
`EntitledRecordFits` that it keeps the properties. Every action is then `Sound`: a ledger
step that moves rows so, at most one entitled record, and one activity that goes on with
what it owes; `SoundKeepsPInv` does the rest.

**Inputs land in order** (`InputsStayInOrder`). An input is written by a task of its own
submission, by the host it joins, or again by whoever recovers either, and nothing at the
moment of the write looks at the inputs before it. `OrderInv` says why that is enough:

* `NoneIsPassed` — where an input landed, every earlier submission that is not settled
  has landed its own or is being settled;
* `Knows` — what a task that still owns its attempt knows of the joins into it, place by
  place: none is under way when it drives the agent; the list it walks names all of them;
  and nothing unsettled stands between the host and a delivery but what joins with it,
  has joined, or is being settled (`Clear`). A task that lost its attempt knows nothing,
  and needs nothing, because the stream refuses it;
* `HostsAreUnsettled`, `JoinedArePersisted` — a settlement leaves no delivery behind, and
  a join is confirmed only behind its record;
* `TasksDiffer` — two tasks never run under one attempt.

`RowsOrdered` says what the ledger may do to the places, `RowsCalm` that a step neither
makes, confirms nor undoes a join; each ledger operation is shown to be one of them, once,
and each action of an activity then keeps `OrderInv` by a lemma of its own
(`ClaimJoinsKeepsOrder`, `ApplyJoinKeepsOrder`, ...), or by `AsideKeepsOrder` when it
writes neither record nor join.

**Answers are not repeated** (`AnswersStayUnrepeated`). `AnswerInv` adds that only heads
of the session answer, in admission order and behind their input; that a task which goes
for another turn has a reason in the stream — every answer of its submission has an input
or a continuation behind it (`Open`) — or is about to land one (`WillTurn`); and, for the
deliveries whose input landed but whose join was never confirmed, that they stand next in
line: in a join (`JoinsLandInLine`) or handed back to the queue (`QueuedLandedFirst`).
Without the last two a delivery could be claimed into a host a second time and the host
take a turn on an input it has answered. This is where `InstanceAssumption` is used: the
inputs of another session would end up between an answer and its repetition.

**Attempts are limited** (`AttemptsStayLimited`). The claim asks no limit, so `LimitInv` says
that whatever can be claimed, now or after a release, has an attempt left (`RowsWithin`).
What makes it so is decided elsewhere and earlier: a recovery pass tests the limit on a
row it read before it inspected the stream. `InspectorKnows` says that this row's limit is
one of the two limits and, as long as the attempt it names still runs, its count the
current one; a later claim or replacement runs under a new attempt, which the fence of
replacement and requeue tells apart, and the live attempt's mark changes the limit but
not the count.

The conjuncts of `OrderInv` and `AnswerInv` were invariants of TLC runs, over two
submissions exhaustively and over three by simulation, before any of them was proved;
those of `LimitInv` over one submission.

### The coordinator

`NodeCoordinatorProofs` shows `CoordinatorTypeCorrect`, then that each action of the
coordinator changes the ledger by an action of `SubmissionStore` or not at all
(`CoordinatorFollowsLedger`). Every safety property of the ledger therefore holds under
the coordinator's stale lists, forced settlements and crashes;
`CoordinatorKeepsAdmissionOrder`, `CoordinatorNeverResettles` and
`CoordinatorKeepsObligations` are the ones a reader would ask for. The three invariants of
its own each need a strengthening (`CInv` is the types and the ledger's `Inv`):

* **`TasksStayTracked`**, by `TaskInv`. A task registers when it starts and the registry
  is one entry per submission, so a second start for a submission would orphan the first.
  The claim loop and the expiry pass start tasks from lists that are stale when they are
  walked. `TaskInv` says that a row just claimed is untouched until its task exists
  (`ClaimIsFresh`), that the pass holds no item of that attempt (`ClaimsAreApart`) and
  takes up only rows without a task here (`TakenUpIsIdle`), and that what the loop settles
  by force is past its deadline or aborted in the eyes of the pass as well
  (`ForcedMustEnd`), so that the pass will not start it again (`ForcedIsNotReplaced`). The
  loop forgets such a task while it still runs, and may, because the row has left its
  attempt (`Sealed`).
* **`ShutdownIsQuiet`**, by two more. `ShutdownInv`: shutdown tells the tasks to stop only
  after the loop ended (`LoopIsOver`) and the pass drained, start-up is over
  (`StartIsOver`), nobody starts either again, and every task that still holds its row
  was told (`ToldAreQuiet`). `PlaceInv`: the coordinator neither parks nor joins, and a
  submission with a tracked task is neither unknown nor in the queue; so neither a late
  admission nor an abort, which do write, moves a row that was there.
* **`NoWakeupIsLost`**, by `WakeInv`. The loop sleeps on a promise and a flag; between its
  list and its sleep anybody may make a row claimable. `ReadyIsAnnounced` says of every
  claimable row who will look at it: the loop, which is on its way to a list, has the row
  on its list or was told to run again; the row's admission or a task of its session,
  which notify the loop when they end; or the interval of the lease scan, for a row that
  the reconciliation pass or start-up made claimable. `LoopHearsShutdown` says the same of
  a shutdown.

TLC checked each conjunct on the instance of `claim_loop`.

### The writers

`ConversationWriterProofs` proves the eight invariants and action properties of the
stream runs. The difficulty is that a call may execute after its writer retried it, gave
it up, was superseded or died. The strengthening `WInv` makes each writer's tail the
source of truth:

* every call under way and every batch of the log carries an operation of the tail that
  its writer has sent (`SentCall`), at its position;
* the log has each number of a claim at most once, and those of the current claim lie
  below the stream's next one;
* a record is held at one place of one writer (`Holds`): pending, or in one operation;
* claims are numbered as they are made, and an answer a writer holds names the batch of
  the operation it is at.

A late call then either is the next one of the current claim, or repeats what the log
holds, or is refused. `FInv` adds the hosts: a state that is shared holds a beginning of
the log, a batch being reduced lies directly behind the state it is reduced onto
(`LagsBehind`), and a writer that began an operation without a state gets none before the
operation is done.

`ConversationRefinementProofs` proves `WritersKeepPromise`: taking a record is `Hand` of
the abstract log, a call's execution that stores is `Land`, an answer is `Confirm` or
`GiveUp`, everything else is invisible. It needs
that who is told an offset is told the one where the record is (`AnswersAreTrue`), also
when the answer is the one of a repetition.

### The caches

`FoldCheckpointsProofs` proves `CurrentFoldsStayTrue`. Its invariant `HInv` says, of
everything that holds a fold under a label (slot, puts, hosts, requests, writers), that
the fold begins the log if the label is the stream's incarnation. What makes it
inductive concerns a host that a writer relabels, by handing its state over, while a
request of the host is suspended: the request's content must then be of the incarnation
of the label (`RequestOK`). It is, because a writer hands over only after its own load,
and the requests of a host are chained, so whatever request is still suspended began
after that load (`MayAdopt`). That the current writer is *at* the head, and not merely
behind it, is because the owner of the stream is unique, so only its batch lands between
its load and its next answer (`LoadOK`).

### What is only model-checked

Every invariant and action property of the passing runs is stated by a theorem. The
liveness properties `ParkedSubmissionWakes`, `EveryRecordIsAnswered`, `SubmissionsSettle`
and `CoordinatorMakesProgress` stay with TLC: liveness under fairness, and ENABLED, are
out of the prover's reach. What is proved is the safety half they rest on: a parked
submission has a pending decision (`NoLostWakeup`), a claimable row has somebody who will
look at it (`NoWakeupIsLost`).

## 6. Findings

`refused_flush`: `appendBatch` reduces a batch before its `try` block
(`conversation-writer.ts:242`), so a record the reducer throws on rejects the operation
without failing the writer, and `flush` clears `flushing` only when its promise is
fulfilled. The trace: the writer has loaded its state, a record the reducer refuses is
enqueued and flushed, its operation is rejected; from then on every flush with pending
records chains to that rejected promise, so a record enqueued later is neither appended
nor answered, and since the writer did not fail nobody replaces it.

`steered_input`: `reconcileInterruptedSubmission` settles at once what inspection calls
completed (`runtime/agent-submissions.ts:532-555`), while the session's comment
(`session.ts:1845-1849`) says that a join whose continuation turn never ran "classifies
`completed` upstream with trailing unanswered entries — detected here and driven before
the next evaluation". The trace: a response is complete, at its turn boundary a delivery
joins and its input lands, the process dies. Recovery finds the answer, settles the
delivery and its host as completed, and never enters the session, where the detection
is: the delivery's input is never answered.

### Observations without a run of their own

* The comment at `sql-agent-execution-store.ts:1149-1151` ("a queued row can never have
  deliveries joined into it") does not hold since approvals exist: a host parked with a
  joined delivery is queued again by the decision. Today's callers of
  `settleQueuedSubmission` do not meet such a row.
* The comment at `conversation-writer.ts:93-97` says that loading again when the sequence
  moved keeps a first append that races the load from publishing a gap. It does not when
  the append lands before the load reads the head and returns after it. Sessions load
  before they append, so today's callers do not meet it.
* Joined deliveries settle before their host and with its outcome
  (`runtime/agent-submissions.ts:1234-1243`). When the process dies in between and the
  session is then aborted, the host settles as aborted behind a delivery that settled
  otherwise.
* `waitForIdle` (`node/agent-coordinator.ts:1252-1274`) may resolve while the answer of a
  claim is still under way.
* Readiness or settlement by a detached reconciliation pass, or by start-up when an
  admission has started the loop before it, wakes nobody; the claim loop finds the row at
  the next lease scan. `NoWakeIsLost` names the exception.
* When `hasUnsettledSubmissions` or `reconcileUnreadySubmissions` throws at start-up
  (`node/agent-coordinator.ts:948-949`), `ensureClaimLoop` (952) is never called;
  `node/assemble.ts:177-181` logs the error and the process serves. It has no claim loop
  and no lease-scan interval, so the work of its predecessor stays unclaimed until some
  admission or abort arrives. `apps/docs/src/content/docs/guide/durability.md:125-126`
  promises a scan at boot and, "While running, the coordinator scans for expired leases".
* A recovery that inspected a submission before its live task persisted the input requeues
  it although the task has marked it since: `requeueSubmission`
  (`sql-agent-execution-store.ts:984-997`) tests the attempt, clears `input_applied_at`,
  the next claim resets `max_attempts` (335) and the next mark stamps a fresh deadline
  (368-369). Line 65 of the same guide calls the timeout "the total active-execution
  budget from the first attempt's start". No attempt is refunded (`AttemptsAreLimited`), so this ends.
* Settling past a deadline removes the tracked task by submission, not by attempt
  (`node/agent-coordinator.ts:664`). A replacement started meanwhile would lose its entry;
  its writes stay fenced by the ledger, and `GraceOver` is why `TasksAreTracked` holds.
* A reader whose request is suspended while the stream is wiped and regrown may be
  answered a fold that mixes incarnations. It is kept under the old label, so the next
  request discards it; `CurrentFoldsAreTrue` speaks of what is held.
* A stream that is truncated or restored from a backup *under the same incarnation*, and
  regrown past a checkpoint, is not recognised by the frontier test
  (`conversation-fold-checkpoint.ts:200-214`). No code does this; it is not modelled.

## 7. Plan

*Done*: ledger, approvals, `AcceptedWork` and the refinement, with proofs; stream,
writers, `DurableLog` and the refinement, with proofs; caches, with proofs; processing and
recovery, with proofs; the Node coordinator, with proofs; the refinement of `AcceptedWork`
by each of them.

*Next*, in this order:

1. Approvals composed with processing: a park in the middle of a run, and the closing of
   approvals on the way to a settlement.
2. The drain and alarms of the Cloudflare coordinator, across evictions.
3. The client's observation: reconnection and replay of batches.

## 8. Not modelled

Much of the repository is computation, adapters, user interface and tooling around the
state above; the share of its lines that a definition stands for is small and will stay
small. What is left out, and why:

* *In `SubmissionProcessing`*: the closing of approvals before a settlement, the advisory
  records that recovery adds for interrupted tools, the settlement of a row without a
  conversation, lease renewal. They add records or end approvals beside the order the
  properties are about.
* *In `NodeCoordinator`*: replays of an admission under its key, rotation of writers, the
  caches of MCP connections, events, `waitForIdle`, parking.
* *In `FoldCheckpoints`*: loads up to an offset, eviction of hosts, truncation.
* *In the stream*: spilling of large batches and the size ceiling, listeners.
* *In the approvals*: the projection and notification columns of the two tables,
  bookkeeping of copies and deliveries that decide nothing in the ledger.
* The Cloudflare coordinator (its expiry sweep appears only as fairness) and the client's
  observation: see the plan.
* The session's turns, tools, compaction and subagents are choices of the provider; hooks,
  HTTP, MCP, channels, CLI, build and telemetry are computation, configuration or I/O.
* The database adapters implement the same contract with other engines. The model follows
  the SQL store of the runtime package, and nothing here says that an adapter's isolation
  level gives the atomicity which SQLite's and the Durable Object's synchronous
  transactions do.
