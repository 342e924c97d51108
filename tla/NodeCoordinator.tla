--------------------------- MODULE NodeCoordinator ---------------------------
(***************************************************************************)
(* The coordinator of one Node process over the submission ledger          *)
(* (src/packages/runtime/src/node/agent-coordinator.ts): admission, the    *)
(* claim loop and its wake-ups, tasks, deadline enforcement, the           *)
(* reconciliation pass, start and shutdown, and the process dying.         *)
(*                                                                         *)
(* Three threads await the store in turn: start-up, the claim loop and the *)
(* single-flight reconciliation pass.  Each step of a thread ends at an    *)
(* await; admissions, tasks, timers and shutdown run in between.  What a   *)
(* task does is SubmissionProcessing's concern; here it settles, fails or  *)
(* hangs.                                                                  *)
(***************************************************************************)
EXTENDS SubmissionStore

CONSTANT MaxFaults \* bound: failing store calls, tasks and processes

ASSUME FaultsAssumption == MaxFaults \in Nat

VARIABLES
  threads,     \* start-up, the claim loop and the reconciliation pass
  wakes,       \* wakeRequested, and whether the sleep promise is resolved
  active,      \* activeSubmissions: the attempt whose task is tracked
  tasks,       \* the task of each attempt this process runs
  admissions,  \* admissions between the test of stopping and their return
  shutdown,    \* how far shutdown() is
  faults,      \* faults so far
  unannounced  \* history: rows the pass or the start-up made claimable, silently

process == <<threads, wakes, active, tasks, admissions, shutdown>>
cvars == <<rows, lastSequence, lastAttempt, now, threads, wakes, active, tasks,
           admissions, shutdown, faults, unannounced>>
LedgerUnchanged == UNCHANGED vars

-----------------------------------------------------------------------------
(* State of the process *)

Attempts == 1 .. MaxAttemptIds

\* A row as a list or a read returned it.
Item == [sub : Submissions, attempt : Nat, aborted : BOOLEAN]
ASSUME ItemAssumption == None \notin Item
ItemOf(s) == [sub |-> s, attempt |-> rows[s].attempt, aborted |-> rows[s].abortRequested]
Items(S) == {ItemOf(s) : s \in S}
First(T) == {i \in T : \A j \in T : rows[i.sub].sequence <= rows[j.sub].sequence}

StartPcs == {"down", "begin", "unready", "ready", "await", "serving", "failed"}
LoopPcs == {"off", "begin", "unready", "due", "enforce", "enforced", "force", "finalize", "await",
            "list", "claims", "spawn", "end", "backoff", "asleep", "done"}
PassPcs == {"none", "begin", "unready", "pending", "owed", "expire", "expired", "decide",
            "finalize", "spawn"}
ListPcs == {"unready", "owed", "expired", "enforce", "claims"}         \* at the next item
ItemPcs == {"force", "finalize", "spawn", "decide"}                    \* at work on one
ThreadState == [pc : StartPcs \cup LoopPcs \cup PassPcs, todo : SUBSET Item,
                item : Item \cup {None}, progressed : BOOLEAN]
TaskState == [sub : Submissions \cup {None}, pc : {"none", "running", "settling", "ending"},
              signal : {"none", "abort", "shutdown"}]

Thread(pc) == [pc |-> pc, todo |-> {}, item |-> None, progressed |-> FALSE]
NoTask == [sub |-> None, pc |-> "none", signal |-> "none"]

\* A start-up whose recovery failed serves all the same.
Up == threads.start.pc \in {"serving", "failed"}
Stopping == shutdown # "no"
PassInFlight == threads.pass.pc # "none"
ClaimPassRunning(t) == t.loop.pc \notin {"off", "asleep", "done"}

FreshProcess ==
  /\ threads' = [start |-> Thread("down"), loop |-> Thread("off"), pass |-> Thread("none")]
  /\ wakes' = [requested |-> FALSE, resolved |-> FALSE]
  /\ active' = [s \in Submissions |-> NoAttempt]
  /\ tasks' = [a \in Attempts |-> NoTask]
  /\ admissions' = {}
  /\ shutdown' = "no"

CoordinatorInit ==
  /\ Init
  /\ threads = [start |-> Thread("down"), loop |-> Thread("off"), pass |-> Thread("none")]
  /\ wakes = [requested |-> FALSE, resolved |-> FALSE]
  /\ active = [s \in Submissions |-> NoAttempt]
  /\ tasks = [a \in Attempts |-> NoTask]
  /\ admissions = {}
  /\ shutdown = "no"
  /\ faults = 0
  /\ unannounced = {}

Goto(th, pc) == threads' = [threads EXCEPT ![th].pc = pc]

\* A thread goes through the items of a list one by one.  When none is left it
\* is at its next await.
After(th) ==
  [unready |-> [start |-> "ready", loop |-> "due", pass |-> "pending"][th],
   owed |-> "expire", expired |-> "none", enforce |-> "enforced", claims |-> "end"]
\* Mutant: an item that is done with stays the thread's.
AtKeepingItem(th, pc, T) ==
  [threads[th] EXCEPT !.pc = IF T = {} THEN After(th)[pc] ELSE pc, !.todo = T]
At(th, pc, T) ==
  [threads[th] EXCEPT !.pc = IF T = {} THEN After(th)[pc] ELSE pc, !.todo = T, !.item = None]

\* Whoever awaits the reconciliation pass goes on when it is over.
Resumed(t) ==
  IF t.pass.pc # "none" THEN t
  ELSE [t EXCEPT !.loop.pc = IF @ = "await" THEN "list" ELSE @,
                 !.start.pc = IF @ = "await" THEN "serving" ELSE @]
Work(th, pc, T) == threads' = Resumed([threads EXCEPT ![th] = At(th, pc, T)])

\* wake(): a flag while a claim pass runs, else the sleep promise.
Woken(t, w) ==
  IF ClaimPassRunning(t) THEN [w EXCEPT !.requested = TRUE]
  ELSE [w EXCEPT !.resolved = w.resolved \/ t.loop.pc = "asleep"]
Wake == wakes' = Woken(threads, wakes)

\* The loop enters a pass, which returns at once during shutdown.  Up to the
\* pass's first await this is one step with whatever led here.
Entered(t) ==
  [t EXCEPT !.loop = Thread(IF Stopping THEN "end" ELSE "begin")]

\* ensureClaimLoop(); wake(): a loop just started is told to run twice.
Ensured(t) ==
  IF t.loop.pc # "off" THEN t
  ELSE IF Stopping THEN [t EXCEPT !.loop.pc = "done"]
  ELSE Entered(t)
EnsureAndWake ==
  /\ threads' = Ensured(threads)
  /\ wakes' = Woken(threads', wakes)

\* spawnSubmissionTask
Spawn(s, a) ==
  /\ tasks' = [tasks EXCEPT ![a] = [sub |-> s, pc |-> "running", signal |-> "none"]]
  /\ active' = [active EXCEPT ![s] = a]

\* Abort controllers of the tracked tasks of S.
Signalled(S, signal) ==
  tasks' = [a \in Attempts |->
              IF tasks[a].sub \in S /\ active[tasks[a].sub] = a /\ tasks[a].signal = "none"
                THEN [tasks[a] EXCEPT !.signal = signal] ELSE tasks[a]]

-----------------------------------------------------------------------------
(* Admission, aborts, timers *)

\* admitDispatch() and createAdmission() are served as soon as start-up begins,
\* and test the flag once ...
BeginAdmission(s) ==
  /\ ~Stopping
  /\ rows[s].status = "absent" /\ s \notin admissions
  /\ admissions' = admissions \cup {s}
  /\ LedgerUnchanged /\ UNCHANGED <<threads, wakes, active, tasks, shutdown, faults, unannounced>>

\* ... before they read the instance's conversation, and may throw ...
AdmissionRefused(s) ==
  /\ s \in admissions /\ rows[s].status = "absent"
  /\ admissions' = admissions \ {s}
  /\ LedgerUnchanged /\ UNCHANGED <<threads, wakes, active, tasks, shutdown, faults, unannounced>>

\* ... then comes the durable row ...
AdmitRow(s) ==
  /\ s \in admissions /\ Admit(s)
  /\ UNCHANGED <<process, faults, unannounced>>

\* ... the conversation and the readiness mark, which may fail ...
Materialize(s) ==
  /\ s \in admissions
  /\ ~rows[s].ready /\ MarkCanonicalReady(s)
  /\ UNCHANGED <<process, faults, unannounced>>

\* ... and, once there is a row, the wake-up in any case.
EndAdmission(s) ==
  /\ s \in admissions /\ rows[s].status # "absent"
  /\ admissions' = admissions \ {s}
  /\ EnsureAndWake
  /\ LedgerUnchanged /\ UNCHANGED <<active, tasks, shutdown, faults, unannounced>>

\* abortInstance(): the stamp, the controllers of what runs here, and a detached
\* pass for what does not.
AbortInstance(k) ==
  LET affected == {s \in Submissions : SessionOf[s] = k /\ rows[s].status \in Abortable} IN
  /\ RequestSessionAbort(k)
  /\ Signalled(affected, "abort")
  /\ LET t == Ensured(threads) IN
     /\ wakes' = Woken(t, wakes)
     /\ threads' = IF /\ \E s \in affected : active[s] = NoAttempt
                      /\ ~PassInFlight /\ ~Stopping
                     THEN [t EXCEPT !.pass = Thread("begin")] ELSE t
  /\ UNCHANGED <<active, admissions, shutdown, faults, unannounced>>

\* Mutant: the loop is woken for events only.
LeaseScanTimerIdle ==
  /\ threads.loop.pc # "off" /\ shutdown # "closed"
  /\ LedgerUnchanged /\ UNCHANGED <<process, faults, unannounced>>
\* The lease-scan interval, and the heartbeat that keeps tracked leases live.
LeaseScanTimer ==
  /\ threads.loop.pc # "off" /\ shutdown # "closed"
  /\ Wake
  /\ LedgerUnchanged /\ UNCHANGED <<threads, active, tasks, admissions, shutdown, faults, unannounced>>

Heartbeat(o) ==
  /\ threads.loop.pc # "off" /\ shutdown # "closed"
  /\ rows' = [s \in Submissions |->
                IF active[s] # NoAttempt /\ rows[s].status = "running" /\ rows[s].owner = o
                  THEN [rows[s] EXCEPT !.lease = "live"] ELSE rows[s]]
  /\ UNCHANGED <<lastSequence, lastAttempt, now, process, faults, unannounced>>

\* A lease runs out when its heartbeats have ended, or keep failing.  It does not
\* run out within the call that sets it.
LeaseRunsOut(s) ==
  /\ \A th \in DOMAIN threads :
       threads[th].pc = "spawn" => threads[th].item.sub # s
  /\ \/ active[s] = NoAttempt /\ UNCHANGED faults
     \/ active[s] # NoAttempt /\ faults < MaxFaults /\ faults' = faults + 1
  /\ LeaseLapses(s)
  /\ UNCHANGED <<process, unannounced>>

-----------------------------------------------------------------------------
(* Tasks *)

Running(a) == tasks[a].pc = "running"

\* The attempt comes to an outcome and reserves it, if it still has the row.
TaskSettles(a, outcome) ==
  /\ Running(a)
  /\ outcome = "aborted" => rows[tasks[a].sub].abortRequested
  /\ IF Runs(tasks[a].sub, a)
       THEN /\ ReserveSettlement(tasks[a].sub, a, outcome)
            /\ tasks' = [tasks EXCEPT ![a].pc = "settling"]
       ELSE /\ LedgerUnchanged
            /\ tasks' = [tasks EXCEPT ![a].pc = "ending"]
  /\ UNCHANGED <<threads, wakes, active, admissions, shutdown, faults, unannounced>>

TaskFinalizes(a) ==
  LET s == tasks[a].sub IN
  /\ tasks[a].pc = "settling"
  /\ \/ FinalizeSettlement(s, a)
     \/ ~(rows[s].status = "terminalizing" /\ rows[s].attempt = a) /\ LedgerUnchanged
  /\ tasks' = [tasks EXCEPT ![a].pc = "ending"]
  /\ UNCHANGED <<threads, wakes, active, admissions, shutdown, faults, unannounced>>

\* Shutdown's signal ends a task without a settlement; so does a store that
\* fails under it.
TaskStops(a) ==
  /\ tasks[a].pc \in {"running", "settling"}
  /\ \/ tasks[a].signal = "shutdown" /\ Running(a) /\ UNCHANGED faults
     \/ faults < MaxFaults /\ faults' = faults + 1
  /\ tasks' = [tasks EXCEPT ![a].pc = "ending"]
  /\ LedgerUnchanged
  /\ UNCHANGED <<threads, wakes, active, admissions, shutdown, unannounced>>

\* finally: whatever task of the submission is tracked is no longer.
TaskEnds(a) ==
  /\ tasks[a].pc = "ending"
  /\ tasks' = [tasks EXCEPT ![a] = NoTask]
  /\ active' = [active EXCEPT ![tasks[a].sub] = NoAttempt]
  /\ Wake
  /\ LedgerUnchanged /\ UNCHANGED <<threads, admissions, shutdown, faults, unannounced>>

-----------------------------------------------------------------------------
(* The pass over rows that are not ready, run by every thread *)

Unready == {s \in Submissions : rows[s].status = "queued" /\ ~rows[s].ready}

ListUnready(th) ==
  /\ threads[th].pc = "begin"
  /\ Work(th, "unready", Items(Unready))
  /\ LedgerUnchanged
  /\ UNCHANGED <<wakes, active, tasks, admissions, shutdown, faults, unannounced>>

\* What the reconciliation pass makes claimable is announced to nobody; nor is
\* what start-up does, when an admission has started the loop before it.
Silently(th) ==
  unannounced' = IF th # "loop"
                   THEN unannounced \cup {s \in Submissions : Runnable(s)' /\ ~Runnable(s)}
                   ELSE unannounced

\* An aborted row is settled, another made ready; when that fails, the row
\* settles once its deadline has passed.
ReconcileUnready(th) ==
  /\ threads[th].pc = "unready"
  /\ \E item \in First(threads[th].todo) :
       /\ Work(th, "unready", threads[th].todo \ {item})
       /\ \/ item.aborted /\ SettleQueued(item.sub, "aborted")
          \/ ~item.aborted /\ MarkCanonicalReady(item.sub)
          \/ ~item.aborted /\ now >= DefaultTimeout /\ SettleQueued(item.sub, "failed")
          \/ (item.aborted => rows[item.sub].status # "queued") /\ LedgerUnchanged
  /\ Silently(th)
  /\ UNCHANGED <<wakes, active, tasks, admissions, shutdown, faults>>

-----------------------------------------------------------------------------
(* The reconciliation pass *)

\* reconcileRunningSubmissions(): the pass in flight, or a new one, which
\* returns at once during shutdown.
PassStarted(t) ==
  Resumed(IF t.pass.pc = "none" /\ ~Stopping THEN [t EXCEPT !.pass = Thread("begin")] ELSE t)

ListPending ==
  /\ threads.pass.pc = "pending"
  /\ Work("pass", "owed", Items({s \in Submissions : rows[s].status = "terminalizing"}))
  /\ LedgerUnchanged
  /\ UNCHANGED <<wakes, active, tasks, admissions, shutdown, faults, unannounced>>

\* A settlement whose attempt is neither tracked here nor leased elsewhere.
FinalizeOwed ==
  /\ threads.pass.pc = "owed"
  /\ \E item \in First(threads.pass.todo) :
       LET s == item.sub IN
       /\ Work("pass", "owed", threads.pass.todo \ {item})
       /\ IF active[s] = NoAttempt /\ rows[s].lease # "live" /\ rows[s].status = "terminalizing"
            THEN FinalizeSettlement(s, item.attempt) ELSE LedgerUnchanged
  /\ Silently("pass")
  /\ UNCHANGED <<wakes, active, tasks, admissions, shutdown, faults>>

ListExpired ==
  /\ threads.pass.pc = "expire"
  /\ Work("pass", "expired", Items({s \in Submissions :
                                     rows[s].status = "running" /\ rows[s].lease = "lapsed"}))
  /\ LedgerUnchanged
  /\ UNCHANGED <<wakes, active, tasks, admissions, shutdown, faults, unannounced>>

\* Mutant: the pass also takes up what runs here.
TakesAll(item) == TRUE
\* A submission this process still works on is left alone.
Takes(item) == active[item.sub] = NoAttempt

NextExpired ==
  /\ threads.pass.pc = "expired"
  /\ \E item \in First(threads.pass.todo) :
       LET rest == threads.pass.todo \ {item} IN
       threads' = Resumed([threads EXCEPT !.pass =
         IF Stopping THEN Thread("none")
         ELSE IF Takes(item) THEN [Thread("decide") EXCEPT !.todo = rest, !.item = item]
         ELSE At("pass", "expired", rest)])
  /\ LedgerUnchanged
  /\ UNCHANGED <<wakes, active, tasks, admissions, shutdown, faults, unannounced>>

Overdue(s) == rows[s].timeoutAt > 0 /\ now >= rows[s].timeoutAt
Exhausted(s) == rows[s].attemptCount >= rows[s].maxAttempts

\* How reconcileInterruptedSubmission may settle the row it was given: finished
\* work, the abort, the budget or the deadline (see SubmissionProcessing).
Verdicts(item) ==
  {"completed"} \cup (IF item.aborted THEN {"aborted"} ELSE {})
    \cup (IF Exhausted(item.sub) \/ Overdue(item.sub) THEN {"failed"} ELSE {})

\* The thread is done with an item.
Return(th) ==
  Work(th, IF th = "pass" THEN "expired"
           ELSE IF threads.loop.pc = "spawn" THEN "claims" ELSE "enforce",
       threads[th].todo)

\* The settlement is reserved by thread th, or the row is not the item's
\* attempt's any more and the thread goes on.
ReserveItem(th) ==
  LET item == threads[th].item IN
  \/ \E outcome \in Verdicts(item) :
       ReserveSettlement(item.sub, item.attempt, outcome) /\ Goto(th, "finalize")
  \/ ~Runs(item.sub, item.attempt) /\ LedgerUnchanged /\ Return(th)

FinalizeItem(th) ==
  LET item == threads[th].item IN
  \/ FinalizeSettlement(item.sub, item.attempt)
  \/ /\ ~(rows[item.sub].status = "terminalizing" /\ rows[item.sub].attempt = item.attempt)
     /\ LedgerUnchanged

DecideExpired ==
  LET item == threads.pass.item
      s == item.sub
      again == ~item.aborted /\ ~Exhausted(s) /\ ~Overdue(s)
  IN
  /\ threads.pass.pc = "decide"
  /\ \/ ReserveItem("pass")
     \/ again /\ Requeue(s, item.attempt) /\ Return("pass")
     \/ /\ again
        /\ \E o \in Owners : ReplaceAttempt(s, item.attempt, o)
        /\ threads' = [threads EXCEPT !.pass.pc = "spawn",
                                      !.pass.item.attempt = lastAttempt + 1]
  /\ Silently("pass")
  /\ UNCHANGED <<wakes, active, tasks, admissions, shutdown, faults>>

FinalizeExpired ==
  /\ threads.pass.pc = "finalize"
  /\ FinalizeItem("pass")
  /\ Return("pass")
  /\ Silently("pass")
  /\ UNCHANGED <<wakes, active, tasks, admissions, shutdown, faults>>

SpawnReplacement ==
  /\ threads.pass.pc = "spawn"
  /\ Spawn(threads.pass.item.sub, threads.pass.item.attempt)
  /\ Return("pass")
  /\ LedgerUnchanged /\ UNCHANGED <<wakes, admissions, shutdown, faults, unannounced>>

PassStep ==
  \/ ListUnready("pass") \/ ReconcileUnready("pass") \/ ListPending \/ FinalizeOwed
  \/ ListExpired \/ NextExpired \/ DecideExpired \/ FinalizeExpired \/ SpawnReplacement

-----------------------------------------------------------------------------
(* The claim loop *)

\* The lease scan is due every 15 seconds, and starts with the deadlines of
\* what runs here.
DueScan ==
  /\ threads.loop.pc = "due"
  /\ \/ Work("loop", "enforce", {[ItemOf(s) EXCEPT !.attempt = active[s]] :
                                  s \in {t \in Submissions : active[t] # NoAttempt}})
     \/ Goto("loop", "list")
  /\ LedgerUnchanged
  /\ UNCHANGED <<wakes, active, tasks, admissions, shutdown, faults, unannounced>>

\* The grace counts from the signal or the abort, and is longer than what a pass
\* still does with a row it read before that.
GraceOver(s, a) ==
  /\ rows[s].abortRequested \/ tasks[a].signal # "none"
  /\ \A item \in threads.pass.todo \cup {threads.pass.item} :
       item # None => (item.sub = s => item.aborted)

\* enforceActiveDeadlines(): the controller is fired first, and once the grace
\* is over the submission is settled over its task.
Enforce ==
  /\ threads.loop.pc = "enforce" /\ ~Stopping
  /\ \E item \in First(threads.loop.todo) :
       LET s == item.sub
           rest == threads.loop.todo \ {item}
           due == rows[s].status = "running" /\ (rows[s].abortRequested \/ Overdue(s))
       IN
       /\ tasks' = IF due /\ tasks[item.attempt].sub = s /\ tasks[item.attempt].signal = "none"
                     THEN [tasks EXCEPT ![item.attempt].signal = "abort"] ELSE tasks
       /\ \/ Work("loop", "enforce", rest)
          \/ /\ due /\ GraceOver(s, item.attempt)
             /\ threads' = [threads EXCEPT !.loop.pc = "force", !.loop.todo = rest,
                                           !.loop.item = ItemOf(s)]
  /\ LedgerUnchanged
  /\ UNCHANGED <<wakes, active, admissions, shutdown, faults, unannounced>>

\* The expired leases come next.
StartScan ==
  /\ \/ threads.loop.pc = "enforced"
     \/ threads.loop.pc = "enforce" /\ Stopping
  /\ threads' = PassStarted([threads EXCEPT !.loop = Thread("await")])
  /\ LedgerUnchanged
  /\ UNCHANGED <<wakes, active, tasks, admissions, shutdown, faults, unannounced>>

\* The hung task is orphaned with whatever else tracked its submission.
ForceSettle ==
  /\ \/ /\ threads.loop.pc = "force"
        /\ ReserveItem("loop")
        /\ active' = IF Runs(threads.loop.item.sub, threads.loop.item.attempt)
                       THEN active ELSE [active EXCEPT ![threads.loop.item.sub] = NoAttempt]
     \/ /\ threads.loop.pc = "finalize"
        /\ FinalizeItem("loop") /\ Return("loop")
        /\ active' = [active EXCEPT ![threads.loop.item.sub] = NoAttempt]
  /\ UNCHANGED <<wakes, tasks, admissions, shutdown, faults, unannounced>>

ListRunnable ==
  /\ threads.loop.pc = "list"
  /\ Work("loop", "claims", Items({s \in Submissions : Runnable(s)}))
  /\ unannounced' = {}
  /\ LedgerUnchanged /\ UNCHANGED <<wakes, active, tasks, admissions, shutdown, faults>>

\* A claim the store refuses, or of what runs here, is passed over.
ClaimListed ==
  /\ threads.loop.pc = "claims"
  /\ \E item \in First(threads.loop.todo) :
       LET s == item.sub
           rest == threads.loop.todo \ {item}
       IN
       \/ /\ active[s] = NoAttempt
          /\ \E o \in Owners : Claim(s, o)
          /\ threads' = [threads EXCEPT !.loop.pc = "spawn", !.loop.todo = rest,
                           !.loop.item = [item EXCEPT !.attempt = lastAttempt + 1],
                           !.loop.progressed = TRUE]
       \/ /\ active[s] # NoAttempt \/ ~Runnable(s) \/ lastAttempt = MaxAttemptIds
          /\ Work("loop", "claims", rest)
          /\ LedgerUnchanged
  /\ UNCHANGED <<wakes, active, tasks, admissions, shutdown, faults, unannounced>>

SpawnClaimed ==
  /\ threads.loop.pc = "spawn"
  /\ Spawn(threads.loop.item.sub, threads.loop.item.attempt)
  /\ Return("loop")
  /\ LedgerUnchanged /\ UNCHANGED <<wakes, admissions, shutdown, faults, unannounced>>

\* Mutant: a wake-up that came during the pass is forgotten with it.
PassEndsForgetful ==
  /\ threads.loop.pc = "end"
  /\ IF ~Stopping /\ threads.loop.progressed
       THEN threads' = Entered(threads)
       ELSE threads' = [threads EXCEPT !.loop = Thread(IF Stopping THEN "done" ELSE "asleep")]
  /\ wakes' = [requested |-> FALSE, resolved |-> FALSE]
  /\ LedgerUnchanged /\ UNCHANGED <<active, tasks, admissions, shutdown, faults, unannounced>>
\* The end of a pass: another one, the end of the loop, or sleep on a new
\* promise.  The flag is cleared before a pass, never after it.
PassEnds ==
  /\ threads.loop.pc = "end"
  /\ threads' = IF ~Stopping /\ (threads.loop.progressed \/ wakes.requested)
                  THEN Entered(threads)
                ELSE [threads EXCEPT !.loop =
                        Thread(IF wakes.requested THEN "done" ELSE "asleep")]
  /\ wakes' = [requested |-> FALSE, resolved |-> FALSE]
  /\ LedgerUnchanged /\ UNCHANGED <<active, tasks, admissions, shutdown, faults, unannounced>>

\* The pass over unready rows ends with the list call that fails, and with a row
\* it cannot settle; one it cannot make ready is left for later.
UnreadyFails(th) ==
  \/ threads[th].pc = "begin"
  \/ /\ threads[th].pc = "unready"
     /\ \E item \in First(threads[th].todo) : item.aborted \/ now >= DefaultTimeout

\* A store call of the claim pass fails (at "spawn": the claim is made, its
\* answer is lost) and the loop backs off, to run again.
LoopFails ==
  /\ UnreadyFails("loop") \/ threads.loop.pc \in {"list", "claims", "spawn"}
  /\ threads' = [threads EXCEPT !.loop = Thread("backoff")]

\* A list call of the reconciliation pass fails it, and the claim pass that
\* awaits it.  A start-up that awaits it logs the error and serves.
PassFails ==
  /\ UnreadyFails("pass") \/ threads.pass.pc \in {"pending", "expire"}
  /\ threads' = [threads EXCEPT !.pass = Thread("none"),
                    !.loop.pc = IF @ = "await" THEN "backoff" ELSE @,
                    !.start.pc = IF @ = "await" THEN "serving" ELSE @]

\* A start-up that fails before it has started the claim loop logs the error and
\* serves, too: without a loop, without its timers and without a pass.
StartFails ==
  /\ threads.start.pc = "down" \/ UnreadyFails("start")
  /\ threads' = [threads EXCEPT !.start = Thread("failed")]

\* A call for one row fails, and the pass over such rows goes on to the next.
ItemFails ==
  \/ threads.pass.pc \in {"decide", "finalize", "spawn"} /\ Return("pass")
  \/ threads.loop.pc \in {"force", "finalize"} /\ Return("loop")

CallFails ==
  /\ faults < MaxFaults /\ faults' = faults + 1
  /\ LoopFails \/ PassFails \/ StartFails \/ ItemFails
  /\ LedgerUnchanged /\ UNCHANGED <<wakes, active, tasks, admissions, shutdown, unannounced>>

LoopRetries ==
  /\ threads.loop.pc = "backoff"
  /\ threads' = IF Stopping THEN [threads EXCEPT !.loop = Thread("done")] ELSE Entered(threads)
  /\ wakes' = [requested |-> FALSE, resolved |-> FALSE]
  /\ LedgerUnchanged /\ UNCHANGED <<active, tasks, admissions, shutdown, faults, unannounced>>

LoopWakes ==
  /\ threads.loop.pc = "asleep" /\ wakes.resolved
  /\ threads' = IF Stopping THEN [threads EXCEPT !.loop = Thread("done")] ELSE Entered(threads)
  /\ wakes' = [requested |-> FALSE, resolved |-> FALSE]
  /\ LedgerUnchanged /\ UNCHANGED <<active, tasks, admissions, shutdown, faults, unannounced>>

LoopStep ==
  \/ ListUnready("loop") \/ ReconcileUnready("loop") \/ DueScan \/ Enforce \/ StartScan \/ ForceSettle
  \/ ListRunnable \/ ClaimListed \/ SpawnClaimed \/ PassEnds
  \/ LoopRetries \/ LoopWakes

-----------------------------------------------------------------------------
(* Start, shutdown, crash *)

\* reconcileSubmissions(): nothing to do, or the unready rows, then the claim
\* loop and one pass; the process can be shut down when the pass is over.
Start ==
  /\ \/ threads.start.pc = "down"
        /\ Goto("start", IF \E s \in Submissions : Unsettled(s) THEN "begin" ELSE "serving")
     \/ threads.start.pc = "ready"
        /\ threads' = PassStarted(Ensured([threads EXCEPT !.start = Thread("await")]))
  /\ LedgerUnchanged
  /\ UNCHANGED <<wakes, active, tasks, admissions, shutdown, faults, unannounced>>

StartStep == Start \/ ListUnready("start") \/ ReconcileUnready("start")

Shutdown ==
  /\ Up /\ ~Stopping
  /\ shutdown' = "loop"
  /\ Wake
  /\ LedgerUnchanged /\ UNCHANGED <<threads, active, tasks, admissions, faults, unannounced>>

LoopEnded ==
  /\ shutdown = "loop" /\ threads.loop.pc \in {"off", "done"}
  /\ shutdown' = "pass"
  /\ LedgerUnchanged
  /\ UNCHANGED <<threads, wakes, active, tasks, admissions, faults, unannounced>>

\* Mutant: shutdown does not wait for a detached pass.
SweepEarly ==
  /\ shutdown = "pass"
  /\ Signalled(Submissions, "shutdown")
  /\ shutdown' = "tasks"
  /\ LedgerUnchanged /\ UNCHANGED <<threads, wakes, active, admissions, faults, unannounced>>
\* No pass is left: every tracked task is told to stop.
Sweep ==
  /\ shutdown = "pass" /\ ~PassInFlight
  /\ Signalled(Submissions, "shutdown")
  /\ shutdown' = "tasks"
  /\ LedgerUnchanged /\ UNCHANGED <<threads, wakes, active, admissions, faults, unannounced>>

\* The tasks have ended, or the timeout is over.
Close ==
  /\ shutdown = "tasks"
  /\ shutdown' = "closed"
  /\ LedgerUnchanged
  /\ UNCHANGED <<threads, wakes, active, tasks, admissions, faults, unannounced>>

ShutdownStep == LoopEnded \/ Sweep \/ Close

\* The process ends, after shutdown or in the middle of anything.
Exit ==
  /\ \/ shutdown = "closed" /\ UNCHANGED faults
     \/ faults < MaxFaults /\ faults' = faults + 1
  /\ FreshProcess
  /\ unannounced' = {}
  /\ LedgerUnchanged

-----------------------------------------------------------------------------
ProcessStep == StartStep \/ LoopStep \/ PassStep

Outside ==
  \/ \E s \in Submissions :
       BeginAdmission(s) \/ AdmissionRefused(s) \/ AdmitRow(s) \/ Materialize(s) \/ EndAdmission(s)
  \/ \E k \in Sessions : AbortInstance(k)
  \/ LeaseScanTimer
  \/ \E o \in Owners : Heartbeat(o)
  \/ \E s \in Submissions : LeaseRunsOut(s)
  \/ Tick /\ UNCHANGED <<process, faults, unannounced>>

TaskStep(a) ==
  \/ \E outcome \in Outcomes : TaskSettles(a, outcome)
  \/ TaskFinalizes(a) \/ TaskStops(a) \/ TaskEnds(a)

CoordinatorNext ==
  \/ ProcessStep
  \/ Outside
  \/ \E a \in Attempts : TaskStep(a)
  \/ CallFails
  \/ Shutdown \/ ShutdownStep
  \/ Exit

CoordinatorSpec == CoordinatorInit /\ [][CoordinatorNext]_cvars

\* Store calls answer, an admission with a row returns, timers fire.  A task may
\* hang.
CoordinatorFairness ==
  /\ WF_cvars(StartStep) /\ WF_cvars(LoopStep) /\ WF_cvars(PassStep)
  /\ WF_cvars(LeaseScanTimer)
  /\ \A s \in Submissions : WF_cvars(EndAdmission(s))
  /\ WF_cvars(ShutdownStep)

FairCoordinatorSpec == CoordinatorSpec /\ CoordinatorFairness

-----------------------------------------------------------------------------
(* Properties *)

\* Every variable has its type, and a thread its place: it has a list to go
\* through exactly where it takes the next item, and holds an item exactly where
\* it works on one, so that no item of a pass is dropped or taken twice.
CoordinatorTypeOK ==
  /\ TypeOK
  /\ threads \in [{"start", "loop", "pass"} -> ThreadState]
  /\ threads.start.pc \in StartPcs /\ threads.loop.pc \in LoopPcs /\ threads.pass.pc \in PassPcs
  /\ \A th \in {"start", "loop", "pass"} :
       /\ threads[th].pc \in ListPcs => threads[th].todo # {}
       /\ threads[th].pc \in ItemPcs <=> threads[th].item # None
       /\ threads[th].pc = "spawn" => threads[th].item.attempt \in Attempts
  /\ wakes \in [requested : BOOLEAN, resolved : BOOLEAN]
  /\ active \in [Submissions -> Attempts \cup {NoAttempt}]
  /\ tasks \in [Attempts -> TaskState]
  /\ \A a \in Attempts : tasks[a].pc = "none" <=> tasks[a].sub = None
  /\ admissions \subseteq Submissions
  /\ shutdown \in {"no", "loop", "pass", "tasks", "closed"}
  /\ faults \in Nat
  /\ unannounced \subseteq Submissions

\* No wake-up is lost: the loop does not sleep over a row it could claim, unless
\* somebody is about to wake it (the admission of that row, a task of its session
\* that ends), or the reconciliation pass or the start-up made the row claimable,
\* which only the lease-scan interval announces.
NoWakeIsLost ==
  threads.loop.pc = "asleep" /\ ~wakes.resolved /\ lastAttempt < MaxAttemptIds =>
    \A s \in Submissions :
      Runnable(s) =>
        \/ s \in unannounced
        \/ s \in admissions
        \/ \E a \in Attempts : tasks[a].pc = "ending" /\ SameSession(tasks[a].sub, s)

\* The process knows every attempt it runs: a task whose row is still its own is
\* the tracked one of its submission, so aborts, heartbeats, deadlines and
\* shutdown reach it and nothing is started beside it.
TasksAreTracked ==
  \A a \in Attempts :
    Running(a) /\ Runs(tasks[a].sub, a) => active[tasks[a].sub] = a

\* Shutdown ends the work of the process: once it has told the tasks to stop, no
\* attempt begins, no task is started, and a row that was in the ledger leaves its
\* status only by the hand of a task that was told or has its settlement reserved.
\* (An admission that passed the test of stopping may still bring its row, an abort
\* its stamp, the heartbeat a lease.)
TasksTold == shutdown \in {"tasks", "closed"}
NothingStartsAfterShutdown ==
  [][TasksTold =>
       /\ lastAttempt' = lastAttempt
       /\ \A a \in Attempts : tasks[a].pc = "none" => tasks'[a].pc = "none"
       /\ \A s \in Submissions :
            rows[s].status # "absent" /\ rows'[s].status # rows[s].status =>
              \E a \in Attempts :
                /\ tasks[a].sub = s
                /\ tasks[a].pc = "settling" \/ tasks[a].signal # "none"]_cvars

\* A start-up that failed before it started the claim loop has left the process
\* without one, and without the interval that would wake it, until an admission
\* or an abort comes.
Stranded ==
  /\ threads.start.pc = "failed" /\ threads.loop.pc = "off"
  /\ \A s \in admissions : rows[s].status = "absent"

\* A claimable submission does not stay unclaimed, and a shutdown does not stay
\* unfinished, whatever wake-ups, passes, faults and restarts come in between,
\* except in a process whose start-up failed and to which nothing has come since.
CoordinatorMakesProgress ==
  /\ \A s \in Submissions :
       Runnable(s) ~> ~Runnable(s) \/ Stopping \/ Stranded \/ lastAttempt = MaxAttemptIds
  /\ Stopping ~> ~Stopping \/ shutdown = "closed"
==============================================================================
