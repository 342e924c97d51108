------------------------ MODULE NodeCoordinatorProofs ------------------------
(***************************************************************************)
(* Proofs about NodeCoordinator, for every set of submissions, owners and  *)
(* sessions and any number of faults: its steps are steps of the ledger,   *)
(* its tasks stay tracked, nothing starts once shutdown has told the tasks *)
(* to stop, and no wake-up of the claim loop is lost.                      *)
(***************************************************************************)
EXTENDS NodeCoordinator, LedgerRefinementProofs

-----------------------------------------------------------------------------
(* The calls of the coordinator are calls the ledger knows *)

LEMMA HolderIsIssued ==
  ASSUME Inv, NEW s \in Submissions, NEW a, Runs(s, a)
  PROVE  a \in AttemptIds
BY DEF Inv, TypeOK, Row, AttemptsAreFenced, ColumnsMatchStatus, ColumnsAgree, Runs,
       AttemptIds, NoAttempt, UnsettledStatus

LEMMA ReserveIsStep ==
  ASSUME Inv, NEW s \in Submissions, NEW a, NEW outcome \in Outcomes,
         ReserveSettlement(s, a, outcome)
  PROVE  Next
<1>1. a \in AttemptIds
  BY HolderIsIssued DEF ReserveSettlement, HostRuns
<1> QED BY <1>1 DEF Next, SettlementStep

LEMMA FinalizeIsStep ==
  ASSUME Inv, NEW s \in Submissions, NEW a, FinalizeSettlement(s, a)
  PROVE  Next
<1>1. a \in AttemptIds
  BY DEF FinalizeSettlement, Inv, TypeOK, Row, AttemptsAreFenced, ColumnsMatchStatus,
         ColumnsAgree, AttemptIds, NoAttempt, UnsettledStatus
<1> QED BY <1>1 DEF Next, SettlementStep

LEMMA RequeueIsStep ==
  ASSUME Inv, NEW s \in Submissions, NEW a, Requeue(s, a)
  PROVE  Next
<1>1. a \in AttemptIds
  BY HolderIsIssued DEF Requeue
<1> QED BY <1>1 DEF Next, AttemptStep

LEMMA ReplaceIsStep ==
  ASSUME Inv, NEW s \in Submissions, NEW a, NEW o \in Owners, ReplaceAttempt(s, a, o)
  PROVE  Next
<1>1. a \in AttemptIds
  BY HolderIsIssued DEF ReplaceAttempt
<1> QED BY <1>1 DEF Next, AttemptStep

-----------------------------------------------------------------------------
(* Threads *)

Threads == {"start", "loop", "pass"}
PcsOf == [start |-> StartPcs, loop |-> LoopPcs, pass |-> PassPcs]

\* What CoordinatorTypeOK says of one thread.
ThreadOK(th, r) ==
  /\ r \in ThreadState
  /\ r.pc \in PcsOf[th]
  /\ r.pc \in ListPcs => r.todo # {}
  /\ r.pc \in ItemPcs <=> r.item # None
  /\ r.pc = "spawn" => r.item.attempt \in Attempts

ThreadsOK(t) ==
  /\ t \in [Threads -> ThreadState]
  /\ \A th \in Threads : ThreadOK(th, t[th])

LEMMA ThreadsAreOK == CoordinatorTypeOK => ThreadsOK(threads)
BY DEF CoordinatorTypeOK, ThreadsOK, ThreadOK, Threads, PcsOf

\* Where a thread goes through a list.
Lists == {<<"start", "unready">>, <<"loop", "unready">>, <<"pass", "unready">>,
          <<"loop", "enforce">>, <<"loop", "claims">>, <<"pass", "owed">>, <<"pass", "expired">>}

LEMMA SetThread ==
  ASSUME NEW t, ThreadsOK(t), NEW th \in Threads, NEW r, ThreadOK(th, r)
  PROVE  ThreadsOK([t EXCEPT ![th] = r])
BY DEF ThreadsOK, ThreadOK

LEMMA FreshThread ==
  ASSUME NEW th \in Threads, NEW pc \in PcsOf[th], pc \notin ListPcs, pc \notin ItemPcs
  PROVE  ThreadOK(th, Thread(pc))
<1>1. pc \in StartPcs \cup LoopPcs \cup PassPcs
  BY DEF PcsOf, Threads
<1> QED BY <1>1 DEF ThreadOK, Thread, ThreadState, ItemPcs

LEMMA MovedThread ==
  ASSUME NEW th \in Threads, NEW r, ThreadOK(th, r), r.item = None,
         NEW pc \in PcsOf[th], pc \notin ListPcs, pc \notin ItemPcs
  PROVE  ThreadOK(th, [r EXCEPT !.pc = pc])
<1>1. pc \in StartPcs \cup LoopPcs \cup PassPcs
  BY DEF PcsOf, Threads
<1> QED BY <1>1 DEF ThreadOK, ThreadState, ItemPcs

LEMMA AtIsOK ==
  ASSUME ThreadsOK(threads), NEW th, NEW pc, <<th, pc>> \in Lists, NEW T \in SUBSET Item
  PROVE  ThreadOK(th, At(th, pc, T)) /\ th \in Threads
<1>1. th \in Threads /\ pc \in PcsOf[th] /\ pc \in ListPcs /\ pc \notin ItemPcs
  BY DEF Lists, Threads, PcsOf, ListPcs, ItemPcs, StartPcs, LoopPcs, PassPcs
<1>2. /\ After(th)[pc] \in PcsOf[th]
      /\ After(th)[pc] \notin ListPcs
      /\ After(th)[pc] \notin ItemPcs
  BY DEF Lists, After, PcsOf, ListPcs, ItemPcs, StartPcs, LoopPcs, PassPcs
<1> DEFINE q == IF T = {} THEN After(th)[pc] ELSE pc
<1>3. q \in PcsOf[th] /\ (q \in ListPcs => T # {}) /\ q \notin ItemPcs
             /\ q # "spawn"
  BY <1>1, <1>2 DEF ItemPcs
<1>4. q \in StartPcs \cup LoopPcs \cup PassPcs
  BY <1>1, <1>3 DEF PcsOf, Threads
<1> HIDE DEF q
<1>5. threads[th] \in ThreadState
  BY <1>1 DEF ThreadsOK
<1>6. ThreadOK(th, [threads[th] EXCEPT !.pc = q, !.todo = T, !.item = None])
  BY <1>3, <1>4, <1>5 DEF ThreadOK, ThreadState
<1> QED BY <1>1, <1>6 DEF At, q

LEMMA ResumedIsOK ==
  ASSUME NEW t, ThreadsOK(t)
  PROVE  ThreadsOK(Resumed(t))
<1>1. CASE t.pass.pc # "none"
  BY <1>1 DEF Resumed
<1>2. CASE t.pass.pc = "none"
  <2> DEFINE l == IF t.loop.pc = "await" THEN "list" ELSE t.loop.pc
             s == IF t.start.pc = "await" THEN "serving" ELSE t.start.pc
  <2>1. ThreadOK("loop", [t.loop EXCEPT !.pc = l])
    BY DEF ThreadsOK, ThreadOK, ThreadState, Threads, PcsOf, LoopPcs, ListPcs, ItemPcs
  <2>2. ThreadOK("start", [t.start EXCEPT !.pc = s])
    BY DEF ThreadsOK, ThreadOK, ThreadState, Threads, PcsOf, StartPcs, ListPcs, ItemPcs
  <2> DEFINE u == [t EXCEPT !["loop"] = [t.loop EXCEPT !.pc = l]]
  <2>3. ThreadsOK(u)
    BY <2>1, SetThread DEF Threads
  <2>4. ThreadsOK([u EXCEPT !["start"] = [t.start EXCEPT !.pc = s]])
    BY <2>2, <2>3, SetThread DEF Threads
  <2>5. Resumed(t) = [u EXCEPT !["start"] = [t.start EXCEPT !.pc = s]]
    BY <1>2 DEF Resumed, ThreadsOK, Threads
  <2> QED BY <2>4, <2>5
<1> QED BY <1>1, <1>2

LEMMA WorkIsOK ==
  ASSUME ThreadsOK(threads), NEW th, NEW pc, <<th, pc>> \in Lists, NEW T \in SUBSET Item,
         Work(th, pc, T)
  PROVE  ThreadsOK(threads')
BY AtIsOK, SetThread, ResumedIsOK DEF Work

LEMMA EnteredIsOK ==
  ASSUME NEW t, ThreadsOK(t)
  PROVE  ThreadsOK(Entered(t))
<1>1. /\ "end" \in PcsOf["loop"] /\ "end" \notin ListPcs /\ "end" \notin ItemPcs
      /\ "begin" \in PcsOf["loop"] /\ "begin" \notin ListPcs /\ "begin" \notin ItemPcs
      /\ "loop" \in Threads
  BY DEF PcsOf, LoopPcs, ListPcs, ItemPcs, Threads
<1>2. ThreadOK("loop", Thread(IF Stopping THEN "end" ELSE "begin"))
  BY <1>1, FreshThread
<1> QED BY <1>1, <1>2, SetThread DEF Entered

LEMMA EnsuredIsOK ==
  ASSUME NEW t, ThreadsOK(t)
  PROVE  ThreadsOK(Ensured(t))
<1>1. /\ "done" \in PcsOf["loop"] /\ "done" \notin ListPcs /\ "done" \notin ItemPcs
      /\ "loop" \in Threads
  BY DEF PcsOf, LoopPcs, ListPcs, ItemPcs, Threads
<1>2. CASE t.loop.pc = "off"
  <2>1. ThreadOK("loop", t.loop) /\ t.loop.item = None
    BY <1>1, <1>2 DEF ThreadsOK, ThreadOK, ItemPcs
  <2>2. ThreadOK("loop", [t.loop EXCEPT !.pc = "done"])
    BY <1>1, <2>1, MovedThread
  <2>3. ThreadsOK([t EXCEPT !["loop"] = [t.loop EXCEPT !.pc = "done"]])
    BY <1>1, <2>2, SetThread
  <2> QED BY <1>2, <2>3, EnteredIsOK DEF Ensured
<1> QED BY <1>2 DEF Ensured

LEMMA StartedPassIsOK ==
  ASSUME NEW t, ThreadsOK(t)
  PROVE  ThreadsOK([t EXCEPT !.pass = Thread("begin")]) /\ ThreadsOK(PassStarted(t))
<1>1. /\ "begin" \in PcsOf["pass"] /\ "begin" \notin ListPcs /\ "begin" \notin ItemPcs
      /\ "pass" \in Threads
  BY DEF PcsOf, PassPcs, ListPcs, ItemPcs, Threads
<1>2. ThreadsOK([t EXCEPT !.pass = Thread("begin")])
  BY <1>1, FreshThread, SetThread
<1> QED BY <1>2, ResumedIsOK DEF PassStarted

-----------------------------------------------------------------------------
(* Every step keeps the types and is a step of the ledger *)

CInv == CoordinatorTypeOK /\ Inv

OthersOK ==
  /\ wakes \in [requested : BOOLEAN, resolved : BOOLEAN]
  /\ active \in [Submissions -> Attempts \cup {NoAttempt}]
  /\ tasks \in [Attempts -> TaskState]
  /\ \A a \in Attempts : tasks[a].pc = "none" <=> tasks[a].sub = None
  /\ admissions \subseteq Submissions
  /\ shutdown \in {"no", "loop", "pass", "tasks", "closed"}
  /\ faults \in Nat
  /\ unannounced \subseteq Submissions

LEMMA TypeParts == CoordinatorTypeOK <=> TypeOK /\ ThreadsOK(threads) /\ OthersOK
BY DEF CoordinatorTypeOK, OthersOK, ThreadsOK, ThreadOK, Threads, PcsOf

Sound == [Next]_vars /\ ThreadsOK(threads') /\ OthersOK'

LEMMA ParkedThread ==
  ASSUME ThreadsOK(threads), NEW th \in Threads, NEW pc \in PcsOf[th],
         pc \notin ListPcs, pc \notin ItemPcs, threads[th].pc \notin ItemPcs, Goto(th, pc)
  PROVE  ThreadsOK(threads')
<1>1. ThreadOK(th, threads[th]) /\ threads[th].item = None
  BY DEF ThreadsOK, ThreadOK
<1>2. ThreadOK(th, [threads[th] EXCEPT !.pc = pc])
  BY <1>1, MovedThread
<1>3. threads' = [threads EXCEPT ![th] = [threads[th] EXCEPT !.pc = pc]]
  BY DEF Goto, ThreadsOK
<1> QED BY <1>2, <1>3, SetThread

LEMMA WokenIsOK ==
  ASSUME NEW t, NEW w \in [requested : BOOLEAN, resolved : BOOLEAN]
  PROVE  Woken(t, w) \in [requested : BOOLEAN, resolved : BOOLEAN]
BY DEF Woken

LEMMA ItemsAreItems ==
  ASSUME TypeOK, NEW S \in SUBSET Submissions
  PROVE  Items(S) \in SUBSET Item
BY DEF Items, ItemOf, Item, TypeOK, Row

LEMMA FirstIsItem ==
  ASSUME ThreadsOK(threads), NEW th \in Threads, NEW item \in First(threads[th].todo)
  PROVE  /\ item \in Item
         /\ threads[th].todo \ {item} \in SUBSET Item
BY DEF ThreadsOK, ThreadOK, ThreadState, First

LEMMA HeldItem ==
  ASSUME ThreadsOK(threads), NEW th \in Threads, threads[th].pc \in ItemPcs
  PROVE  threads[th].item \in Item /\ threads[th].todo \in SUBSET Item
BY DEF ThreadsOK, ThreadOK, ThreadState

LEMMA AdmissionSteps ==
  ASSUME CInv, NEW s \in Submissions,
         \/ BeginAdmission(s) \/ AdmissionRefused(s) \/ AdmitRow(s)
         \/ Materialize(s) \/ EndAdmission(s)
  PROVE  Sound
<1> USE TypeParts DEF CInv
<1>1. CASE BeginAdmission(s) \/ AdmissionRefused(s)
  BY <1>1 DEF BeginAdmission, AdmissionRefused, Sound, OthersOK, LedgerUnchanged
<1>4. CASE AdmitRow(s)
  BY <1>4 DEF AdmitRow, Sound, OthersOK, Next, AdmissionStep, process
<1>2. CASE Materialize(s)
  BY <1>2 DEF Materialize, Sound, OthersOK, Next, AdmissionStep, process
<1>3. CASE EndAdmission(s)
  <2>1. ThreadsOK(threads') /\ wakes' \in [requested : BOOLEAN, resolved : BOOLEAN]
    BY <1>3, EnsuredIsOK, WokenIsOK DEF EndAdmission, EnsureAndWake, OthersOK
  <2> QED BY <1>3, <2>1 DEF EndAdmission, Sound, OthersOK, LedgerUnchanged
<1> QED BY <1>1, <1>2, <1>3, <1>4

LEMMA SignalledIsOK ==
  ASSUME OthersOK, NEW S, NEW signal \in {"abort", "shutdown"}, Signalled(S, signal)
  PROVE  /\ tasks' \in [Attempts -> TaskState]
         /\ \A a \in Attempts : tasks'[a].pc = "none" <=> tasks'[a].sub = None
BY DEF OthersOK, Signalled, TaskState

LEMMA AbortSteps ==
  ASSUME CInv, NEW k \in Sessions, AbortInstance(k)
  PROVE  Sound
<1> USE TypeParts DEF CInv
<1>1. tasks' \in [Attempts -> TaskState]
      /\ \A a \in Attempts : tasks'[a].pc = "none" <=> tasks'[a].sub = None
  BY SignalledIsOK DEF AbortInstance
<1>2. ThreadsOK(threads')
  <2> DEFINE t == Ensured(threads)
  <2>1. ThreadsOK(t) /\ ThreadsOK([t EXCEPT !.pass = Thread("begin")])
    BY EnsuredIsOK, StartedPassIsOK
  <2>2. threads' = t \/ threads' = [t EXCEPT !.pass = Thread("begin")]
    BY DEF AbortInstance
  <2> QED BY <2>1, <2>2
<1>3. wakes' \in [requested : BOOLEAN, resolved : BOOLEAN]
  BY WokenIsOK DEF AbortInstance, OthersOK
<1>4. Next
  BY DEF AbortInstance, Next
<1> QED BY <1>1, <1>2, <1>3, <1>4 DEF AbortInstance, Sound, OthersOK

LEMMA TimerSteps ==
  ASSUME CInv,
         \/ LeaseScanTimer
         \/ \E o \in Owners : Heartbeat(o)
         \/ \E s \in Submissions : LeaseRunsOut(s)
         \/ Tick /\ UNCHANGED <<process, faults, unannounced>>
  PROVE  Sound
<1> USE TypeParts DEF CInv
<1>1. CASE LeaseScanTimer
  BY <1>1, WokenIsOK DEF LeaseScanTimer, Wake, Sound, OthersOK, LedgerUnchanged
<1>2. ASSUME NEW o \in Owners, Heartbeat(o) PROVE Sound
  <2> DEFINE S == {s \in Submissions :
                    active[s] # NoAttempt /\ rows[s].status = "running" /\ rows[s].owner = o}
  <2>1. CASE S = {}
    <3>1. rows' = rows
      BY <1>2, <2>1 DEF Heartbeat, Inv, TypeOK
    <3> QED BY <1>2, <3>1 DEF Heartbeat, Sound, OthersOK, process, vars
  <2>2. CASE S # {}
    <3>1. /\ S \subseteq {s \in Submissions : rows[s].owner = o /\ rows[s].status = "running"}
          /\ rows' = [s \in Submissions |->
                        IF s \in S THEN [rows[s] EXCEPT !.lease = "live"] ELSE rows[s]]
          /\ UNCHANGED <<lastSequence, lastAttempt, now>>
      BY <1>2 DEF Heartbeat
    <3> HIDE DEF S
    <3>2. RenewLeases(o)
      BY <2>2, <3>1 DEF RenewLeases
    <3> QED BY <1>2, <3>2 DEF Heartbeat, Sound, OthersOK, process, Next
  <2> QED BY <2>1, <2>2
<1>3. ASSUME NEW s \in Submissions, LeaseRunsOut(s) PROVE Sound
  BY <1>3 DEF LeaseRunsOut, Sound, OthersOK, process, Next, AttemptStep
<1>4. CASE Tick /\ UNCHANGED <<process, faults, unannounced>>
  BY <1>4 DEF Sound, OthersOK, process, Next
<1> QED BY <1>1, <1>2, <1>3, <1>4

LEMMA TaskSteps ==
  ASSUME CInv, NEW a \in Attempts, TaskStep(a)
  PROVE  Sound
<1> USE TypeParts DEF CInv
<1>1. tasks[a] \in TaskState /\ (tasks[a].pc # "none" => tasks[a].sub \in Submissions)
  BY DEF OthersOK, TaskState
<1>2. \A pc \in {"settling", "ending"} :
        tasks[a].pc # "none" /\ tasks' = [tasks EXCEPT ![a].pc = pc] =>
          /\ tasks' \in [Attempts -> TaskState]
          /\ \A b \in Attempts : tasks'[b].pc = "none" <=> tasks'[b].sub = None
  BY <1>1 DEF OthersOK, TaskState
<1>3. ASSUME NEW outcome \in Outcomes, TaskSettles(a, outcome) PROVE Sound
  <2>1. tasks[a].sub \in Submissions
    BY <1>1, <1>3 DEF TaskSettles, Running
  <2>2. [Next]_vars
    BY <1>3, <2>1, ReserveIsStep DEF TaskSettles, LedgerUnchanged
  <2>3. /\ tasks' \in [Attempts -> TaskState]
        /\ \A b \in Attempts : tasks'[b].pc = "none" <=> tasks'[b].sub = None
    BY <1>2, <1>3 DEF TaskSettles, Running
  <2> QED BY <1>3, <2>2, <2>3 DEF TaskSettles, Sound, OthersOK
<1>4. CASE TaskFinalizes(a)
  <2>1. tasks[a].sub \in Submissions
    BY <1>1, <1>4 DEF TaskFinalizes
  <2>2. [Next]_vars
    BY <1>4, <2>1, FinalizeIsStep DEF TaskFinalizes, LedgerUnchanged
  <2>3. /\ tasks' \in [Attempts -> TaskState]
        /\ \A b \in Attempts : tasks'[b].pc = "none" <=> tasks'[b].sub = None
    BY <1>2, <1>4 DEF TaskFinalizes
  <2> QED BY <1>4, <2>2, <2>3 DEF TaskFinalizes, Sound, OthersOK
<1>5. CASE TaskStops(a)
  <2>1. /\ tasks' \in [Attempts -> TaskState]
        /\ \A b \in Attempts : tasks'[b].pc = "none" <=> tasks'[b].sub = None
    BY <1>2, <1>5 DEF TaskStops
  <2>2. faults' \in Nat
    BY <1>5 DEF TaskStops, OthersOK
  <2> QED BY <1>5, <2>1, <2>2 DEF TaskStops, Sound, OthersOK, LedgerUnchanged
<1>6. CASE TaskEnds(a)
  <2>1. /\ tasks' \in [Attempts -> TaskState]
        /\ \A b \in Attempts : tasks'[b].pc = "none" <=> tasks'[b].sub = None
    BY <1>6 DEF TaskEnds, OthersOK, TaskState, NoTask
  <2>2. active' \in [Submissions -> Attempts \cup {NoAttempt}]
    BY <1>1, <1>6 DEF TaskEnds, OthersOK
  <2>3. wakes' \in [requested : BOOLEAN, resolved : BOOLEAN]
    BY <1>6, WokenIsOK DEF TaskEnds, Wake, OthersOK
  <2> QED BY <1>6, <2>1, <2>2, <2>3 DEF TaskEnds, Sound, OthersOK, LedgerUnchanged
<1> QED BY <1>3, <1>4, <1>5, <1>6 DEF TaskStep

LEMMA UnreadySteps ==
  ASSUME CInv, NEW th \in Threads, ListUnready(th) \/ ReconcileUnready(th)
  PROVE  Sound
<1> USE TypeParts DEF CInv
<1>1. <<th, "unready">> \in Lists
  BY DEF Lists, Threads
<1>2. CASE ListUnready(th)
  <2>1. Items(Unready) \in SUBSET Item
    BY ItemsAreItems DEF Unready
  <2>2. ThreadsOK(threads')
    BY <1>1, <1>2, <2>1, WorkIsOK DEF ListUnready
  <2> QED BY <1>2, <2>2 DEF ListUnready, Sound, OthersOK, LedgerUnchanged
<1>3. CASE ReconcileUnready(th)
  <2>1. PICK item \in First(threads[th].todo) :
          /\ Work(th, "unready", threads[th].todo \ {item})
          /\ \/ item.aborted /\ SettleQueued(item.sub, "aborted")
             \/ ~item.aborted /\ MarkCanonicalReady(item.sub)
             \/ ~item.aborted /\ now >= DefaultTimeout /\ SettleQueued(item.sub, "failed")
             \/ (item.aborted => rows[item.sub].status # "queued") /\ LedgerUnchanged
    BY <1>3 DEF ReconcileUnready
  <2>2. item.sub \in Submissions /\ ThreadsOK(threads')
    BY <1>1, <2>1, FirstIsItem, WorkIsOK DEF Item
  <2>3. [Next]_vars
    BY <2>1, <2>2 DEF Next, AdmissionStep, SettlementStep, LedgerUnchanged
  <2>4. unannounced' \subseteq Submissions
    BY <1>3 DEF ReconcileUnready, Silently, OthersOK
  <2> QED BY <1>3, <2>2, <2>3, <2>4 DEF ReconcileUnready, Sound, OthersOK
<1> QED BY <1>2, <1>3

LEMMA ReturnIsOK ==
  ASSUME ThreadsOK(threads), NEW th \in {"loop", "pass"}, threads[th].pc \in ItemPcs, Return(th)
  PROVE  ThreadsOK(threads')
<1>1. threads[th].todo \in SUBSET Item
  BY HeldItem DEF Threads
<1>2. CASE th = "pass"
  <2>1. Work("pass", "expired", threads["pass"].todo) /\ <<"pass", "expired">> \in Lists
    BY <1>2 DEF Return, Lists
  <2> QED BY <1>1, <1>2, <2>1, WorkIsOK
<1>3. CASE th = "loop"
  <2>1. /\ Work("loop", "claims", threads["loop"].todo) \/ Work("loop", "enforce", threads["loop"].todo)
        /\ <<"loop", "claims">> \in Lists
        /\ <<"loop", "enforce">> \in Lists
    BY <1>3 DEF Return, Lists
  <2> QED BY <1>1, <1>3, <2>1, WorkIsOK
<1> QED BY <1>2, <1>3

\* A thread stays at work on its item, which may have a new attempt.
LEMMA KeptItem ==
  ASSUME ThreadsOK(threads), NEW th \in {"loop", "pass"}, threads[th].pc \in ItemPcs
  PROVE  /\ ThreadsOK([threads EXCEPT ![th] = [threads[th] EXCEPT !.pc = "finalize"]])
         /\ \A n \in Attempts :
              ThreadsOK([threads EXCEPT ![th] =
                [threads[th] EXCEPT !.pc = "spawn", !.item = [threads[th].item EXCEPT !.attempt = n]]])
<1>1. /\ {"finalize", "spawn"} \subseteq PcsOf[th] \cap ItemPcs
      /\ {"finalize", "spawn"} \subseteq StartPcs \cup LoopPcs \cup PassPcs
      /\ "finalize" \notin ListPcs /\ "spawn" \notin ListPcs
      /\ th \in Threads
  BY DEF PcsOf, LoopPcs, PassPcs, ItemPcs, ListPcs, Threads
<1>2. threads[th] \in ThreadState /\ threads[th].item \in Item
  BY <1>1, HeldItem DEF ThreadsOK
<1>3. ThreadOK(th, [threads[th] EXCEPT !.pc = "finalize"])
  BY <1>1, <1>2, ItemAssumption DEF ThreadOK, ThreadState
<1>4. ASSUME NEW n \in Attempts
      PROVE  ThreadOK(th, [threads[th] EXCEPT !.pc = "spawn",
                             !.item = [threads[th].item EXCEPT !.attempt = n]])
  <2> DEFINE j == [threads[th].item EXCEPT !.attempt = n]
  <2>1. j \in Item /\ j.attempt = n
    BY <1>2, DurabilityAssumption DEF Item, Attempts
  <2> HIDE DEF j
  <2>2. ThreadOK(th, [threads[th] EXCEPT !.pc = "spawn", !.item = j])
    BY <1>1, <1>2, <2>1, ItemAssumption DEF ThreadOK, ThreadState
  <2> QED BY <2>2 DEF j
<1> QED BY <1>1, <1>3, <1>4, SetThread

LEMMA ReservedItem ==
  ASSUME CInv, NEW th \in {"loop", "pass"}, threads[th].pc \in ItemPcs, ReserveItem(th)
  PROVE  [Next]_vars /\ ThreadsOK(threads')
<1> USE TypeParts DEF CInv
<1> DEFINE item == threads[th].item
<1>1. item.sub \in Submissions
  BY HeldItem DEF Threads, Item
<1>2. ASSUME NEW outcome \in Verdicts(item),
             ReserveSettlement(item.sub, item.attempt, outcome), Goto(th, "finalize")
      PROVE  Next /\ ThreadsOK(threads')
  <2>1. outcome \in Outcomes
    BY DEF Verdicts, Outcomes
  <2>3. threads' = [threads EXCEPT ![th] = [threads[th] EXCEPT !.pc = "finalize"]]
    BY <1>2 DEF Goto
  <2>4. ThreadsOK(threads')
    BY <2>3, KeptItem
  <2> QED BY <1>1, <1>2, <2>1, <2>4, ReserveIsStep
<1>3. CASE LedgerUnchanged /\ Return(th)
  BY <1>3, ReturnIsOK DEF LedgerUnchanged
<1> QED BY <1>2, <1>3 DEF ReserveItem

LEMMA FinalizedItem ==
  ASSUME CInv, NEW th \in {"loop", "pass"}, threads[th].pc \in ItemPcs, FinalizeItem(th)
  PROVE  [Next]_vars
<1> USE TypeParts DEF CInv
<1>1. threads[th].item.sub \in Submissions
  BY HeldItem DEF Threads, Item
<1> QED BY <1>1, FinalizeIsStep DEF FinalizeItem, LedgerUnchanged

LEMMA SpawnIsOK ==
  ASSUME CInv, NEW th \in Threads, threads[th].pc = "spawn",
         Spawn(threads[th].item.sub, threads[th].item.attempt)
  PROVE  /\ tasks' \in [Attempts -> TaskState]
         /\ \A a \in Attempts : tasks'[a].pc = "none" <=> tasks'[a].sub = None
         /\ active' \in [Submissions -> Attempts \cup {NoAttempt}]
<1> USE TypeParts DEF CInv
<1>1. threads[th].item.sub \in Submissions /\ threads[th].item.attempt \in Attempts
  BY HeldItem DEF Item, ItemPcs, ThreadsOK, ThreadOK
<1>2. threads[th].item.sub # None
  BY <1>1, SubmissionsAssumption
<1> QED BY <1>1, <1>2 DEF Spawn, OthersOK, TaskState

LEMMA PassListSteps ==
  ASSUME CInv, ListPending \/ FinalizeOwed \/ ListExpired \/ NextExpired
  PROVE  Sound
<1> USE TypeParts DEF CInv
<1>1. /\ <<"pass", "owed">> \in Lists
      /\ <<"pass", "expired">> \in Lists
      /\ "pass" \in Threads
  BY DEF Lists, Threads
<1>2. CASE ListPending
  <2>1. ThreadsOK(threads')
    BY <1>1, <1>2, ItemsAreItems, WorkIsOK DEF ListPending
  <2> QED BY <1>2, <2>1 DEF ListPending, Sound, OthersOK, LedgerUnchanged
<1>3. CASE ListExpired
  <2>1. ThreadsOK(threads')
    BY <1>1, <1>3, ItemsAreItems, WorkIsOK DEF ListExpired
  <2> QED BY <1>3, <2>1 DEF ListExpired, Sound, OthersOK, LedgerUnchanged
<1>4. CASE FinalizeOwed
  <2>1. PICK item \in First(threads["pass"].todo) :
          /\ Work("pass", "owed", threads["pass"].todo \ {item})
          /\ FinalizeSettlement(item.sub, item.attempt) \/ LedgerUnchanged
    BY <1>4 DEF FinalizeOwed
  <2>2. item.sub \in Submissions /\ ThreadsOK(threads')
    BY <1>1, <2>1, FirstIsItem, WorkIsOK DEF Item
  <2>3. [Next]_vars
    BY <2>1, <2>2, FinalizeIsStep DEF LedgerUnchanged
  <2>4. unannounced' \subseteq Submissions
    BY <1>4 DEF FinalizeOwed, Silently, OthersOK
  <2> QED BY <1>4, <2>2, <2>3, <2>4 DEF FinalizeOwed, Sound, OthersOK
<1>5. CASE NextExpired
  <2> DEFINE Go(r) == threads' = Resumed([threads EXCEPT !["pass"] = r])
  <2>1. PICK item \in First(threads["pass"].todo) :
          \/ Go(Thread("none"))
          \/ Go([Thread("decide") EXCEPT !.todo = threads["pass"].todo \ {item}, !.item = item])
          \/ Go(At("pass", "expired", threads["pass"].todo \ {item}))
    BY <1>5 DEF NextExpired
  <2>2. item \in Item /\ threads["pass"].todo \ {item} \in SUBSET Item
    BY <1>1, FirstIsItem
  <2>3. ThreadOK("pass", Thread("none"))
    BY <1>1, FreshThread DEF PcsOf, PassPcs, ListPcs, ItemPcs
  <2>4. ThreadOK("pass", At("pass", "expired", threads["pass"].todo \ {item}))
    BY <1>1, <2>2, AtIsOK
  <2>5. ThreadOK("pass", [Thread("decide") EXCEPT !.todo = threads["pass"].todo \ {item},
                                                !.item = item])
    BY <2>2, ItemAssumption
    DEF ThreadOK, Thread, ThreadState, PcsOf, PassPcs, ListPcs, ItemPcs
  <2>6. \A r : ThreadOK("pass", r) /\ Go(r) => ThreadsOK(threads')
    BY <1>1, SetThread, ResumedIsOK
  <2> HIDE DEF Go
  <2>7. ThreadsOK(threads')
    BY <2>1, <2>3, <2>4, <2>5, <2>6
  <2> QED BY <1>5, <2>7 DEF NextExpired, Sound, OthersOK, LedgerUnchanged
<1> QED BY <1>2, <1>3, <1>4, <1>5

LEMMA PassItemSteps ==
  ASSUME CInv, DecideExpired \/ FinalizeExpired
  PROVE  Sound
<1> USE TypeParts DEF CInv
<1> DEFINE item == threads["pass"].item
<1>1. threads["pass"].pc \in ItemPcs /\ "pass" \in Threads
  BY DEF DecideExpired, FinalizeExpired, ItemPcs, Threads
<1>2. item.sub \in Submissions
  BY <1>1, HeldItem DEF Item
<1>3. unannounced' \subseteq Submissions
  BY DEF DecideExpired, FinalizeExpired, Silently, OthersOK
<1>4. CASE DecideExpired
  <2>1. CASE ReserveItem("pass")
    <3>1. [Next]_vars /\ ThreadsOK(threads')
      BY <1>1, <2>1, ReservedItem
    <3> QED BY <1>3, <1>4, <3>1 DEF DecideExpired, Sound, OthersOK
  <2>2. CASE Requeue(item.sub, item.attempt) /\ Return("pass")
    <3>1. ThreadsOK(threads')
      BY <1>1, <2>2, ReturnIsOK
    <3> QED BY <1>2, <1>3, <1>4, <2>2, <3>1, RequeueIsStep DEF DecideExpired, Sound, OthersOK
  <2>3. CASE /\ \E o \in Owners : ReplaceAttempt(item.sub, item.attempt, o)
             /\ threads' = [threads EXCEPT !.pass.pc = "spawn",
                                           !.pass.item.attempt = lastAttempt + 1]
    <3>1. lastAttempt + 1 \in Attempts
      BY <2>3, DurabilityAssumption DEF TypeOK, ReplaceAttempt, WriteWithNewAttempt, Attempts
    <3>2. threads' = [threads EXCEPT !["pass"] =
                        [threads["pass"] EXCEPT !.pc = "spawn",
                           !.item = [threads["pass"].item EXCEPT !.attempt = lastAttempt + 1]]]
      BY <1>1, <2>3, HeldItem DEF ThreadsOK, ThreadState
    <3>4. ThreadsOK(threads')
      BY <1>1, <3>1, <3>2, KeptItem
    <3> QED BY <1>2, <1>3, <1>4, <2>3, <3>4, ReplaceIsStep DEF DecideExpired, Sound, OthersOK
  <2> QED BY <1>4, <2>1, <2>2, <2>3 DEF DecideExpired
<1>5. CASE FinalizeExpired
  <2>1. ThreadsOK(threads') /\ [Next]_vars
    BY <1>1, <1>5, ReturnIsOK, FinalizedItem DEF FinalizeExpired
  <2> QED BY <1>3, <1>5, <2>1 DEF FinalizeExpired, Sound, OthersOK
<1> QED BY <1>4, <1>5

LEMMA SpawnSteps ==
  ASSUME CInv, SpawnReplacement \/ SpawnClaimed
  PROVE  Sound
<1> USE TypeParts DEF CInv
<1>1. ASSUME NEW th \in {"loop", "pass"}, threads[th].pc = "spawn",
             Spawn(threads[th].item.sub, threads[th].item.attempt), Return(th),
             LedgerUnchanged, UNCHANGED <<wakes, admissions, shutdown, faults, unannounced>>
      PROVE  Sound
  <2>1. threads[th].pc \in ItemPcs /\ th \in Threads
    BY <1>1 DEF ItemPcs, Threads
  <2>2. ThreadsOK(threads')
    BY <1>1, <2>1, ReturnIsOK
  <2>3. /\ tasks' \in [Attempts -> TaskState]
        /\ \A a \in Attempts : tasks'[a].pc = "none" <=> tasks'[a].sub = None
        /\ active' \in [Submissions -> Attempts \cup {NoAttempt}]
    BY <1>1, <2>1, SpawnIsOK
  <2> QED BY <1>1, <2>2, <2>3 DEF Sound, OthersOK, LedgerUnchanged
<1> QED BY <1>1 DEF SpawnReplacement, SpawnClaimed

LEMMA EnforceSteps ==
  ASSUME CInv, DueScan \/ Enforce \/ StartScan \/ ForceSettle
  PROVE  Sound
<1> USE TypeParts DEF CInv
<1>1. <<"loop", "enforce">> \in Lists /\ "loop" \in Threads
  BY DEF Lists, Threads
<1>2. CASE DueScan
  <2>1. CASE Goto("loop", "list")
    <3>1. /\ "list" \in PcsOf["loop"] /\ "list" \notin ListPcs /\ "list" \notin ItemPcs
          /\ "due" \notin ItemPcs
      BY DEF PcsOf, LoopPcs, ListPcs, ItemPcs
    <3>2. ThreadsOK(threads')
      BY <1>1, <1>2, <2>1, <3>1, ParkedThread DEF DueScan
    <3> QED BY <1>2, <3>2 DEF DueScan, Sound, OthersOK, LedgerUnchanged
  <2>2. CASE Work("loop", "enforce", {[ItemOf(s) EXCEPT !.attempt = active[s]] :
                                        s \in {t \in Submissions : active[t] # NoAttempt}})
    <3> DEFINE T == {[ItemOf(s) EXCEPT !.attempt = active[s]] :
                       s \in {t \in Submissions : active[t] # NoAttempt}}
    <3>1. \A s \in Submissions : active[s] \in Nat
      BY DurabilityAssumption DEF OthersOK, Attempts, NoAttempt
    <3>2. T \in SUBSET Item
      BY <3>1 DEF ItemOf, Item, TypeOK, Row
    <3> HIDE DEF T
    <3>3. Work("loop", "enforce", T)
      BY <2>2 DEF T
    <3>4. ThreadsOK(threads')
      BY <1>1, <3>2, <3>3, WorkIsOK
    <3> QED BY <1>2, <3>4 DEF DueScan, Sound, OthersOK, LedgerUnchanged
  <2> QED BY <1>2, <2>1, <2>2 DEF DueScan
<1>3. CASE Enforce
  <2>1. PICK item \in First(threads["loop"].todo) :
          LET s == item.sub
              rest == threads["loop"].todo \ {item}
              due == rows[s].status = "running" /\ (rows[s].abortRequested \/ Overdue(s))
          IN
          /\ tasks' = IF due /\ tasks[item.attempt].sub = s /\ tasks[item.attempt].signal = "none"
                        THEN [tasks EXCEPT ![item.attempt].signal = "abort"] ELSE tasks
          /\ \/ Work("loop", "enforce", rest)
             \/ threads' = [threads EXCEPT !.loop.pc = "force", !.loop.todo = rest,
                                           !.loop.item = ItemOf(s)]
    BY <1>3 DEF Enforce
  <2>2. item \in Item /\ threads["loop"].todo \ {item} \in SUBSET Item
    BY <1>1, FirstIsItem
  <2>3. /\ tasks' \in [Attempts -> TaskState]
        /\ \A a \in Attempts : tasks'[a].pc = "none" <=> tasks'[a].sub = None
    <3>1. tasks' = tasks \/ tasks' = [tasks EXCEPT ![item.attempt].signal = "abort"]
      BY <2>1
    <3>2. CASE tasks' = tasks
      BY <3>2 DEF OthersOK
    <3>3. CASE tasks' = [tasks EXCEPT ![item.attempt].signal = "abort"]
      <4>1. /\ tasks \in [Attempts -> TaskState]
            /\ \A a \in Attempts : tasks[a].pc = "none" <=> tasks[a].sub = None
        BY DEF OthersOK
      <4>2. \A e \in TaskState :
              LET told == [e EXCEPT !.signal = "abort"]
              IN  told \in TaskState /\ told.pc = e.pc /\ told.sub = e.sub
        BY DEF TaskState
      <4>3. \A a \in Attempts :
              tasks'[a] = tasks[a] \/ tasks'[a] = [tasks[a] EXCEPT !.signal = "abort"]
        BY <3>3, <4>1
      <4>4. tasks' = [a \in Attempts |-> tasks'[a]]
        BY <3>3, <4>1
      <4>5. ASSUME NEW a \in Attempts
            PROVE  /\ tasks'[a] \in TaskState
                   /\ tasks'[a].pc = tasks[a].pc /\ tasks'[a].sub = tasks[a].sub
        <5>1. tasks[a] \in TaskState
          BY <4>1
        <5> QED BY <4>2, <4>3, <5>1
      <4>6. tasks' \in [Attempts -> TaskState]
        BY SMTT(40), <4>4, <4>5
      <4> QED BY <4>1, <4>5, <4>6
    <3> QED BY <3>1, <3>2, <3>3
  <2>4. CASE Work("loop", "enforce", threads["loop"].todo \ {item})
    <3>1. ThreadsOK(threads')
      BY <1>1, <2>2, <2>4, WorkIsOK
    <3> QED BY <1>3, <2>3, <3>1 DEF Enforce, Sound, OthersOK, LedgerUnchanged
  <2>5. CASE threads' = [threads EXCEPT !.loop.pc = "force",
                           !.loop.todo = threads["loop"].todo \ {item},
                           !.loop.item = ItemOf(item.sub)]
    <3>1. ItemOf(item.sub) \in Item
      BY <2>2 DEF ItemOf, Item, TypeOK, Row
    <3>2. threads["loop"] \in ThreadState
      BY <1>1 DEF ThreadsOK
    <3>3. ThreadOK("loop", [threads["loop"] EXCEPT !.pc = "force",
                              !.todo = threads["loop"].todo \ {item}, !.item = ItemOf(item.sub)])
      BY <2>2, <3>1, <3>2, ItemAssumption
      DEF ThreadOK, ThreadState, PcsOf, LoopPcs, ListPcs, ItemPcs
    <3>4. threads' = [threads EXCEPT !["loop"] = [threads["loop"] EXCEPT !.pc = "force",
                        !.todo = threads["loop"].todo \ {item}, !.item = ItemOf(item.sub)]]
      BY <2>5, <1>1 DEF ThreadsOK
    <3>5. ThreadsOK(threads')
      BY <1>1, <3>3, <3>4, SetThread
    <3> QED BY <1>3, <2>3, <3>5 DEF Enforce, Sound, OthersOK, LedgerUnchanged
  <2> QED BY <2>1, <2>4, <2>5
<1>4. CASE StartScan
  <2>1. ThreadOK("loop", Thread("await"))
    BY <1>1, FreshThread DEF PcsOf, LoopPcs, ListPcs, ItemPcs
  <2>2. ThreadsOK(threads')
    BY <1>1, <1>4, <2>1, SetThread, StartedPassIsOK DEF StartScan
  <2> QED BY <1>4, <2>2 DEF StartScan, Sound, OthersOK, LedgerUnchanged
<1>5. CASE ForceSettle
  <2>1. threads["loop"].pc \in ItemPcs
    BY <1>5 DEF ForceSettle, ItemPcs
  <2>2. threads["loop"].item.sub \in Submissions
    BY <1>1, <2>1, HeldItem DEF Item
  <2>3. active' \in [Submissions -> Attempts \cup {NoAttempt}]
    BY <1>5, <2>2 DEF ForceSettle, OthersOK
  <2>4. [Next]_vars /\ ThreadsOK(threads')
    BY <1>5, <2>1, ReservedItem, FinalizedItem, ReturnIsOK DEF ForceSettle
  <2> QED BY <1>5, <2>3, <2>4 DEF ForceSettle, Sound, OthersOK
<1> QED BY <1>2, <1>3, <1>4, <1>5

LEMMA ClaimSteps ==
  ASSUME CInv, ListRunnable \/ ClaimListed
  PROVE  Sound
<1> USE TypeParts DEF CInv
<1>1. <<"loop", "claims">> \in Lists /\ "loop" \in Threads
  BY DEF Lists, Threads
<1>2. CASE ListRunnable
  <2>1. ThreadsOK(threads')
    BY <1>1, <1>2, ItemsAreItems, WorkIsOK DEF ListRunnable
  <2> QED BY <1>2, <2>1 DEF ListRunnable, Sound, OthersOK, LedgerUnchanged
<1>3. CASE ClaimListed
  <2>1. PICK item \in First(threads["loop"].todo) :
          \/ /\ \E o \in Owners : Claim(item.sub, o)
             /\ threads' = [threads EXCEPT !.loop.pc = "spawn",
                              !.loop.todo = threads["loop"].todo \ {item},
                              !.loop.item = [item EXCEPT !.attempt = lastAttempt + 1],
                              !.loop.progressed = TRUE]
          \/ /\ Work("loop", "claims", threads["loop"].todo \ {item})
             /\ LedgerUnchanged
    BY <1>3 DEF ClaimListed
  <2>2. item \in Item /\ threads["loop"].todo \ {item} \in SUBSET Item
    BY SMTT(40), <1>1, FirstIsItem
  <2>3. CASE Work("loop", "claims", threads["loop"].todo \ {item}) /\ LedgerUnchanged
    <3>1. ThreadsOK(threads')
      BY SMTT(40), <1>1, <2>2, <2>3, WorkIsOK
    <3> QED BY <1>3, <2>3, <3>1 DEF ClaimListed, Sound, OthersOK, LedgerUnchanged
  <2>4. CASE /\ \E o \in Owners : Claim(item.sub, o)
             /\ threads' = [threads EXCEPT !.loop.pc = "spawn",
                              !.loop.todo = threads["loop"].todo \ {item},
                              !.loop.item = [item EXCEPT !.attempt = lastAttempt + 1],
                              !.loop.progressed = TRUE]
    <3> DEFINE j == [item EXCEPT !.attempt = lastAttempt + 1]
               q == [threads["loop"] EXCEPT !.pc = "spawn", !.todo = threads["loop"].todo \ {item},
                       !.item = j, !.progressed = TRUE]
    <3>1. lastAttempt + 1 \in Attempts
      BY <2>4, DurabilityAssumption DEF TypeOK, Claim, WriteWithNewAttempt, Attempts
    <3>2. j \in Item /\ j.attempt \in Attempts
      BY <2>2, <3>1, DurabilityAssumption DEF Item, Attempts
    <3>3. threads["loop"] \in ThreadState
      BY <1>1 DEF ThreadsOK
    <3>4. threads' = [threads EXCEPT !["loop"] = q]
      BY <1>1, <2>4 DEF ThreadsOK
    <3> HIDE DEF j
    <3>5. ThreadOK("loop", q)
      BY <2>2, <3>2, <3>3, ItemAssumption
      DEF ThreadOK, ThreadState, PcsOf, LoopPcs, ListPcs, ItemPcs
    <3>6. ThreadsOK(threads')
      BY <1>1, <3>4, <3>5, SetThread
    <3>7. Next
      BY <2>2, <2>4 DEF Item, Next, AttemptStep
    <3> QED BY <1>3, <3>6, <3>7 DEF ClaimListed, Sound, OthersOK
  <2> QED BY SMTT(40), <2>1, <2>3, <2>4
<1> QED BY <1>2, <1>3

\* The loop sleeps, ends, retries or goes round again.
LEMMA LoopTurns ==
  ASSUME CInv, PassEnds \/ LoopRetries \/ LoopWakes
  PROVE  Sound
<1> USE TypeParts DEF CInv
<1>1. \A pc \in {"asleep", "done"} : ThreadOK("loop", Thread(pc))
  <2>1. "loop" \in Threads
    BY DEF Threads
  <2> QED BY <2>1, FreshThread DEF PcsOf, LoopPcs, ListPcs, ItemPcs
<1>2. \A pc \in {"asleep", "done"} : ThreadsOK([threads EXCEPT !.loop = Thread(pc)])
  BY <1>1, SetThread DEF Threads
<1>3. ThreadsOK(Entered(threads))
  BY EnteredIsOK
<1>4. threads' = Entered(threads) \/ \E pc \in {"asleep", "done"} : threads' = [threads EXCEPT !.loop = Thread(pc)]
  BY DEF PassEnds, LoopRetries, LoopWakes
<1>5. ThreadsOK(threads')
  BY <1>2, <1>3, <1>4
<1>6. /\ wakes' = [requested |-> FALSE, resolved |-> FALSE]
      /\ LedgerUnchanged /\ UNCHANGED <<active, tasks, admissions, shutdown, faults, unannounced>>
  BY DEF PassEnds, LoopRetries, LoopWakes
<1> QED BY <1>5, <1>6 DEF Sound, OthersOK, LedgerUnchanged

LEMMA FailureSteps ==
  ASSUME CInv, CallFails
  PROVE  Sound
<1> USE TypeParts DEF CInv
<1>1. ASSUME LoopFails PROVE ThreadsOK(threads')
  <2>1. "loop" \in Threads
    BY DEF Threads
  <2>2. ThreadOK("loop", Thread("backoff"))
    BY <2>1, FreshThread DEF PcsOf, LoopPcs, ListPcs, ItemPcs
  <2> QED BY <1>1, <2>1, <2>2, SetThread DEF LoopFails
<1>2. ASSUME PassFails PROVE ThreadsOK(threads')
  <2> DEFINE l == IF threads["loop"].pc = "await" THEN "backoff" ELSE threads["loop"].pc
             st == IF threads["start"].pc = "await" THEN "serving" ELSE threads["start"].pc
             t == [threads EXCEPT !["pass"] = Thread("none")]
             u == [t EXCEPT !["loop"] = [threads["loop"] EXCEPT !.pc = l]]
  <2>1. "loop" \in Threads /\ "pass" \in Threads /\ "start" \in Threads
    BY DEF Threads
  <2>2. ThreadOK("pass", Thread("none"))
    BY <2>1, FreshThread DEF PcsOf, PassPcs, ListPcs, ItemPcs
  <2>3. ThreadOK("loop", [threads["loop"] EXCEPT !.pc = l])
    BY <2>1 DEF ThreadsOK, ThreadOK, ThreadState, PcsOf, LoopPcs, ListPcs, ItemPcs
  <2>4. ThreadOK("start", [threads["start"] EXCEPT !.pc = st])
    BY <2>1 DEF ThreadsOK, ThreadOK, ThreadState, PcsOf, StartPcs, ListPcs, ItemPcs
  <2>5. threads' = [u EXCEPT !["start"] = [threads["start"] EXCEPT !.pc = st]]
    BY <1>2, <2>1 DEF PassFails, ThreadsOK
  <2> HIDE DEF l, st
  <2>6. ThreadsOK(u)
    BY <2>1, <2>2, <2>3, SetThread
  <2> QED BY <2>1, <2>4, <2>5, <2>6, SetThread
<1>3. ASSUME ItemFails PROVE ThreadsOK(threads')
  BY <1>3, ReturnIsOK DEF ItemFails, ItemPcs
<1>4. ASSUME StartFails PROVE ThreadsOK(threads')
  <2>1. "start" \in Threads
    BY DEF Threads
  <2>2. ThreadOK("start", Thread("failed"))
    BY <2>1, FreshThread DEF PcsOf, StartPcs, ListPcs, ItemPcs
  <2> QED BY <1>4, <2>1, <2>2, SetThread DEF StartFails
<1>5. ThreadsOK(threads')
  BY <1>1, <1>2, <1>3, <1>4 DEF CallFails
<1> QED BY <1>5 DEF CallFails, Sound, OthersOK, LedgerUnchanged

LEMMA StartSteps ==
  ASSUME CInv, Start
  PROVE  Sound
<1> USE TypeParts DEF CInv
<1>1. "start" \in Threads
  BY DEF Threads
<1>2. ASSUME NEW pc \in {"begin", "serving"}, threads["start"].pc = "down", Goto("start", pc)
      PROVE  ThreadsOK(threads')
  BY <1>1, <1>2, ParkedThread DEF PcsOf, StartPcs, ListPcs, ItemPcs
<1>3. ASSUME threads' = PassStarted(Ensured([threads EXCEPT !.start = Thread("await")]))
      PROVE  ThreadsOK(threads')
  <2>1. ThreadOK("start", Thread("await"))
    BY <1>1, FreshThread DEF PcsOf, StartPcs, ListPcs, ItemPcs
  <2> QED BY <1>1, <1>3, <2>1, SetThread, EnsuredIsOK, StartedPassIsOK
<1>4. ThreadsOK(threads')
  BY <1>2, <1>3 DEF Start
<1> QED BY <1>4 DEF Start, Sound, OthersOK, LedgerUnchanged

LEMMA ShutdownSteps ==
  ASSUME CInv, Shutdown \/ LoopEnded \/ Sweep \/ Close
  PROVE  Sound
<1> USE TypeParts DEF CInv
<1>1. CASE Shutdown
  BY <1>1, WokenIsOK DEF Shutdown, Wake, Sound, OthersOK, LedgerUnchanged
<1>2. CASE LoopEnded
  BY <1>2 DEF LoopEnded, Sound, OthersOK, LedgerUnchanged
<1>3. CASE Sweep
  <2>1. /\ tasks' \in [Attempts -> TaskState]
        /\ \A a \in Attempts : tasks'[a].pc = "none" <=> tasks'[a].sub = None
    BY <1>3, SignalledIsOK DEF Sweep
  <2> QED BY <1>3, <2>1 DEF Sweep, Sound, OthersOK, LedgerUnchanged
<1>4. CASE Close
  BY <1>4 DEF Close, Sound, OthersOK, LedgerUnchanged
<1> QED BY <1>1, <1>2, <1>3, <1>4

LEMMA FreshThreadsAreOK ==
  ThreadsOK([start |-> Thread("down"), loop |-> Thread("off"), pass |-> Thread("none")])
<1>1. ThreadOK("start", Thread("down")) /\ ThreadOK("loop", Thread("off"))
      /\ ThreadOK("pass", Thread("none"))
  BY FreshThread DEF Threads, PcsOf, StartPcs, LoopPcs, PassPcs, ListPcs, ItemPcs
<1> QED BY <1>1 DEF ThreadsOK, ThreadOK, Threads

LEMMA FreshTasks ==
  /\ [a \in Attempts |-> NoTask] \in [Attempts -> TaskState]
  /\ [s \in Submissions |-> NoAttempt] \in [Submissions -> Attempts \cup {NoAttempt}]
BY DEF NoTask, TaskState

LEMMA ExitSteps ==
  ASSUME CInv, Exit
  PROVE  Sound
<1>1. ThreadsOK(threads')
  BY FreshThreadsAreOK DEF Exit, FreshProcess
<1>2. faults' \in Nat
  BY TypeParts DEF CInv, Exit, OthersOK
<1> QED BY <1>1, <1>2, FreshTasks
        DEF Exit, FreshProcess, Sound, OthersOK, LedgerUnchanged, NoTask

-----------------------------------------------------------------------------
(* The invariant and the ledger's guarantees *)

LEMMA InitCInv == CoordinatorInit => CInv
<1> SUFFICES ASSUME CoordinatorInit PROVE CInv
  OBVIOUS
<1>1. Inv
  BY InitInv DEF CoordinatorInit
<1>2. ThreadsOK(threads)
  BY FreshThreadsAreOK DEF CoordinatorInit
<1>3. OthersOK
  BY FreshTasks DEF CoordinatorInit, OthersOK, NoTask
<1> QED BY <1>1, <1>2, <1>3, TypeParts DEF CInv, Inv

LEMMA StepIsSound ==
  ASSUME CInv, [CoordinatorNext]_cvars
  PROVE  Sound
<1>1. CASE UNCHANGED cvars
  BY <1>1, TypeParts DEF cvars, CInv, Sound, OthersOK, vars
<1>2. \A th \in Threads : ListUnready(th) \/ ReconcileUnready(th) => Sound
  BY UnreadySteps
<1>3. CASE ProcessStep
  <2>1. StartStep => Sound
    BY <1>2, StartSteps DEF StartStep, Threads
  <2>2. LoopStep => Sound
    BY <1>2, EnforceSteps, ClaimSteps, SpawnSteps, LoopTurns DEF LoopStep, Threads
  <2>3. PassStep => Sound
    BY <1>2, PassListSteps, PassItemSteps, SpawnSteps DEF PassStep, Threads
  <2> QED BY <1>3, <2>1, <2>2, <2>3 DEF ProcessStep
<1>4. CASE Outside
  BY <1>4, AdmissionSteps, AbortSteps, TimerSteps DEF Outside
<1>5. CASE \E a \in Attempts : TaskStep(a)
  BY <1>5, TaskSteps
<1>6. CASE CallFails
  BY <1>6, FailureSteps
<1>7. CASE Shutdown \/ ShutdownStep
  BY <1>7, ShutdownSteps DEF ShutdownStep
<1>8. CASE Exit
  BY <1>8, ExitSteps
<1> QED BY <1>1, <1>3, <1>4, <1>5, <1>6, <1>7, <1>8 DEF CoordinatorNext

LEMMA NextCInv == CInv /\ [CoordinatorNext]_cvars => CInv' /\ [Next]_vars
<1> SUFFICES ASSUME CInv, [CoordinatorNext]_cvars PROVE CInv' /\ [Next]_vars
  OBVIOUS
<1>1. Sound
  BY StepIsSound
<1>2. Inv'
  BY <1>1, NextInv DEF CInv, Sound
<1>3. CoordinatorTypeOK'
  BY <1>1, <1>2 DEF Sound, Inv, CoordinatorTypeOK, OthersOK, ThreadsOK, ThreadOK, Threads, PcsOf
<1> QED BY <1>1, <1>2, <1>3 DEF CInv, Sound

LEMMA SpecCInv == CoordinatorSpec => []CInv
BY InitCInv, NextCInv, PTL DEF CoordinatorSpec

-----------------------------------------------------------------------------
(* What a store call does to the rows attempts hold *)

Sealed(r) == r.status \in {"terminalizing", "settled"}

\* A sealed row stays sealed, no attempt of the past comes back, and while an
\* attempt has its row the deadline and an abort stay.
RowMoves(r, q) ==
  /\ Sealed(r) => Sealed(q)
  /\ q.status = "running" /\ q.attempt <= lastAttempt =>
       /\ r.status = "running" /\ r.attempt = q.attempt
       /\ r.timeoutAt = q.timeoutAt
       /\ r.abortRequested => q.abortRequested

\* The attempt that runs the row goes on running it, under a live lease.
RowStays(r, q) ==
  /\ r.status = "running" => q.status = "running" /\ q.attempt = r.attempt
  /\ r.lease = "live" => q.lease = "live"

LedgerMoves ==
  /\ lastAttempt <= lastAttempt' /\ now <= now'
  /\ \A s \in Submissions : RowMoves(rows[s], rows'[s])

Stays(s) == RowStays(rows[s], rows'[s])
AllStay == \A s \in Submissions : Stays(s)
OthersStay(s) == \A t \in Submissions \ {s} : Stays(t)

LEMMA SameRowMoves == \A r : RowMoves(r, r) /\ RowStays(r, r)
BY DEF RowMoves, RowStays

LEMMA NothingMoves ==
  ASSUME Inv, LedgerUnchanged
  PROVE  LedgerMoves /\ AllStay
BY SameRowMoves DEF LedgerUnchanged, vars, LedgerMoves, AllStay, Stays, Inv, TypeOK

LEMMA WriteMoves ==
  ASSUME Inv, NEW s \in Submissions, NEW q, Write(s, q), RowMoves(rows[s], q)
  PROVE  /\ LedgerMoves /\ OthersStay(s) /\ rows'[s] = q
         /\ RowStays(rows[s], q) => AllStay
BY SameRowMoves DEF Write, LedgerMoves, OthersStay, AllStay, Stays, Inv, TypeOK

LEMMA NewAttemptMoves ==
  ASSUME Inv, NEW s \in Submissions, NEW q, WriteWithNewAttempt(s, q), RowMoves(rows[s], q)
  PROVE  /\ LedgerMoves /\ OthersStay(s) /\ rows'[s] = q /\ lastAttempt' = lastAttempt + 1
         /\ RowStays(rows[s], q) => AllStay
BY SameRowMoves DEF WriteWithNewAttempt, LedgerMoves, OthersStay, AllStay, Stays, Inv, TypeOK

LEMMA AdmissionMoves ==
  ASSUME Inv, NEW s \in Submissions, Admit(s) \/ MarkCanonicalReady(s)
  PROVE  LedgerMoves /\ AllStay
<1>1. rows[s] \in Row
  BY DEF Inv, TypeOK
<1>2. CASE Admit(s)
  <2> DEFINE q == [AbsentRow EXCEPT !.status = "queued", !.sequence = lastSequence + 1]
  <2>1. rows[s] = AbsentRow
    BY <1>2 DEF Admit, Inv, ColumnsMatchStatus, ColumnsAgree
  <2>2. RowMoves(rows[s], q) /\ RowStays(rows[s], q)
    BY <2>1 DEF RowMoves, RowStays, AbsentRow, Sealed
  <2>3. \A t \in Submissions : rows'[t] = IF t = s THEN q ELSE rows[t]
    BY <1>2 DEF Admit, Inv, TypeOK
  <2> QED BY <1>2, <2>2, <2>3, SameRowMoves
          DEF Admit, LedgerMoves, AllStay, Stays, Inv, TypeOK
<1>3. CASE MarkCanonicalReady(s)
  <2> DEFINE q == [rows[s] EXCEPT !.ready = TRUE]
  <2>1. RowMoves(rows[s], q) /\ RowStays(rows[s], q)
    BY <1>1, <1>3 DEF MarkCanonicalReady, RowMoves, RowStays, Row, Sealed
  <2> QED BY <1>3, <2>1, WriteMoves DEF MarkCanonicalReady
<1> QED BY <1>2, <1>3

LEMMA SettleQueuedMoves ==
  ASSUME Inv, NEW s \in Submissions, NEW error, SettleQueued(s, error)
  PROVE  LedgerMoves /\ AllStay
<1>1. rows[s] \in Row
  BY DEF Inv, TypeOK
<1>2. RowMoves(rows[s], Settled(rows[s], error)) /\ RowStays(rows[s], Settled(rows[s], error))
  BY <1>1 DEF SettleQueued, Settled, RowMoves, RowStays, Row, Sealed
<1> QED BY <1>2, WriteMoves DEF SettleQueued

LEMMA ReserveMoves ==
  ASSUME Inv, NEW s \in Submissions, NEW a, NEW outcome, ReserveSettlement(s, a, outcome)
  PROVE  LedgerMoves /\ OthersStay(s) /\ Sealed(rows'[s])
<1>1. rows[s] \in Row
  BY DEF Inv, TypeOK
<1> DEFINE q == Reserved(rows[s], a, outcome)
<1>2. RowMoves(rows[s], q) /\ Sealed(q)
  BY <1>1 DEF Reserved, RowMoves, Row, Sealed
<1> QED BY <1>2, WriteMoves DEF ReserveSettlement

LEMMA FinalizeMoves ==
  ASSUME Inv, NEW s \in Submissions, NEW a, FinalizeSettlement(s, a)
  PROVE  LedgerMoves /\ AllStay /\ Sealed(rows'[s])
<1> DEFINE e == ErrorOf(rows[s].settlement)
<1>1. \A t \in Submissions : rows'[t] = FanOut(t, s, e)
  BY DEF FinalizeSettlement, SettleWithJoins
<1>2. ASSUME NEW t \in Submissions
      PROVE  /\ RowMoves(rows[t], FanOut(t, s, e)) /\ RowStays(rows[t], FanOut(t, s, e))
             /\ t = s => Sealed(FanOut(t, s, e))
  <2>1. rows[t] \in Row
    BY DEF Inv, TypeOK
  <2>2. CASE t = s \/ (rows[t].joinedInto = s /\ rows[t].status = "joined")
    BY <2>1, <2>2 DEF FinalizeSettlement, FanOut, Settled, RowMoves, RowStays, Row, Sealed
  <2>3. CASE t # s /\ rows[t].joinedInto = s /\ rows[t].status = "joining"
    BY <2>1, <2>3 DEF FanOut, Released, RowMoves, RowStays, Row, Sealed
  <2> QED BY <2>2, <2>3, SameRowMoves DEF FanOut
<1> QED BY <1>1, <1>2 DEF FinalizeSettlement, SettleWithJoins, LedgerMoves, AllStay, Stays, Inv, TypeOK

LEMMA ClaimMoves ==
  ASSUME Inv, NEW s \in Submissions, NEW o \in Owners, Claim(s, o)
  PROVE  /\ LedgerMoves /\ AllStay /\ lastAttempt' = lastAttempt + 1
         /\ rows'[s].status = "running" /\ rows'[s].attempt = lastAttempt + 1
         /\ rows'[s].lease = "live"
<1>1. rows[s] \in Row /\ lastAttempt \in Nat
  BY DEF Inv, TypeOK
<1> DEFINE q == Claimed(rows[s], lastAttempt + 1, o)
<1>2. /\ RowMoves(rows[s], q) /\ RowStays(rows[s], q)
      /\ q.status = "running" /\ q.attempt = lastAttempt + 1 /\ q.lease = "live"
  BY <1>1 DEF Claim, Runnable, Claimed, RowMoves, RowStays, Row, Sealed
<1> QED BY <1>2, NewAttemptMoves DEF Claim

LEMMA ReplaceMoves ==
  ASSUME Inv, NEW s \in Submissions, NEW a, NEW o \in Owners, ReplaceAttempt(s, a, o)
  PROVE  /\ LedgerMoves /\ OthersStay(s) /\ lastAttempt' = lastAttempt + 1
         /\ rows'[s].status = "running" /\ rows'[s].attempt = lastAttempt + 1
         /\ rows'[s].lease = "live"
<1>1. rows[s] \in Row /\ lastAttempt \in Nat
  BY DEF Inv, TypeOK
<1> DEFINE q == Replaced(rows[s], lastAttempt + 1, o)
<1>2. /\ RowMoves(rows[s], q)
      /\ q.status = "running" /\ q.attempt = lastAttempt + 1 /\ q.lease = "live"
  BY <1>1 DEF ReplaceAttempt, Runs, Replaced, RowMoves, Row, Sealed
<1> QED BY <1>2, NewAttemptMoves DEF ReplaceAttempt

LEMMA RequeueMoves ==
  ASSUME Inv, NEW s \in Submissions, NEW a, Requeue(s, a)
  PROVE  LedgerMoves /\ OthersStay(s)
<1>1. rows[s] \in Row
  BY DEF Inv, TypeOK
<1>2. RowMoves(rows[s], Requeued(rows[s]))
  BY <1>1 DEF Requeue, Runs, Requeued, RowMoves, Row, Sealed
<1> QED BY <1>2, WriteMoves DEF Requeue

LEMMA LapseMoves ==
  ASSUME Inv, NEW s \in Submissions, LeaseLapses(s)
  PROVE  /\ LedgerMoves /\ OthersStay(s)
         /\ rows'[s].status = rows[s].status /\ rows'[s].attempt = rows[s].attempt
<1>1. rows[s] \in Row
  BY DEF Inv, TypeOK
<1> DEFINE q == [rows[s] EXCEPT !.lease = "lapsed"]
<1>2. RowMoves(rows[s], q) /\ q.status = rows[s].status /\ q.attempt = rows[s].attempt
  BY <1>1 DEF RowMoves, Row, Sealed
<1> QED BY <1>2, WriteMoves DEF LeaseLapses

LEMMA AbortMoves ==
  ASSUME Inv, NEW k \in Sessions, RequestSessionAbort(k)
  PROVE  LedgerMoves /\ AllStay
<1>1. ASSUME NEW t \in Submissions
      PROVE  RowMoves(rows[t], rows'[t]) /\ RowStays(rows[t], rows'[t])
  <2>1. rows[t] \in Row
    BY DEF Inv, TypeOK
  <2>2. rows'[t] = rows[t] \/ (rows[t].status \in Abortable /\ rows'[t] = AbortedRow(rows[t]))
    BY DEF RequestSessionAbort
  <2>3. CASE rows[t].status \in Abortable /\ rows'[t] = AbortedRow(rows[t])
    BY <2>1, <2>3 DEF AbortedRow, RowMoves, RowStays, Row, Sealed, Abortable
  <2> QED BY <2>2, <2>3, SameRowMoves
<1> QED BY <1>1 DEF RequestSessionAbort, LedgerMoves, AllStay, Stays, Inv, TypeOK

LEMMA HeartbeatMoves ==
  ASSUME Inv, NEW o \in Owners, Heartbeat(o)
  PROVE  LedgerMoves /\ AllStay
<1>1. ASSUME NEW t \in Submissions
      PROVE  RowMoves(rows[t], rows'[t]) /\ RowStays(rows[t], rows'[t])
  <2>1. rows[t] \in Row
    BY DEF Inv, TypeOK
  <2>2. rows'[t] = rows[t] \/ rows'[t] = [rows[t] EXCEPT !.lease = "live"]
    BY DEF Heartbeat
  <2>3. CASE rows'[t] = [rows[t] EXCEPT !.lease = "live"]
    BY <2>1, <2>3 DEF RowMoves, RowStays, Row, Sealed
  <2> QED BY <2>2, <2>3, SameRowMoves
<1> QED BY <1>1 DEF Heartbeat, LedgerMoves, AllStay, Stays, Inv, TypeOK

LEMMA TickMoves ==
  ASSUME Inv, Tick
  PROVE  LedgerMoves /\ AllStay
BY SameRowMoves DEF Tick, LedgerMoves, AllStay, Stays, Inv, TypeOK

-----------------------------------------------------------------------------
(* How threads move *)

\* Thread u is not the one that steps: at most its await is over.
Follows(u) ==
  /\ threads'[u].todo = threads[u].todo
  /\ threads'[u].item = threads[u].item
  /\ threads'[u].progressed = threads[u].progressed
  /\ \/ threads'[u].pc = threads[u].pc
     \/ /\ threads[u].pc = "await"
        /\ threads'[u].pc = [start |-> "serving", loop |-> "list", pass |-> "none"][u]
        /\ u # "pass"

LEMMA ResumedFollows ==
  ASSUME NEW t, ThreadsOK(t), NEW u \in Threads
  PROVE  /\ Resumed(t)[u].todo = t[u].todo
         /\ Resumed(t)[u].item = t[u].item
         /\ Resumed(t)[u].progressed = t[u].progressed
         /\ \/ Resumed(t)[u].pc = t[u].pc
            \/ /\ t[u].pc = "await" /\ u # "pass"
               /\ Resumed(t)[u].pc = [start |-> "serving", loop |-> "list", pass |-> "none"][u]
         /\ u = "pass" => Resumed(t)[u] = t[u]
<1>1. CASE t.pass.pc # "none"
  BY <1>1 DEF Resumed
<1>2. CASE t.pass.pc = "none"
  <2> DEFINE l == IF t["loop"].pc = "await" THEN "list" ELSE t["loop"].pc
             s == IF t["start"].pc = "await" THEN "serving" ELSE t["start"].pc
  <2>1. /\ t["loop"] \in ThreadState /\ t["start"] \in ThreadState
        /\ t \in [Threads -> ThreadState]
    BY DEF ThreadsOK, Threads
  <2>2. Resumed(t) = [[t EXCEPT !["loop"] = [t["loop"] EXCEPT !.pc = l]]
                        EXCEPT !["start"] = [t["start"] EXCEPT !.pc = s]]
    BY <1>2, <2>1 DEF Resumed, Threads
  <2>3. /\ Resumed(t)["loop"] = [t["loop"] EXCEPT !.pc = l]
        /\ Resumed(t)["start"] = [t["start"] EXCEPT !.pc = s]
        /\ Resumed(t)["pass"] = t["pass"]
    <3> HIDE DEF l, s
    <3> QED BY <2>1, <2>2 DEF Threads
  <2>4. CASE u = "loop"
    BY <2>1, <2>3, <2>4 DEF ThreadState
  <2>5. CASE u = "start"
    BY <2>1, <2>3, <2>5 DEF ThreadState
  <2>6. CASE u = "pass"
    BY <2>3, <2>6
  <2> QED BY <2>4, <2>5, <2>6 DEF Threads
<1> QED BY <1>1, <1>2

LEMMA WorkMoves ==
  ASSUME ThreadsOK(threads), NEW th, NEW pc, <<th, pc>> \in Lists, NEW T \in SUBSET Item,
         Work(th, pc, T)
  PROVE  /\ threads'[th].pc = (IF T = {} THEN After(th)[pc] ELSE pc)
         /\ threads'[th].todo = T
         /\ threads'[th].item = None
         /\ threads'[th].progressed = threads[th].progressed
         /\ \A u \in Threads \ {th} : Follows(u)
<1> DEFINE r == At(th, pc, T)
           t == [threads EXCEPT ![th] = r]
<1>1. ThreadOK(th, r) /\ th \in Threads
  BY AtIsOK
<1>2. threads[th] \in ThreadState
  BY <1>1 DEF ThreadsOK
<1>3. /\ r.pc = (IF T = {} THEN After(th)[pc] ELSE pc)
      /\ r.todo = T /\ r.item = None /\ r.progressed = threads[th].progressed
  BY <1>2 DEF At, ThreadState
<1>4. r.pc # "await"
  BY <1>3 DEF Lists, After
<1> HIDE DEF r
<1>5. ThreadsOK(t) /\ t[th] = r /\ \A u \in Threads \ {th} : t[u] = threads[u]
  BY <1>1, SetThread DEF ThreadsOK
<1>6. threads' = Resumed(t)
  BY DEF Work, r
<1> HIDE DEF t
<1>7. \A u \in Threads \ {th} : Follows(u)
  BY <1>5, <1>6, ResumedFollows DEF Follows
<1> QED BY <1>1, <1>3, <1>4, <1>5, <1>6, <1>7, ResumedFollows

LEMMA ReturnMoves ==
  ASSUME ThreadsOK(threads), NEW th \in {"loop", "pass"}, threads[th].pc \in ItemPcs, Return(th)
  PROVE  /\ threads'[th].pc \in (IF th = "pass" THEN {"expired", "none"}
                                 ELSE IF threads["loop"].pc = "spawn" THEN {"claims", "end"}
                                 ELSE {"enforce", "enforced"})
         /\ threads'[th].todo = threads[th].todo
         /\ threads'[th].item = None
         /\ threads'[th].progressed = threads[th].progressed
         /\ \A u \in Threads \ {th} : Follows(u)
<1>1. threads[th].todo \in SUBSET Item
  BY HeldItem DEF Threads
<1>2. CASE th = "pass"
  <2>1. Work("pass", "expired", threads["pass"].todo) /\ <<"pass", "expired">> \in Lists
    BY <1>2 DEF Return, Lists
  <2>2. After("pass")["expired"] = "none"
    BY DEF After
  <2> QED BY <1>1, <1>2, <2>1, <2>2, WorkMoves
<1>3. CASE th = "loop"
  <2>1. PICK pc \in {"claims", "enforce"} :
          /\ Work("loop", pc, threads["loop"].todo) /\ <<"loop", pc>> \in Lists
          /\ pc = "claims" <=> threads["loop"].pc = "spawn"
    BY <1>3 DEF Return, Lists
  <2>2. After("loop")["claims"] = "end" /\ After("loop")["enforce"] = "enforced"
    BY DEF After
  <2> QED BY <1>1, <1>3, <2>1, <2>2, WorkMoves
<1> QED BY <1>2, <1>3

\* The loop is started, or stays as it is.
LEMMA EnsuredMoves ==
  ASSUME NEW t, ThreadsOK(t)
  PROVE  /\ \A u \in Threads \ {"loop"} : Ensured(t)[u] = t[u]
         /\ t["loop"].pc # "off" => Ensured(t) = t
         /\ t["loop"].pc = "off" => /\ Ensured(t)["loop"].pc = IF Stopping THEN "done" ELSE "begin"
                                    /\ Ensured(t)["loop"].item = None
<1>1. t["loop"] \in ThreadState /\ (t["loop"].pc = "off" => t["loop"].item = None)
  BY DEF ThreadsOK, ThreadOK, Threads, ItemPcs
<1> QED BY <1>1 DEF Ensured, Entered, Thread, ThreadsOK, Threads, ThreadState

\* A pass is started, or stays as it is; whoever awaits none goes on.
LEMMA PassStartedMoves ==
  ASSUME NEW t, ThreadsOK(t)
  PROVE  /\ \/ PassStarted(t)["pass"] = t["pass"]
            \/ t["pass"].pc = "none" /\ ~Stopping /\ PassStarted(t)["pass"] = Thread("begin")
         /\ \A u \in Threads \ {"pass"} :
              /\ PassStarted(t)[u].todo = t[u].todo
              /\ PassStarted(t)[u].item = t[u].item
              /\ PassStarted(t)[u].progressed = t[u].progressed
              /\ \/ PassStarted(t)[u].pc = t[u].pc
                 \/ /\ t[u].pc = "await"
                    /\ PassStarted(t)[u].pc = [start |-> "serving", loop |-> "list", pass |-> "none"][u]
<1> DEFINE v == IF t.pass.pc = "none" /\ ~Stopping THEN [t EXCEPT !.pass = Thread("begin")] ELSE t
<1>1. ThreadsOK(v)
  BY StartedPassIsOK
<1>2. /\ \A u \in Threads \ {"pass"} : v[u] = t[u]
      /\ v["pass"] = t["pass"] \/ (t["pass"].pc = "none" /\ ~Stopping /\ v["pass"] = Thread("begin"))
  BY DEF ThreadsOK, Threads
<1>3. PassStarted(t) = Resumed(v)
  BY DEF PassStarted
<1> HIDE DEF v
<1> QED BY <1>1, <1>2, <1>3, ResumedFollows DEF Threads

-----------------------------------------------------------------------------
(* Why a task that has its row is tracked *)

HasTask(a) == tasks[a].pc # "none"
PassItems == (threads["pass"].todo \cup {threads["pass"].item}) \ {None}

\* A task is the tracked one of its submission, unless the row is past it ...
TasksHaveRows ==
  \A a \in Attempts :
    HasTask(a) => /\ a <= lastAttempt
                  /\ active[tasks[a].sub] = a \/ Sealed(rows[tasks[a].sub])

\* ... and what is tracked is a task of the submission.
TrackedTasksExist ==
  \A s \in Submissions : active[s] # NoAttempt => tasks[active[s]].sub = s

ItemsAreOld == \A i \in PassItems : i.attempt <= lastAttempt

\* Between a claim and its task nobody else may touch the row.
Fresh(i) ==
  /\ Runs(i.sub, i.attempt)
  /\ rows[i.sub].lease = "live"
  /\ active[i.sub] = NoAttempt
  /\ ~HasTask(i.attempt)
ClaimIsFresh(th) == threads[th].pc = "spawn" => Fresh(threads[th].item)

\* The pass holds no item of the attempt the loop is about to start.
ClaimsAreApart ==
  threads["loop"].pc = "spawn" =>
    \A i \in PassItems :
      i.sub = threads["loop"].item.sub => i.attempt # threads["loop"].item.attempt

\* A row the pass decides about has no task here while its attempt is the item's.
Idle(i) == Runs(i.sub, i.attempt) => active[i.sub] = NoAttempt
TakenUpIsIdle == threads["pass"].pc = "decide" => Idle(threads["pass"].item)
ReplacesUnaborted == threads["pass"].pc = "spawn" => ~threads["pass"].item.aborted

\* What the loop settles by force is past its deadline, or aborted in the eyes of
\* the pass as well, which will therefore not start it again.
MustEnd(i) ==
  \/ Sealed(rows[i.sub])
  \/ /\ Runs(i.sub, i.attempt)
     /\ \/ Overdue(i.sub)
        \/ rows[i.sub].abortRequested /\ \A j \in PassItems : j.sub = i.sub => j.aborted
ForcedMustEnd == threads["loop"].pc = "force" => MustEnd(threads["loop"].item)
ForcedIsNotReplaced ==
  threads["loop"].pc = "force" /\ threads["pass"].pc = "spawn" =>
    threads["loop"].item.sub # threads["pass"].item.sub
ForcedIsSealed == threads["loop"].pc = "finalize" => Sealed(rows[threads["loop"].item.sub])

TaskInv ==
  /\ TasksHaveRows /\ TrackedTasksExist
  /\ ItemsAreOld /\ TakenUpIsIdle /\ ReplacesUnaborted
  /\ ClaimIsFresh("loop") /\ ClaimIsFresh("pass") /\ ClaimsAreApart
  /\ ForcedMustEnd /\ ForcedIsNotReplaced /\ ForcedIsSealed

LEMMA TasksAreTrackedByInv == CInv /\ TaskInv => TasksAreTracked
<1> SUFFICES ASSUME CInv, TaskInv, NEW a \in Attempts, Running(a), Runs(tasks[a].sub, a)
             PROVE  active[tasks[a].sub] = a
  BY DEF TasksAreTracked
<1> QED BY DEF TaskInv, TasksHaveRows, HasTask, Running, Runs, Sealed

\* Neither thread gets to a place where it owes something.
LoopQuiet ==
  threads'["loop"].pc \in {"spawn", "force", "finalize"} =>
    threads'["loop"].pc = threads["loop"].pc /\ threads'["loop"].item = threads["loop"].item

\* What the pass lists anew is not running under a live lease.
Listed ==
  Items({s \in Submissions : ~(rows[s].status = "running" /\ rows[s].lease = "live")})
PassQuiet ==
  /\ threads'["pass"].pc \in {"decide", "spawn"} =>
       threads'["pass"].pc = threads["pass"].pc /\ threads'["pass"].item = threads["pass"].item
  /\ PassItems' \subseteq PassItems \cup Listed

\* No task starts or ends, and what is no longer tracked is past its row.
TasksKept ==
  /\ \A s \in Submissions :
       active'[s] = active[s] \/ (active'[s] = NoAttempt /\ Sealed(rows'[s]))
  /\ \A a \in Attempts :
       /\ tasks'[a].pc = "none" <=> tasks[a].pc = "none"
       /\ tasks'[a].sub = tasks[a].sub

\* A step that ends an attempt's hold of row s, or lets its lease lapse.
Spared(s) ==
  /\ \A th \in {"loop", "pass"} :
       threads[th].pc = "spawn" /\ threads'[th].pc = "spawn" => threads[th].item.sub # s
  /\ threads["loop"].pc = "force" /\ threads'["loop"].pc = "force"
       /\ threads["loop"].item.sub = s =>
       \/ Sealed(rows'[s])
       \/ rows'[s].status = rows[s].status /\ rows'[s].attempt = rows[s].attempt

\* What the pass holds of an aborted row is aborted, as far as it was before.
AbortsSeen ==
  \A j \in PassItems' :
    \/ j.aborted \/ ~rows[j.sub].abortRequested
    \/ \E k \in PassItems : k.sub = j.sub /\ ~k.aborted

LEMMA ListedIsSeen == PassItems' \subseteq PassItems \cup Listed => AbortsSeen
BY DEF AbortsSeen, Listed, Items, ItemOf

LEMMA HeldByThread ==
  ASSUME CInv, NEW th \in {"loop", "pass"}, threads[th].pc \in ItemPcs
  PROVE  /\ threads[th].item.sub \in Submissions
         /\ threads[th].item.attempt \in Nat
         /\ threads[th].item # None
         /\ threads[th].pc = "spawn" => threads[th].item.attempt \in Attempts
         /\ th = "pass" => threads[th].item \in PassItems
<1>1. ThreadsOK(threads)
  BY TypeParts DEF CInv
<1>2. threads[th].item \in Item /\ ThreadOK(th, threads[th])
  BY <1>1, HeldItem DEF Threads, ThreadsOK
<1> QED BY <1>2, ItemAssumption DEF Item, ThreadOK, PassItems

LEMMA RunsAreOld ==
  ASSUME CInv, NEW s \in Submissions, NEW a, Runs(s, a)
  PROVE  a <= lastAttempt
BY DEF CInv, Inv, AttemptsAreFenced, Runs

LEMMA QuietTasks ==
  ASSUME CInv, CInv', TasksHaveRows, TrackedTasksExist, LedgerMoves, TasksKept
  PROVE  TasksHaveRows' /\ TrackedTasksExist'
<1>1. /\ lastAttempt \in Nat /\ lastAttempt' \in Nat /\ Attempts \subseteq Nat
      /\ \A s \in Submissions : active[s] \in Attempts \cup {NoAttempt}
      /\ \A a \in Attempts : HasTask(a) => tasks[a].sub \in Submissions
  BY TypeParts DEF CInv, Inv, TypeOK, OthersOK, TaskState, HasTask, Attempts
<1>2. TasksHaveRows'
  BY <1>1 DEF TasksHaveRows, HasTask, TasksKept, LedgerMoves, RowMoves, CInv, Inv, TypeOK
<1>3. TrackedTasksExist'
  BY <1>1 DEF TrackedTasksExist, TasksKept
<1> QED BY <1>2, <1>3

LEMMA QuietClaim ==
  ASSUME CInv, LedgerMoves, TasksKept, NEW th \in {"loop", "pass"}, ClaimIsFresh(th),
         threads'[th].pc = "spawn" =>
           threads'[th].pc = threads[th].pc /\ threads'[th].item = threads[th].item,
         \A s \in Submissions : Stays(s) \/ Spared(s)
  PROVE  ClaimIsFresh(th)'
<1> SUFFICES ASSUME threads'[th].pc = "spawn", NEW i, i = threads'[th].item
             PROVE  Fresh(i)'
  BY DEF ClaimIsFresh
<1>1. threads[th].pc = "spawn" /\ threads[th].item = i /\ Fresh(i)
  BY DEF ClaimIsFresh
<1>2. i.sub \in Submissions /\ i.attempt \in Attempts
  BY <1>1, HeldByThread DEF ItemPcs
<1>3. Stays(i.sub)
  BY <1>1, <1>2 DEF Spared
<1> QED BY <1>1, <1>2, <1>3 DEF Fresh, Runs, Stays, RowStays, TasksKept, HasTask

LEMMA QuietItems ==
  ASSUME CInv, CInv', ItemsAreOld, LedgerMoves, PassItems' \subseteq PassItems \cup Listed
  PROVE  ItemsAreOld'
<1>1. \A i \in Listed : i.attempt <= lastAttempt /\ i.attempt \in Nat
  BY DEF Listed, Items, ItemOf, CInv, Inv, AttemptsAreFenced, TypeOK, Row
<1>2. \A i \in PassItems : i.attempt \in Nat
  BY TypeParts DEF CInv, ThreadsOK, Threads, ThreadState, PassItems, Item
<1>3. lastAttempt \in Nat /\ lastAttempt' \in Nat /\ lastAttempt <= lastAttempt'
  BY DEF CInv, Inv, TypeOK, LedgerMoves
<1> QED BY <1>1, <1>2, <1>3 DEF ItemsAreOld

LEMMA QuietDecision ==
  ASSUME CInv, TakenUpIsIdle, ItemsAreOld, LedgerMoves, TasksKept,
         threads'["pass"].pc = "decide" =>
           threads'["pass"].pc = threads["pass"].pc /\ threads'["pass"].item = threads["pass"].item
  PROVE  TakenUpIsIdle'
<1> SUFFICES ASSUME threads'["pass"].pc = "decide", NEW i, i = threads'["pass"].item
             PROVE  Idle(i)'
  BY DEF TakenUpIsIdle
<1>1. threads["pass"].pc = "decide" /\ threads["pass"].item = i /\ Idle(i)
  BY DEF TakenUpIsIdle
<1>2. i.sub \in Submissions /\ i.attempt <= lastAttempt
  BY <1>1, HeldByThread DEF ItemPcs, ItemsAreOld
<1> QED BY <1>1, <1>2 DEF Idle, Runs, LedgerMoves, RowMoves, TasksKept

LEMMA QuietForce ==
  ASSUME CInv, CInv', ForcedMustEnd, ForcedIsSealed, LedgerMoves, LoopQuiet,
         AbortsSeen,
         \A s \in Submissions : Stays(s) \/ Spared(s)
  PROVE  ForcedMustEnd' /\ ForcedIsSealed'
<1>1. ASSUME threads'["loop"].pc = "force", NEW i, i = threads'["loop"].item
      PROVE  MustEnd(i)'
  <2>1. threads["loop"].pc = "force" /\ threads["loop"].item = i /\ MustEnd(i)
    BY <1>1 DEF LoopQuiet, ForcedMustEnd
  <2>2. i.sub \in Submissions
    BY <2>1, HeldByThread DEF ItemPcs
  <2>3. RowMoves(rows[i.sub], rows'[i.sub])
    BY <2>2 DEF LedgerMoves
  <2>4. CASE Sealed(rows[i.sub]) \/ Sealed(rows'[i.sub])
    BY <2>1, <2>3, <2>4 DEF RowMoves, MustEnd
  <2>5. CASE Runs(i.sub, i.attempt) /\ ~Sealed(rows[i.sub]) /\ ~Sealed(rows'[i.sub])
    <3>1. i.attempt <= lastAttempt
      BY <2>2, <2>5, RunsAreOld
    <3>2. rows'[i.sub].status = "running" /\ rows'[i.sub].attempt = i.attempt
      <4>1. Stays(i.sub) \/ Spared(i.sub)
        BY <2>2
      <4>2. CASE Stays(i.sub)
        BY <2>5, <4>2 DEF Runs, Stays, RowStays
      <4>3. CASE Spared(i.sub)
        BY <1>1, <2>1, <2>5, <4>3 DEF Runs, Spared
      <4> QED BY <4>1, <4>2, <4>3
    <3>3. /\ rows'[i.sub].timeoutAt = rows[i.sub].timeoutAt
          /\ rows[i.sub].abortRequested => rows'[i.sub].abortRequested
      BY <2>3, <3>1, <3>2 DEF RowMoves
    <3>4. Overdue(i.sub) => Overdue(i.sub)'
      <4>1. now \in Nat /\ now' \in Nat /\ now <= now' /\ rows[i.sub].timeoutAt \in Nat
        BY <2>2 DEF CInv, Inv, TypeOK, Row, LedgerMoves
      <4> QED BY <3>3, <4>1 DEF Overdue
    <3>5. rows[i.sub].abortRequested /\ (\A j \in PassItems : j.sub = i.sub => j.aborted) =>
            \A j \in PassItems' : j.sub = i.sub => j.aborted
      BY DEF AbortsSeen
    <3> QED BY <2>1, <2>5, <3>2, <3>3, <3>4, <3>5 DEF MustEnd, Runs
  <2> QED BY <2>1, <2>4, <2>5 DEF MustEnd
<1>2. ASSUME threads'["loop"].pc = "finalize"
      PROVE  Sealed(rows'[threads'["loop"].item.sub])
  <2> DEFINE i == threads["loop"].item
  <2>1. threads["loop"].pc = "finalize" /\ threads'["loop"].item = i /\ Sealed(rows[i.sub])
    BY <1>2 DEF LoopQuiet, ForcedIsSealed
  <2>2. i.sub \in Submissions
    BY <2>1, HeldByThread DEF ItemPcs
  <2> QED BY <2>1, <2>2 DEF LedgerMoves, RowMoves
<1> QED BY <1>1, <1>2 DEF ForcedMustEnd, ForcedIsSealed

LEMMA QuietApart ==
  ASSUME CInv, ClaimsAreApart, ClaimIsFresh("loop"), LoopQuiet,
         PassItems' \subseteq PassItems \cup Listed
  PROVE  ClaimsAreApart'
<1> SUFFICES ASSUME threads'["loop"].pc = "spawn", NEW i \in PassItems',
                    i.sub = threads'["loop"].item.sub
             PROVE  i.attempt # threads'["loop"].item.attempt
  BY DEF ClaimsAreApart
<1>1. threads["loop"].pc = "spawn" /\ threads'["loop"].item = threads["loop"].item
  BY DEF LoopQuiet
<1>2. CASE i \in PassItems
  BY <1>1, <1>2 DEF ClaimsAreApart
<1>3. CASE i \in Listed
  BY <1>1, <1>3 DEF ClaimIsFresh, Fresh, Runs, Listed, Items, ItemOf
<1> QED BY <1>2, <1>3

\* A step that starts nothing and takes nothing up.
LEMMA QuietStep ==
  ASSUME CInv, CInv', TaskInv, LedgerMoves, LoopQuiet, PassQuiet, TasksKept,
         \A s \in Submissions : Stays(s) \/ Spared(s)
  PROVE  TaskInv'
<1>1. TasksHaveRows' /\ TrackedTasksExist'
  BY QuietTasks DEF TaskInv
<1>2. ItemsAreOld' /\ TakenUpIsIdle'
  BY QuietItems, QuietDecision DEF TaskInv, PassQuiet
<1>3. ClaimIsFresh("loop")' /\ ClaimIsFresh("pass")'
  BY QuietClaim DEF TaskInv, LoopQuiet, PassQuiet
<1>4. ClaimsAreApart' /\ ForcedMustEnd' /\ ForcedIsSealed'
  BY QuietApart, QuietForce, ListedIsSeen DEF TaskInv, PassQuiet
<1>5. ReplacesUnaborted' /\ ForcedIsNotReplaced'
  BY DEF TaskInv, ReplacesUnaborted, ForcedIsNotReplaced, PassQuiet, LoopQuiet
<1> QED BY <1>1, <1>2, <1>3, <1>4, <1>5 DEF TaskInv

\* Moves of the threads that start nothing and take nothing up.
LEMMA SameThreadsQuiet == threads' = threads => LoopQuiet /\ PassQuiet
BY DEF LoopQuiet, PassQuiet, PassItems

LEMMA FollowsQuiet ==
  /\ Follows("loop") => LoopQuiet
  /\ Follows("pass") => PassQuiet
BY DEF Follows, LoopQuiet, PassQuiet, PassItems

LEMMA WorkQuiet ==
  ASSUME ThreadsOK(threads), NEW th, NEW pc, <<th, pc>> \in Lists, NEW T \in SUBSET Item,
         th = "pass" => T \subseteq PassItems \cup Listed,
         Work(th, pc, T)
  PROVE  LoopQuiet /\ PassQuiet
<1>0. pc \notin ItemPcs /\ After(th)[pc] \notin ItemPcs
  BY DEF Lists, After, ItemPcs
<1>1. threads'[th].pc \notin ItemPcs /\ threads'[th].todo = T /\ threads'[th].item = None
  BY <1>0, WorkMoves
<1>2. \A u \in Threads \ {th} : Follows(u)
  BY WorkMoves
<1>3. th = "loop" => LoopQuiet
  BY <1>1 DEF LoopQuiet, ItemPcs
<1>4. th = "pass" => PassQuiet
  BY <1>1 DEF PassQuiet, ItemPcs, PassItems
<1> QED BY <1>2, <1>3, <1>4, FollowsQuiet DEF Threads

LEMMA ReturnQuiet ==
  ASSUME ThreadsOK(threads), NEW th \in {"loop", "pass"}, threads[th].pc \in ItemPcs, Return(th)
  PROVE  LoopQuiet /\ PassQuiet
<1>1. threads[th].todo \in SUBSET Item
  BY HeldItem DEF Threads
<1>2. None \notin threads[th].todo
  BY <1>1, ItemAssumption
<1>3. PICK pc \in {"expired", "claims", "enforce"} :
        Work(th, pc, threads[th].todo) /\ <<th, pc>> \in Lists
  BY DEF Return, Lists
<1>4. th = "pass" => threads[th].todo \subseteq PassItems
  BY <1>2 DEF PassItems
<1> QED BY <1>1, <1>3, <1>4, WorkQuiet

LEMMA TodoIsHeld ==
  ASSUME ThreadsOK(threads), NEW th \in Threads
  PROVE  /\ threads[th].todo \in SUBSET Item
         /\ th = "pass" => threads[th].todo \subseteq PassItems
BY ItemAssumption DEF ThreadsOK, ThreadState, PassItems

LEMMA EnsuredQuiet ==
  ASSUME ThreadsOK(threads), threads' = Ensured(threads)
  PROVE  LoopQuiet /\ PassQuiet
<1>1. threads'["pass"] = threads["pass"]
  BY EnsuredMoves DEF Threads
<1>2. LoopQuiet
  BY EnsuredMoves DEF LoopQuiet
<1> QED BY <1>1, <1>2 DEF PassQuiet, PassItems

\* A pass is put in place of what the pass thread was at.
LEMMA FreshPassQuiet ==
  ASSUME NEW pc, pc \notin {"decide", "spawn"}, threads'["pass"] = Thread(pc)
  PROVE  PassQuiet
BY DEF PassQuiet, PassItems, Thread

LEMMA CalmStep ==
  ASSUME CInv, CInv', TaskInv, LedgerMoves, AllStay, LoopQuiet, PassQuiet, TasksKept
  PROVE  TaskInv'
BY QuietStep DEF AllStay

LEMMA SameTasksKept == UNCHANGED <<active, tasks>> => TasksKept
BY DEF TasksKept

LEMMA SignalledKept ==
  ASSUME CInv, NEW S, NEW signal, Signalled(S, signal), active' = active
  PROVE  TasksKept
<1>1. tasks \in [Attempts -> TaskState]
  BY TypeParts DEF CInv, OthersOK
<1> QED BY <1>1 DEF TasksKept, Signalled, TaskState

LEMMA OutsideKeepsTasks ==
  ASSUME CInv, CInv', TaskInv, Outside
  PROVE  TaskInv'
<1> USE DEF CInv
<1>0. ThreadsOK(threads)
  BY TypeParts
<1>1. ASSUME NEW s \in Submissions,
             BeginAdmission(s) \/ AdmissionRefused(s) \/ AdmitRow(s) \/ Materialize(s)
      PROVE  TaskInv'
  <2>1. LedgerMoves /\ AllStay
    BY <1>1, AdmissionMoves, NothingMoves
    DEF BeginAdmission, AdmissionRefused, AdmitRow, Materialize
  <2>2. threads' = threads /\ UNCHANGED <<active, tasks>>
    BY <1>1 DEF BeginAdmission, AdmissionRefused, AdmitRow, Materialize, process
  <2> QED BY <2>1, <2>2, CalmStep, SameThreadsQuiet, SameTasksKept
<1>2. ASSUME NEW s \in Submissions, EndAdmission(s) PROVE TaskInv'
  <2>1. LedgerUnchanged /\ threads' = Ensured(threads) /\ UNCHANGED <<active, tasks>>
    BY <1>2 DEF EndAdmission, EnsureAndWake
  <2> QED BY <1>0, <2>1, CalmStep, NothingMoves, EnsuredQuiet, SameTasksKept
<1>3. ASSUME NEW k \in Sessions, AbortInstance(k) PROVE TaskInv'
  <2>1. LedgerMoves /\ AllStay /\ TasksKept
    BY <1>3, AbortMoves, SignalledKept DEF AbortInstance
  <2> DEFINE t == Ensured(threads)
  <2>2. threads' = t \/ threads' = [t EXCEPT !["pass"] = Thread("begin")]
    BY <1>3 DEF AbortInstance
  <2>3. ThreadsOK(t)
    BY <1>0, EnsuredIsOK
  <2>4. CASE threads' = t
    BY <1>0, <2>1, <2>4, EnsuredQuiet, CalmStep
  <2>5. CASE threads' = [t EXCEPT !["pass"] = Thread("begin")]
    <3>1. threads'["pass"] = Thread("begin") /\ threads'["loop"] = t["loop"]
      BY <2>3, <2>5 DEF ThreadsOK, Threads
    <3>2. LoopQuiet
      BY <1>0, <3>1, EnsuredMoves DEF LoopQuiet
    <3> QED BY <2>1, <3>1, <3>2, FreshPassQuiet, CalmStep
  <2> QED BY <2>2, <2>4, <2>5
<1>4. CASE LeaseScanTimer
  BY <1>4, CalmStep, NothingMoves, SameThreadsQuiet, SameTasksKept DEF LeaseScanTimer
<1>5. ASSUME NEW o \in Owners, Heartbeat(o) PROVE TaskInv'
  <2>1. threads' = threads /\ UNCHANGED <<active, tasks>>
    BY <1>5 DEF Heartbeat, process
  <2> QED BY <1>5, <2>1, HeartbeatMoves, CalmStep, SameThreadsQuiet, SameTasksKept
<1>6. ASSUME NEW s \in Submissions, LeaseRunsOut(s) PROVE TaskInv'
  <2>1. threads' = threads /\ UNCHANGED <<active, tasks>>
    BY <1>6 DEF LeaseRunsOut, process
  <2>2. /\ LedgerMoves /\ OthersStay(s)
        /\ rows'[s].status = rows[s].status /\ rows'[s].attempt = rows[s].attempt
    BY <1>6, LapseMoves DEF LeaseRunsOut
  <2>3. \A th \in {"loop", "pass"} : threads[th].pc = "spawn" => threads[th].item.sub # s
    BY <1>0, <1>6 DEF LeaseRunsOut, ThreadsOK, Threads
  <2>4. Spared(s)
    BY <2>2, <2>3 DEF Spared
  <2> QED BY <2>1, <2>2, <2>4, QuietStep, SameThreadsQuiet, SameTasksKept DEF OthersStay
<1>7. CASE Tick /\ UNCHANGED <<process, faults, unannounced>>
  BY <1>7, TickMoves, CalmStep, SameThreadsQuiet, SameTasksKept DEF process
<1> QED BY <1>1, <1>2, <1>3, <1>4, <1>5, <1>6, <1>7 DEF Outside

LEMMA TaskStepKeepsTasks ==
  ASSUME CInv, CInv', TaskInv, NEW a \in Attempts, TaskStep(a)
  PROVE  TaskInv'
<1> USE DEF CInv
<1>0. /\ tasks \in [Attempts -> TaskState]
      /\ active \in [Submissions -> Attempts \cup {NoAttempt}]
      /\ \A b \in Attempts : HasTask(b) => tasks[b].sub \in Submissions
      /\ \A b \in Attempts : HasTask(b) <=> tasks[b].sub # None
  BY TypeParts DEF OthersOK, TaskState, HasTask
<1>1. \A pc \in {"settling", "ending"} :
        HasTask(a) /\ tasks' = [tasks EXCEPT ![a].pc = pc] /\ active' = active => TasksKept
  BY <1>0 DEF TasksKept, HasTask, TaskState
<1>2. ASSUME NEW outcome \in Outcomes, TaskSettles(a, outcome) PROVE TaskInv'
  <2> DEFINE s == tasks[a].sub
  <2>1. HasTask(a) /\ threads' = threads /\ TasksKept /\ s \in Submissions
    BY <1>0, <1>1, <1>2 DEF TaskSettles, Running, HasTask
  <2>2. CASE LedgerUnchanged
    BY <2>1, <2>2, NothingMoves, CalmStep, SameThreadsQuiet
  <2>3. CASE Runs(s, a) /\ ReserveSettlement(s, a, outcome)
    <3>1. LedgerMoves /\ OthersStay(s) /\ Sealed(rows'[s])
      BY <2>1, <2>3, ReserveMoves
    <3>2. \A th \in {"loop", "pass"} : threads[th].pc = "spawn" => threads[th].item.sub # s
      BY <2>1, <2>3 DEF TaskInv, ClaimIsFresh, Fresh, Runs
    <3>3. Spared(s)
      BY <3>1, <3>2 DEF Spared
    <3> QED BY <2>1, <3>1, <3>3, QuietStep, SameThreadsQuiet DEF OthersStay
  <2> QED BY <1>2, <2>2, <2>3 DEF TaskSettles
<1>3. CASE TaskFinalizes(a)
  <2>1. HasTask(a) /\ threads' = threads /\ TasksKept /\ tasks[a].sub \in Submissions
    BY <1>0, <1>1, <1>3 DEF TaskFinalizes, HasTask
  <2>2. LedgerMoves /\ AllStay
    BY <1>3, <2>1, FinalizeMoves, NothingMoves DEF TaskFinalizes
  <2> QED BY <2>1, <2>2, CalmStep, SameThreadsQuiet
<1>4. CASE TaskStops(a)
  <2>1. LedgerUnchanged /\ threads' = threads /\ TasksKept
    BY <1>1, <1>4 DEF TaskStops, HasTask
  <2> QED BY <2>1, NothingMoves, CalmStep, SameThreadsQuiet
<1>5. CASE TaskEnds(a)
  <2>1. /\ threads' = threads /\ rows' = rows /\ lastAttempt' = lastAttempt /\ now' = now
        /\ HasTask(a)
        /\ tasks' = [tasks EXCEPT ![a] = NoTask]
        /\ active' = [active EXCEPT ![tasks[a].sub] = NoAttempt]
    BY <1>5 DEF TaskEnds, LedgerUnchanged, vars, HasTask
  <2>2. /\ \A b \in Attempts : HasTask(b)' => b # a /\ HasTask(b) /\ tasks'[b] = tasks[b]
        /\ \A s \in Submissions :
             active'[s] = IF s = tasks[a].sub THEN NoAttempt ELSE active[s]
    BY <1>0, <2>1 DEF HasTask, NoTask
  <2>3. TasksHaveRows'
    BY <1>0, <2>1, <2>2 DEF TaskInv, TasksHaveRows
  <2>4. TrackedTasksExist'
    BY <1>0, <2>1, <2>2 DEF TaskInv, TrackedTasksExist
  <2>5. ASSUME NEW th \in {"loop", "pass"} PROVE ClaimIsFresh(th)'
    <3> SUFFICES ASSUME threads[th].pc = "spawn" PROVE Fresh(threads[th].item)'
      BY <2>1 DEF ClaimIsFresh
    <3>1. threads[th].item.sub \in Submissions /\ threads[th].item.attempt \in Attempts
      BY HeldByThread DEF ItemPcs
    <3>2. Fresh(threads[th].item)
      BY DEF TaskInv, ClaimIsFresh
    <3>3. active'[threads[th].item.sub] = NoAttempt /\ ~HasTask(threads[th].item.attempt)'
      BY <2>1, <2>2, <3>1, <3>2 DEF Fresh
    <3> QED BY <2>1, <3>2, <3>3 DEF Fresh, Runs
  <2>6. TakenUpIsIdle'
    <3> SUFFICES ASSUME threads["pass"].pc = "decide", Runs(threads["pass"].item.sub, threads["pass"].item.attempt)
                 PROVE  active'[threads["pass"].item.sub] = NoAttempt
      BY <2>1 DEF TakenUpIsIdle, Idle, Runs
    <3>1. threads["pass"].item.sub \in Submissions
      BY HeldByThread DEF ItemPcs
    <3> QED BY <2>2, <3>1 DEF TaskInv, TakenUpIsIdle, Idle
  <2>7. ItemsAreOld' /\ ReplacesUnaborted' /\ ClaimsAreApart' /\ ForcedIsNotReplaced'
    BY <2>1 DEF TaskInv, ItemsAreOld, ReplacesUnaborted, ClaimsAreApart, ForcedIsNotReplaced,
                PassItems
  <2>8. ForcedMustEnd' /\ ForcedIsSealed'
    BY <2>1 DEF TaskInv, ForcedMustEnd, ForcedIsSealed, MustEnd, Overdue, Runs, PassItems, Sealed
  <2> QED BY <2>3, <2>4, <2>5, <2>6, <2>7, <2>8 DEF TaskInv
<1> QED BY <1>2, <1>3, <1>4, <1>5 DEF TaskStep

LEMMA UnreadyKeepsTasks ==
  ASSUME CInv, CInv', TaskInv, NEW th \in Threads, ListUnready(th) \/ ReconcileUnready(th)
  PROVE  TaskInv'
<1> USE DEF CInv
<1>0. ThreadsOK(threads) /\ <<th, "unready">> \in Lists
  BY TypeParts DEF Lists, Threads
<1>1. CASE ListUnready(th)
  <2>1. Items(Unready) \in SUBSET Item
    BY ItemsAreItems DEF Unready, Inv
  <2>2. Items(Unready) \subseteq Listed
    BY DEF Unready, Listed, Items
  <2>3. LoopQuiet /\ PassQuiet
    BY <1>0, <1>1, <2>1, <2>2, WorkQuiet DEF ListUnready
  <2>4. LedgerUnchanged /\ UNCHANGED <<active, tasks>>
    BY <1>1 DEF ListUnready
  <2> QED BY <2>3, <2>4, NothingMoves, CalmStep, SameTasksKept
<1>2. CASE ReconcileUnready(th)
  <2>1. PICK item \in First(threads[th].todo) :
          /\ Work(th, "unready", threads[th].todo \ {item})
          /\ \/ item.aborted /\ SettleQueued(item.sub, "aborted")
             \/ ~item.aborted /\ MarkCanonicalReady(item.sub)
             \/ ~item.aborted /\ now >= DefaultTimeout /\ SettleQueued(item.sub, "failed")
             \/ (item.aborted => rows[item.sub].status # "queued") /\ LedgerUnchanged
    BY <1>2 DEF ReconcileUnready
  <2>2. item.sub \in Submissions /\ threads[th].todo \ {item} \in SUBSET Item
    BY <1>0, <2>1, FirstIsItem DEF Item
  <2>3. th = "pass" => threads[th].todo \ {item} \subseteq PassItems
    BY <1>0, TodoIsHeld
  <2>4. LoopQuiet /\ PassQuiet
    BY <1>0, <2>1, <2>2, <2>3, WorkQuiet
  <2>5. LedgerMoves /\ AllStay
    BY <2>1, <2>2, SettleQueuedMoves, AdmissionMoves, NothingMoves
  <2>6. UNCHANGED <<active, tasks>>
    BY <1>2 DEF ReconcileUnready
  <2> QED BY <2>4, <2>5, <2>6, CalmStep, SameTasksKept
<1> QED BY <1>1, <1>2

LEMMA PassListKeepsTasks ==
  ASSUME CInv, CInv', TaskInv, ListPending \/ FinalizeOwed \/ ListExpired \/ NextExpired
  PROVE  TaskInv'
<1> USE DEF CInv
<1>0. /\ ThreadsOK(threads) /\ "pass" \in Threads
      /\ <<"pass", "owed">> \in Lists /\ <<"pass", "expired">> \in Lists
      /\ UNCHANGED <<active, tasks>>
  BY TypeParts DEF Lists, Threads, ListPending, FinalizeOwed, ListExpired, NextExpired
<1>1. CASE ListPending
  <2> DEFINE T == Items({s \in Submissions : rows[s].status = "terminalizing"})
  <2>1. T \in SUBSET Item /\ T \subseteq Listed
    BY ItemsAreItems DEF Inv, Listed, Items
  <2> HIDE DEF T
  <2>2. Work("pass", "owed", T) /\ LedgerUnchanged
    BY <1>1 DEF ListPending, T
  <2> QED BY <1>0, <2>1, <2>2, WorkQuiet, NothingMoves, CalmStep, SameTasksKept
<1>2. CASE ListExpired
  <2> DEFINE T == Items({s \in Submissions :
                           rows[s].status = "running" /\ rows[s].lease = "lapsed"})
  <2>1. T \in SUBSET Item /\ T \subseteq Listed
    BY ItemsAreItems DEF Inv, Listed, Items
  <2> HIDE DEF T
  <2>2. Work("pass", "expired", T) /\ LedgerUnchanged
    BY <1>2 DEF ListExpired, T
  <2> QED BY <1>0, <2>1, <2>2, WorkQuiet, NothingMoves, CalmStep, SameTasksKept
<1>3. CASE FinalizeOwed
  <2>1. PICK item \in First(threads["pass"].todo) :
          /\ Work("pass", "owed", threads["pass"].todo \ {item})
          /\ FinalizeSettlement(item.sub, item.attempt) \/ LedgerUnchanged
    BY <1>3 DEF FinalizeOwed
  <2>2. item.sub \in Submissions /\ threads["pass"].todo \ {item} \in SUBSET Item
    BY <1>0, <2>1, FirstIsItem DEF Item
  <2>3. LoopQuiet /\ PassQuiet
    BY <1>0, <2>1, <2>2, TodoIsHeld, WorkQuiet
  <2>4. LedgerMoves /\ AllStay
    BY <2>1, <2>2, FinalizeMoves, NothingMoves
  <2> QED BY <1>0, <2>3, <2>4, CalmStep, SameTasksKept
<1>4. CASE NextExpired
  <2> DEFINE Go(r) == threads' = Resumed([threads EXCEPT !["pass"] = r])
             Taken(i) == [Thread("decide") EXCEPT !.todo = threads["pass"].todo \ {i}, !.item = i]
  <2>1. PICK item \in First(threads["pass"].todo) :
          \/ Go(Thread("none"))
          \/ Takes(item) /\ Go(Taken(item))
          \/ Go(At("pass", "expired", threads["pass"].todo \ {item}))
    BY <1>4 DEF NextExpired
  <2>2. item \in Item /\ threads["pass"].todo \ {item} \in SUBSET Item
    BY <1>0, FirstIsItem
  <2>3. /\ ThreadOK("pass", Thread("none"))
        /\ ThreadOK("pass", At("pass", "expired", threads["pass"].todo \ {item}))
        /\ ThreadOK("pass", Taken(item))
    <3>1. ThreadOK("pass", Thread("none"))
      BY <1>0, FreshThread DEF PcsOf, PassPcs, ListPcs, ItemPcs
    <3>2. ThreadOK("pass", At("pass", "expired", threads["pass"].todo \ {item}))
      BY <1>0, <2>2, AtIsOK
    <3>3. ThreadOK("pass", Taken(item))
      BY <2>2, ItemAssumption
      DEF ThreadOK, Thread, ThreadState, PcsOf, PassPcs, ListPcs, ItemPcs
    <3> QED BY <3>1, <3>2, <3>3
  <2>4. \A r : ThreadOK("pass", r) /\ Go(r) =>
          /\ threads'["pass"] = r
          /\ Follows("loop")
    <3> SUFFICES ASSUME NEW r, ThreadOK("pass", r), Go(r)
                 PROVE  threads'["pass"] = r /\ Follows("loop")
      OBVIOUS
    <3> DEFINE t == [threads EXCEPT !["pass"] = r]
    <3>1. ThreadsOK(t) /\ t["pass"] = r /\ t["loop"] = threads["loop"]
      BY <1>0, SetThread DEF ThreadsOK, Threads
    <3>2. threads' = Resumed(t)
      OBVIOUS
    <3> HIDE DEF t
    <3> QED BY <3>1, <3>2, ResumedFollows DEF Follows, Threads
  <2> HIDE DEF Go
  <2>5. LedgerUnchanged
    BY <1>4 DEF NextExpired
  <2>6. CASE Go(Thread("none"))
    BY <1>0, <2>3, <2>4, <2>5, <2>6, FollowsQuiet, FreshPassQuiet, NothingMoves, CalmStep,
       SameTasksKept
  <2>7. CASE Go(At("pass", "expired", threads["pass"].todo \ {item}))
    <3>1. Work("pass", "expired", threads["pass"].todo \ {item})
      BY <2>7 DEF Go, Work
    <3> QED BY <1>0, <2>2, <2>5, <3>1, TodoIsHeld, WorkQuiet, NothingMoves, CalmStep,
               SameTasksKept
  <2>8. CASE Takes(item) /\ Go(Taken(item))
    <3>1. threads'["pass"] = Taken(item) /\ LoopQuiet
      BY <2>3, <2>4, <2>8, FollowsQuiet
    <3>2. PassItems' \subseteq PassItems
      BY <1>0, <2>1, <2>2, <3>1, TodoIsHeld DEF PassItems, Thread, First
    <3>3. threads'["pass"].pc = "decide" /\ threads'["pass"].item = item
      BY <3>1 DEF Thread
    <3>4. LedgerMoves /\ AllStay /\ TasksKept
      BY <1>0, <2>5, NothingMoves, SameTasksKept
    <3>5. TasksHaveRows' /\ TrackedTasksExist'
      BY <3>4, QuietTasks DEF TaskInv
    <3>6. TakenUpIsIdle'
      BY <1>0, <2>8, <3>3 DEF TakenUpIsIdle, Idle, Takes
    <3>7. ItemsAreOld' /\ ClaimsAreApart' /\ AbortsSeen
      BY <3>1, <3>2, <3>4, QuietItems, QuietApart, ListedIsSeen DEF TaskInv
    <3>8. ClaimIsFresh("loop")' /\ ClaimIsFresh("pass")'
      <4>1. ClaimIsFresh("loop")'
        BY <3>1, <3>4, QuietClaim DEF TaskInv, LoopQuiet, AllStay
      <4> QED BY <3>3, <4>1 DEF ClaimIsFresh
    <3>9. ForcedMustEnd' /\ ForcedIsSealed'
      BY <3>1, <3>4, <3>7, QuietForce DEF TaskInv, AllStay
    <3>10. ReplacesUnaborted' /\ ForcedIsNotReplaced'
      BY <3>3 DEF ReplacesUnaborted, ForcedIsNotReplaced
    <3> QED BY <3>5, <3>6, <3>7, <3>8, <3>9, <3>10 DEF TaskInv
  <2> QED BY <2>1, <2>6, <2>7, <2>8
<1> QED BY SMTT(40), <1>1, <1>2, <1>3, <1>4

\* While the loop is about to start a task, the pass's item is not of that attempt.
LEMMA PassIsApart ==
  ASSUME CInv, TaskInv, threads["pass"].pc \in ItemPcs, threads["loop"].pc = "spawn",
         threads["loop"].item.sub = threads["pass"].item.sub
  PROVE  /\ ~Runs(threads["pass"].item.sub, threads["pass"].item.attempt)
         /\ rows[threads["pass"].item.sub].status = "running"
<1>1. threads["pass"].item \in PassItems
  BY HeldByThread
<1> QED BY <1>1 DEF TaskInv, ClaimsAreApart, ClaimIsFresh, Fresh, Runs

\* What the loop is about to settle by force, the pass does not start again.
LEMMA ForcedIsNotTakenAgain ==
  ASSUME CInv, TaskInv, threads["pass"].pc = "decide", threads["loop"].pc = "force",
         ~threads["pass"].item.aborted, ~Overdue(threads["pass"].item.sub),
         Runs(threads["pass"].item.sub, threads["pass"].item.attempt)
  PROVE  threads["loop"].item.sub # threads["pass"].item.sub
<1>1. threads["pass"].item \in PassItems
  BY HeldByThread DEF ItemPcs
<1> QED BY <1>1 DEF TaskInv, ForcedMustEnd, MustEnd, Runs, Sealed

LEMMA ReserveItemMoves ==
  ASSUME CInv, NEW th \in {"loop", "pass"}, threads[th].pc \in ItemPcs, ReserveItem(th)
  PROVE  \/ /\ LedgerMoves /\ OthersStay(threads[th].item.sub)
            /\ Sealed(rows'[threads[th].item.sub])
            /\ \/ Runs(threads[th].item.sub, threads[th].item.attempt)
               \/ rows[threads[th].item.sub].status = "joined"
            /\ threads' = [threads EXCEPT ![th] = [threads[th] EXCEPT !.pc = "finalize"]]
         \/ /\ LedgerUnchanged /\ Return(th)
            /\ ~Runs(threads[th].item.sub, threads[th].item.attempt)
<1>1. threads[th].item.sub \in Submissions
  BY HeldByThread
<1> QED BY <1>1, ReserveMoves DEF ReserveItem, ReserveSettlement, Goto, CInv

LEMMA DecideKeepsTasks ==
  ASSUME CInv, CInv', TaskInv, DecideExpired
  PROVE  TaskInv'
<1> USE DEF CInv
<1> DEFINE i == threads["pass"].item
           s == i.sub
<1>0. /\ ThreadsOK(threads) /\ threads["pass"].pc = "decide" /\ threads["pass"].pc \in ItemPcs
      /\ s \in Submissions /\ i \in PassItems /\ i \in Item
      /\ UNCHANGED <<active, tasks>>
  BY TypeParts, HeldByThread, HeldItem DEF DecideExpired, ItemPcs, Threads
<1> DEFINE again == ~i.aborted /\ ~Exhausted(s) /\ ~Overdue(s)
<1>1. CASE ReserveItem("pass")
  <2>1. CASE LedgerUnchanged /\ Return("pass")
    BY <1>0, <2>1, ReturnQuiet, NothingMoves, CalmStep, SameTasksKept
  <2>2. CASE /\ LedgerMoves /\ OthersStay(s) /\ Sealed(rows'[s])
             /\ Runs(s, i.attempt) \/ rows[s].status = "joined"
             /\ threads' = [threads EXCEPT !["pass"] = [threads["pass"] EXCEPT !.pc = "finalize"]]
    <3>1. /\ threads'["pass"] = [threads["pass"] EXCEPT !.pc = "finalize"]
          /\ threads'["loop"] = threads["loop"]
      BY <1>0, <2>2 DEF ThreadsOK, Threads
    <3>2. /\ threads'["pass"].pc = "finalize" /\ threads'["pass"].todo = threads["pass"].todo
          /\ threads'["pass"].item = threads["pass"].item
      BY <1>0, <3>1 DEF ThreadsOK, Threads, ThreadState
    <3>3. LoopQuiet /\ PassQuiet
      BY <3>1, <3>2 DEF LoopQuiet, PassQuiet, PassItems
    <3>4. threads["loop"].pc = "spawn" => threads["loop"].item.sub # s
      BY <1>0, <2>2, PassIsApart
    <3>5. Spared(s)
      BY <1>0, <2>2, <3>4 DEF Spared
    <3> QED BY <1>0, <2>2, <3>3, <3>5, QuietStep, SameTasksKept DEF OthersStay
  <2> QED BY <1>0, <1>1, <2>1, <2>2, ReserveItemMoves
<1>2. CASE again /\ Requeue(s, i.attempt) /\ Return("pass")
  <2>1. Runs(s, i.attempt)
    BY <1>2 DEF Requeue
  <2>2. threads["loop"].pc \in {"spawn", "force"} => threads["loop"].item.sub # s
    BY <1>0, <1>2, <2>1, PassIsApart, ForcedIsNotTakenAgain
  <2>3. Spared(s)
    BY <1>0, <2>2 DEF Spared
  <2> QED BY <1>0, <1>2, <2>3, RequeueMoves, ReturnQuiet, QuietStep, SameTasksKept
          DEF OthersStay
<1>3. CASE /\ again
           /\ \E o \in Owners : ReplaceAttempt(s, i.attempt, o)
           /\ threads' = [threads EXCEPT !.pass.pc = "spawn",
                                         !.pass.item.attempt = lastAttempt + 1]
  <2>0. lastAttempt \in Nat /\ lastAttempt + 1 \in Attempts
    BY <1>3, DurabilityAssumption DEF Inv, TypeOK, ReplaceAttempt, WriteWithNewAttempt, Attempts
  <2>1. /\ Runs(s, i.attempt) /\ LedgerMoves /\ OthersStay(s)
        /\ lastAttempt' = lastAttempt + 1
        /\ rows'[s].status = "running" /\ rows'[s].attempt = lastAttempt + 1
        /\ rows'[s].lease = "live"
    BY <1>0, <1>3, ReplaceMoves DEF ReplaceAttempt
  <2> DEFINE j == [i EXCEPT !.attempt = lastAttempt + 1]
  <2>2. j.sub = s /\ j.attempt = lastAttempt + 1 /\ j.aborted = i.aborted
    BY <1>0 DEF Item
  <2>3. /\ threads'["pass"].pc = "spawn" /\ threads'["pass"].item = j
        /\ threads'["pass"].todo = threads["pass"].todo
        /\ threads'["loop"] = threads["loop"]
    BY <1>0, <1>3 DEF ThreadsOK, Threads, ThreadState
  <2>4. threads["loop"].pc \in {"spawn", "force"} => threads["loop"].item.sub # s
    BY <1>0, <1>3, <2>1, PassIsApart, ForcedIsNotTakenAgain
  <2>5. Spared(s) /\ LoopQuiet /\ TasksKept /\ \A t \in Submissions : Stays(t) \/ Spared(t)
    <3>1. LoopQuiet
      BY <2>3 DEF LoopQuiet
    <3>2. Spared(s)
      BY <1>0, <2>4 DEF Spared
    <3> QED BY <1>0, <2>1, <3>1, <3>2, SameTasksKept DEF OthersStay
  <2>6. PassItems' \subseteq PassItems \cup {j}
    BY <2>3 DEF PassItems
  <2>7. TasksHaveRows' /\ TrackedTasksExist'
    BY <2>1, <2>5, QuietTasks DEF TaskInv
  <2>8. ItemsAreOld'
    <3>1. \A k \in PassItems : k.attempt \in Nat /\ k.attempt <= lastAttempt
      BY <1>0 DEF TaskInv, ItemsAreOld, PassItems, ThreadsOK, Threads, ThreadState, Item
    <3> HIDE DEF j
    <3> QED BY <2>0, <2>1, <2>2, <2>6, <3>1 DEF ItemsAreOld
  <2>9. TakenUpIsIdle' /\ ReplacesUnaborted'
    BY <1>3, <2>2, <2>3 DEF TakenUpIsIdle, ReplacesUnaborted
  <2>10. ClaimIsFresh("loop")'
    BY <2>1, <2>5, QuietClaim DEF TaskInv, LoopQuiet
  <2>11. ClaimIsFresh("pass")'
    <3>1. active'[s] = NoAttempt
      BY <1>0, <2>1 DEF TaskInv, TakenUpIsIdle, Idle
    <3>2. tasks'[lastAttempt + 1].pc = "none"
      BY <1>0, <2>0 DEF TaskInv, TasksHaveRows, HasTask
    <3> QED BY <2>1, <2>2, <2>3, <3>1, <3>2 DEF ClaimIsFresh, Fresh, Runs, HasTask
  <2>12. ClaimsAreApart'
    <3> SUFFICES ASSUME threads["loop"].pc = "spawn", NEW k \in PassItems',
                        k.sub = threads["loop"].item.sub
                 PROVE  k.attempt # threads["loop"].item.attempt
      BY <2>3 DEF ClaimsAreApart
    <3>1. k # j
      BY <2>2, <2>4
    <3> QED BY <2>6, <3>1 DEF TaskInv, ClaimsAreApart
  <2>13. ForcedMustEnd' /\ ForcedIsSealed'
    <3>1. AbortsSeen
      BY <1>0, <1>3, <2>2, <2>6 DEF AbortsSeen
    <3> QED BY <2>1, <2>5, <3>1, QuietForce DEF TaskInv
  <2>14. ForcedIsNotReplaced'
    BY <2>2, <2>3, <2>4 DEF ForcedIsNotReplaced
  <2> QED BY <2>7, <2>8, <2>9, <2>10, <2>11, <2>12, <2>13, <2>14 DEF TaskInv
<1> QED BY <1>1, <1>2, <1>3 DEF DecideExpired

LEMMA FinalizeExpiredKeepsTasks ==
  ASSUME CInv, CInv', TaskInv, FinalizeExpired
  PROVE  TaskInv'
<1>1. /\ ThreadsOK(threads) /\ threads["pass"].pc \in ItemPcs
      /\ threads["pass"].item.sub \in Submissions /\ Return("pass")
      /\ UNCHANGED <<active, tasks>>
  BY TypeParts, HeldByThread DEF FinalizeExpired, ItemPcs, CInv
<1>2. LedgerMoves /\ AllStay
  BY <1>1, FinalizeMoves, NothingMoves DEF FinalizeExpired, FinalizeItem, CInv
<1> QED BY <1>1, <1>2, ReturnQuiet, CalmStep, SameTasksKept

LEMMA SpawnKeepsTasks ==
  ASSUME CInv, CInv', TaskInv, SpawnReplacement \/ SpawnClaimed
  PROVE  TaskInv'
<1> USE DEF CInv
<1>0. /\ ThreadsOK(threads)
      /\ tasks \in [Attempts -> TaskState]
      /\ active \in [Submissions -> Attempts \cup {NoAttempt}]
      /\ \A b \in Attempts : HasTask(b) => tasks[b].sub \in Submissions
      /\ \A b \in Attempts : HasTask(b) <=> tasks[b].sub # None
  BY TypeParts DEF OthersOK, TaskState, HasTask
<1>1. PICK th \in {"loop", "pass"} :
        /\ threads[th].pc = "spawn"
        /\ Spawn(threads[th].item.sub, threads[th].item.attempt) /\ Return(th)
        /\ LedgerUnchanged
  BY DEF SpawnReplacement, SpawnClaimed
<1> DEFINE i == threads[th].item
           s == i.sub
           c == i.attempt
<1>2. /\ threads[th].pc \in ItemPcs /\ s \in Submissions /\ c \in Attempts
      /\ s # None
  BY <1>1, HeldByThread, SubmissionsAssumption DEF ItemPcs
<1>3. Runs(s, c) /\ active[s] = NoAttempt /\ ~HasTask(c) /\ c <= lastAttempt
  BY <1>1, <1>2, RunsAreOld DEF TaskInv, ClaimIsFresh, Fresh
<1>4. /\ rows' = rows /\ lastAttempt' = lastAttempt /\ now' = now
      /\ LedgerMoves /\ AllStay /\ LoopQuiet /\ PassQuiet
  BY <1>0, <1>1, <1>2, NothingMoves, ReturnQuiet DEF LedgerUnchanged, vars
<1>5. /\ \A b \in Attempts : b # c => tasks'[b] = tasks[b]
      /\ tasks'[c].pc = "running" /\ tasks'[c].sub = s
      /\ \A t \in Submissions : active'[t] = IF t = s THEN c ELSE active[t]
  BY <1>0, <1>1, <1>2 DEF Spawn
<1>6. threads'[th].pc \notin {"spawn", "decide"}
  BY <1>0, <1>1, <1>2, ReturnMoves
<1> HIDE DEF i, s, c
\* Another claim, or what the pass decides about, is another row.
<1>7. ASSUME NEW u \in {"loop", "pass"}, u # th, threads[u].pc \in {"spawn", "decide"},
             Runs(threads[u].item.sub, threads[u].item.attempt)
      PROVE  threads[u].item.sub # s /\ threads[u].item.attempt # c
  <2>1. threads[u].pc \in ItemPcs /\ threads[u].item.sub \in Submissions
    BY <1>7, HeldByThread DEF ItemPcs
  <2>2. threads["loop"].pc = "spawn" /\ threads["pass"].pc \in ItemPcs
    <3>1. threads["loop"].pc # "decide"
      BY <1>0 DEF ThreadsOK, ThreadOK, Threads, PcsOf, LoopPcs
    <3> QED BY <1>1, <1>2, <1>7, <2>1, <3>1
  <2>3. threads["loop"].item.sub # threads["pass"].item.sub
    BY <1>1, <1>3, <1>7, <2>2, PassIsApart DEF i, s, c
  <2>4. threads[u].item.sub # s
    BY <1>7, <2>3 DEF s, i
  <2> QED BY <1>2, <1>3, <1>7, <2>1, <2>4 DEF Runs, Inv, AttemptsAreFenced
<1>8. TasksHaveRows'
  <2> SUFFICES ASSUME NEW b \in Attempts, HasTask(b)'
               PROVE  /\ b <= lastAttempt
                      /\ active'[tasks'[b].sub] = b \/ Sealed(rows[tasks'[b].sub])
    BY <1>4 DEF TasksHaveRows
  <2>1. CASE b = c
    BY <1>2, <1>3, <1>5, <2>1
  <2>2. CASE b # c
    <3>1. HasTask(b) /\ tasks'[b] = tasks[b] /\ tasks[b].sub \in Submissions
      BY <1>0, <1>5, <2>2 DEF HasTask
    <3>2. b <= lastAttempt /\ (active[tasks[b].sub] = b \/ Sealed(rows[tasks[b].sub]))
      BY <3>1 DEF TaskInv, TasksHaveRows
    <3>3. tasks[b].sub = s => FALSE
      BY <1>3, <3>2, DurabilityAssumption DEF Runs, Sealed, Attempts, NoAttempt
    <3> QED BY <1>5, <3>1, <3>2, <3>3
  <2> QED BY <2>1, <2>2
<1>9. TrackedTasksExist'
  <2> SUFFICES ASSUME NEW t \in Submissions, active'[t] # NoAttempt
               PROVE  tasks'[active'[t]].sub = t
    BY DEF TrackedTasksExist
  <2>1. CASE t = s
    BY <1>5, <2>1
  <2>2. CASE t # s
    <3>1. active'[t] = active[t] /\ active[t] \in Attempts /\ tasks[active[t]].sub = t
      BY <1>0, <1>5, <2>2 DEF TaskInv, TrackedTasksExist
    <3>2. active[t] # c
      BY <1>0, <1>2, <1>3, <3>1, SubmissionsAssumption
    <3> QED BY <1>5, <3>1, <3>2
  <2> QED BY <2>1, <2>2
<1>10. ASSUME NEW u \in {"loop", "pass"} PROVE ClaimIsFresh(u)'
  <2> SUFFICES ASSUME threads'[u].pc = "spawn", NEW j, j = threads'[u].item
               PROVE  Fresh(j)'
    BY DEF ClaimIsFresh
  <2>1. u # th /\ threads[u].pc = "spawn" /\ threads[u].item = j
    BY <1>4, <1>6 DEF LoopQuiet, PassQuiet
  <2>2. Fresh(j) /\ j.sub \in Submissions /\ j.attempt \in Attempts
    BY <2>1, HeldByThread DEF TaskInv, ClaimIsFresh, ItemPcs
  <2>3. j.sub # s /\ j.attempt # c
    BY <1>7, <2>1, <2>2 DEF Fresh
  <2> QED BY <1>4, <1>5, <2>2, <2>3 DEF Fresh, Runs, HasTask
<1>11. TakenUpIsIdle'
  <2> SUFFICES ASSUME threads'["pass"].pc = "decide", NEW j, j = threads'["pass"].item,
                      Runs(j.sub, j.attempt)
               PROVE  active'[j.sub] = NoAttempt
    BY <1>4 DEF TakenUpIsIdle, Idle, Runs
  <2>1. "pass" # th /\ threads["pass"].pc = "decide" /\ threads["pass"].item = j
    BY <1>4, <1>6 DEF PassQuiet
  <2>2. j.sub \in Submissions /\ j.sub # s /\ active[j.sub] = NoAttempt
    BY <1>7, <2>1, HeldByThread DEF TaskInv, TakenUpIsIdle, Idle, ItemPcs
  <2> QED BY <1>5, <2>2
<1>12. ItemsAreOld' /\ ClaimsAreApart' /\ ForcedMustEnd' /\ ForcedIsSealed'
  BY <1>4, QuietItems, QuietApart, QuietForce, ListedIsSeen DEF TaskInv, PassQuiet, AllStay
<1>13. ReplacesUnaborted' /\ ForcedIsNotReplaced'
  BY SMTT(40), <1>4 DEF TaskInv, ReplacesUnaborted, ForcedIsNotReplaced, PassQuiet, LoopQuiet
<1> QED BY <1>8, <1>9, <1>10, <1>11, <1>12, <1>13 DEF TaskInv

LEMMA EnforceKeepsTasks ==
  ASSUME CInv, CInv', TaskInv, DueScan \/ Enforce \/ StartScan
  PROVE  TaskInv'
<1> USE DEF CInv
<1>0. /\ ThreadsOK(threads) /\ "loop" \in Threads /\ <<"loop", "enforce">> \in Lists
      /\ LedgerUnchanged /\ active' = active /\ LedgerMoves /\ AllStay
  BY TypeParts, NothingMoves DEF Lists, Threads, DueScan, Enforce, StartScan
<1>1. CASE DueScan
  <2>1. CASE Goto("loop", "list")
    <3>1. threads'["loop"].pc = "list" /\ threads'["pass"] = threads["pass"]
      BY <1>0, <2>1 DEF Goto, ThreadsOK, Threads, ThreadState
    <3>2. LoopQuiet /\ PassQuiet
      BY <3>1 DEF LoopQuiet, PassQuiet, PassItems
    <3> QED BY <1>0, <1>1, <3>2, CalmStep, SameTasksKept DEF DueScan
  <2> DEFINE T == {[ItemOf(s) EXCEPT !.attempt = active[s]] :
                     s \in {t \in Submissions : active[t] # NoAttempt}}
  <2>2. CASE Work("loop", "enforce", T)
    <3>1. \A s \in Submissions : active[s] \in Nat
      BY TypeParts, DurabilityAssumption DEF OthersOK, Attempts, NoAttempt
    <3>2. T \in SUBSET Item
      BY ZenonT(60), <3>1 DEF ItemOf, Item, Inv, TypeOK, Row
    <3> HIDE DEF T
    <3>3. LoopQuiet /\ PassQuiet
      BY <1>0, <2>2, <3>2, WorkQuiet
    <3> QED BY <1>0, <1>1, <3>3, CalmStep, SameTasksKept DEF DueScan
  <2> QED BY <1>1, <2>1, <2>2 DEF DueScan
<1>2. CASE StartScan
  <2> DEFINE t == [threads EXCEPT !["loop"] = Thread("await")]
  <2>1. ThreadsOK(t) /\ t["loop"].pc = "await" /\ t["pass"] = threads["pass"]
    <3>1. ThreadOK("loop", Thread("await"))
      BY <1>0, FreshThread DEF PcsOf, LoopPcs, ListPcs, ItemPcs
    <3> QED BY <1>0, <3>1, SetThread DEF ThreadsOK, Threads, Thread
  <2>2. threads' = PassStarted(t)
    BY <1>2 DEF StartScan
  <2> HIDE DEF t
  <2>3. /\ threads'["loop"].pc \in {"await", "list"}
        /\ threads'["pass"] = threads["pass"] \/ threads'["pass"] = Thread("begin")
    BY <2>1, <2>2, PassStartedMoves DEF Threads
  <2>4. LoopQuiet /\ PassQuiet
    BY <2>3, FreshPassQuiet DEF LoopQuiet, PassQuiet, PassItems
  <2> QED BY <1>0, <1>2, <2>4, CalmStep, SameTasksKept DEF StartScan
<1>3. CASE Enforce
  <2>1. PICK item \in First(threads["loop"].todo) :
          LET s == item.sub
              rest == threads["loop"].todo \ {item}
              due == rows[s].status = "running" /\ (rows[s].abortRequested \/ Overdue(s))
          IN
          /\ tasks' = IF due /\ tasks[item.attempt].sub = s /\ tasks[item.attempt].signal = "none"
                        THEN [tasks EXCEPT ![item.attempt].signal = "abort"] ELSE tasks
          /\ \/ Work("loop", "enforce", rest)
             \/ /\ due /\ GraceOver(s, item.attempt)
                /\ threads' = [threads EXCEPT !.loop.pc = "force", !.loop.todo = rest,
                                              !.loop.item = ItemOf(s)]
    BY <1>3 DEF Enforce
  <2> DEFINE s == item.sub
             rest == threads["loop"].todo \ {item}
  <2>2. item \in Item /\ rest \in SUBSET Item /\ s \in Submissions
    BY <1>0, FirstIsItem DEF Item
  <2>3. TasksKept
    <3>1. tasks \in [Attempts -> TaskState]
      BY TypeParts DEF OthersOK
    <3>2. tasks' = tasks \/ tasks' = [tasks EXCEPT ![item.attempt].signal = "abort"]
      BY <2>1
    <3> QED BY <1>0, <3>1, <3>2 DEF TasksKept, TaskState
  <2>4. CASE Work("loop", "enforce", rest)
    <3>1. LoopQuiet /\ PassQuiet
      BY <1>0, <2>2, <2>4, WorkQuiet
    <3> QED BY <1>0, <2>3, <3>1, CalmStep
  <2>5. CASE /\ rows[s].status = "running" /\ (rows[s].abortRequested \/ Overdue(s))
             /\ GraceOver(s, item.attempt)
             /\ threads' = [threads EXCEPT !.loop.pc = "force", !.loop.todo = rest,
                                           !.loop.item = ItemOf(s)]
    <3> HIDE DEF s, rest
    <3>1. /\ threads'["pass"] = threads["pass"]
          /\ threads'["loop"].pc = "force" /\ threads'["loop"].item = ItemOf(s)
      BY <1>0, <2>5 DEF ThreadsOK, Threads, ThreadState
    <3>2. PassQuiet /\ PassItems' = PassItems
      BY <3>1 DEF PassQuiet, PassItems
    <3>3. \A j \in PassItems : j.sub = s => j.aborted
      BY <2>5 DEF GraceOver, PassItems
    <3>4. TasksHaveRows' /\ TrackedTasksExist' /\ ItemsAreOld' /\ TakenUpIsIdle'
      BY <1>0, <2>3, <3>2, QuietTasks, QuietItems, QuietDecision DEF TaskInv, PassQuiet
    <3>5. ReplacesUnaborted' /\ ClaimsAreApart' /\ ForcedIsSealed' /\ ClaimIsFresh("loop")'
      BY <3>1 DEF TaskInv, ReplacesUnaborted, ClaimsAreApart, ForcedIsSealed, ClaimIsFresh
    <3>6. ClaimIsFresh("pass")'
      BY <1>0, <2>3, <3>2, QuietClaim DEF TaskInv, PassQuiet, AllStay
    <3>7. ForcedMustEnd'
      <4>1. /\ Runs(ItemOf(s).sub, ItemOf(s).attempt) /\ ItemOf(s).sub = s
        BY <2>5 DEF Runs, ItemOf
      <4>2. /\ rows' = rows /\ now' = now
        BY <1>0 DEF LedgerUnchanged, vars
      <4>3. \E j : j = ItemOf(s) /\ j = threads'["loop"].item
        BY <3>1
      <4>4. PICK j : j = ItemOf(s) /\ j = threads'["loop"].item
        BY <4>3
      <4>5. MustEnd(j)'
        BY <2>5, <3>2, <3>3, <4>1, <4>2, <4>4 DEF MustEnd, Runs, Overdue
      <4> QED BY <4>4, <4>5 DEF ForcedMustEnd
    <3>8. ForcedIsNotReplaced'
      <4> SUFFICES ASSUME threads["pass"].pc = "spawn" PROVE s # threads["pass"].item.sub
        BY <3>1 DEF ForcedIsNotReplaced, ItemOf
      <4>1. threads["pass"].item \in PassItems /\ ~threads["pass"].item.aborted
        BY HeldByThread DEF ItemPcs, TaskInv, ReplacesUnaborted
      <4> QED BY <3>3, <4>1
    <3> QED BY <3>4, <3>5, <3>6, <3>7, <3>8 DEF TaskInv
  <2> QED BY SMTT(40), <2>1, <2>4, <2>5
<1> QED BY SMTT(40), <1>1, <1>2, <1>3

LEMMA ForceKeepsTasks ==
  ASSUME CInv, CInv', TaskInv, ForceSettle
  PROVE  TaskInv'
<1> USE DEF CInv
<1> DEFINE i == threads["loop"].item
           s == i.sub
<1>0. /\ ThreadsOK(threads) /\ threads["loop"].pc \in ItemPcs /\ s \in Submissions
      /\ active \in [Submissions -> Attempts \cup {NoAttempt}]
      /\ tasks' = tasks
  BY TypeParts, HeldByThread DEF ForceSettle, ItemPcs, OthersOK
<1>1. ASSUME active' = [active EXCEPT ![s] = NoAttempt], Sealed(rows'[s])
      PROVE  TasksKept
  BY <1>0, <1>1 DEF TasksKept
<1>2. CASE /\ threads["loop"].pc = "force" /\ ReserveItem("loop")
           /\ active' = IF Runs(s, i.attempt) THEN active ELSE [active EXCEPT ![s] = NoAttempt]
  <2>1. Sealed(rows[s]) \/ Runs(s, i.attempt)
    BY <1>2 DEF TaskInv, ForcedMustEnd, MustEnd
  <2>2. CASE LedgerUnchanged /\ Return("loop") /\ ~Runs(s, i.attempt)
    <3>1. Sealed(rows'[s]) /\ active' = [active EXCEPT ![s] = NoAttempt]
      BY <1>2, <2>1, <2>2 DEF LedgerUnchanged, vars
    <3> QED BY <1>0, <1>1, <2>2, <3>1, ReturnQuiet, NothingMoves, CalmStep
  <2>3. CASE /\ LedgerMoves /\ OthersStay(s) /\ Sealed(rows'[s])
             /\ Runs(s, i.attempt) \/ rows[s].status = "joined"
             /\ threads' = [threads EXCEPT !["loop"] = [threads["loop"] EXCEPT !.pc = "finalize"]]
    <3>1. Runs(s, i.attempt) /\ TasksKept
      BY <1>0, <1>2, <2>1, <2>3, SameTasksKept DEF Sealed
    <3>2. /\ threads'["loop"].pc = "finalize" /\ threads'["loop"].item = i
          /\ threads'["pass"] = threads["pass"]
      BY <1>0, <2>3 DEF ThreadsOK, Threads, ThreadState
    <3>3. PassQuiet
      BY <3>2 DEF PassQuiet, PassItems
    <3>4. threads["pass"].pc = "spawn" => threads["pass"].item.sub # s
      BY <1>2 DEF TaskInv, ForcedIsNotReplaced
    <3>5. Spared(s)
      BY <2>3, <1>2, <3>4 DEF Spared
    <3>6. \A t \in Submissions : Stays(t) \/ Spared(t)
      BY <2>3, <3>5 DEF OthersStay
    <3>7. TasksHaveRows' /\ TrackedTasksExist' /\ ItemsAreOld' /\ TakenUpIsIdle'
      BY <2>3, <3>1, <3>3, QuietTasks, QuietItems, QuietDecision DEF TaskInv, PassQuiet
    <3>8. ClaimIsFresh("pass")'
      BY <2>3, <3>1, <3>3, <3>6, QuietClaim DEF TaskInv, PassQuiet
    <3>9. /\ ReplacesUnaborted' /\ ClaimsAreApart' /\ ClaimIsFresh("loop")'
          /\ ForcedIsNotReplaced' /\ ForcedMustEnd' /\ ForcedIsSealed'
      BY <2>3, <3>2 DEF TaskInv, ReplacesUnaborted, ClaimsAreApart, ClaimIsFresh,
                        ForcedIsNotReplaced, ForcedMustEnd, ForcedIsSealed
    <3> QED BY <3>7, <3>8, <3>9 DEF TaskInv
  <2> QED BY <1>0, <1>2, <2>2, <2>3, ReserveItemMoves
<1>3. CASE /\ threads["loop"].pc = "finalize" /\ FinalizeItem("loop") /\ Return("loop")
           /\ active' = [active EXCEPT ![s] = NoAttempt]
  <2>1. LedgerMoves /\ AllStay
    BY <1>0, <1>3, FinalizeMoves, NothingMoves DEF FinalizeItem
  <2>2. Sealed(rows'[s])
    BY <1>0, <1>3, <2>1 DEF TaskInv, ForcedIsSealed, LedgerMoves, RowMoves
  <2> QED BY <1>0, <1>1, <1>3, <2>1, <2>2, ReturnQuiet, CalmStep
<1> QED BY <1>2, <1>3 DEF ForceSettle

LEMMA ClaimKeepsTasks ==
  ASSUME CInv, CInv', TaskInv, ListRunnable \/ ClaimListed
  PROVE  TaskInv'
<1> USE DEF CInv
<1>0. /\ ThreadsOK(threads) /\ "loop" \in Threads /\ <<"loop", "claims">> \in Lists
      /\ UNCHANGED <<active, tasks>>
  BY TypeParts DEF Lists, Threads, ListRunnable, ClaimListed
<1>1. CASE ListRunnable
  <2> DEFINE T == Items({s \in Submissions : Runnable(s)})
  <2>1. T \in SUBSET Item
    BY ItemsAreItems DEF Inv
  <2> HIDE DEF T
  <2>2. Work("loop", "claims", T) /\ LedgerUnchanged
    BY <1>1 DEF ListRunnable, T
  <2> QED BY <1>0, <2>1, <2>2, WorkQuiet, NothingMoves, CalmStep, SameTasksKept
<1>2. CASE ClaimListed
  <2>1. PICK i \in First(threads["loop"].todo) :
          \/ /\ active[i.sub] = NoAttempt
             /\ \E o \in Owners : Claim(i.sub, o)
             /\ threads' = [threads EXCEPT !.loop.pc = "spawn",
                              !.loop.todo = threads["loop"].todo \ {i},
                              !.loop.item = [i EXCEPT !.attempt = lastAttempt + 1],
                              !.loop.progressed = TRUE]
          \/ /\ Work("loop", "claims", threads["loop"].todo \ {i})
             /\ LedgerUnchanged
    BY <1>2 DEF ClaimListed
  <2>2. i \in Item /\ i.sub \in Submissions /\ threads["loop"].todo \ {i} \in SUBSET Item
    BY <1>0, FirstIsItem DEF Item
  <2>3. CASE Work("loop", "claims", threads["loop"].todo \ {i}) /\ LedgerUnchanged
    BY <1>0, <2>2, <2>3, WorkQuiet, NothingMoves, CalmStep, SameTasksKept
  <2>4. CASE /\ active[i.sub] = NoAttempt
             /\ \E o \in Owners : Claim(i.sub, o)
             /\ threads' = [threads EXCEPT !.loop.pc = "spawn",
                              !.loop.todo = threads["loop"].todo \ {i},
                              !.loop.item = [i EXCEPT !.attempt = lastAttempt + 1],
                              !.loop.progressed = TRUE]
    <3> DEFINE j == [i EXCEPT !.attempt = lastAttempt + 1]
               s == i.sub
    <3>1. j.sub = s /\ j.attempt = lastAttempt + 1
      BY <2>2 DEF Item
    <3>2. /\ threads'["loop"].pc = "spawn" /\ threads'["loop"].item = j
          /\ threads'["pass"] = threads["pass"]
      BY <1>0, <2>4 DEF ThreadsOK, Threads, ThreadState
    <3> HIDE DEF j
    <3>3. /\ LedgerMoves /\ AllStay /\ lastAttempt' = lastAttempt + 1
          /\ rows'[s].status = "running" /\ rows'[s].attempt = lastAttempt + 1
          /\ rows'[s].lease = "live"
      BY <2>2, <2>4, ClaimMoves
    <3>4. lastAttempt \in Nat /\ lastAttempt + 1 \in Attempts
      BY <2>4, DurabilityAssumption DEF Inv, TypeOK, Claim, WriteWithNewAttempt, Attempts
    <3>5. PassQuiet /\ PassItems' = PassItems /\ TasksKept
      BY <1>0, <3>2, SameTasksKept DEF PassQuiet, PassItems
    <3>6. TasksHaveRows' /\ TrackedTasksExist' /\ ItemsAreOld' /\ TakenUpIsIdle'
      BY <3>3, <3>5, QuietTasks, QuietItems, QuietDecision DEF TaskInv, PassQuiet
    <3>7. ClaimIsFresh("pass")'
      BY <3>3, <3>5, QuietClaim DEF TaskInv, PassQuiet, AllStay
    <3>8. ClaimIsFresh("loop")'
      <4>1. tasks'[lastAttempt + 1].pc = "none"
        BY <1>0, <3>4 DEF TaskInv, TasksHaveRows, HasTask
      <4> QED BY <1>0, <2>4, <3>1, <3>2, <3>3, <4>1 DEF ClaimIsFresh, Fresh, Runs, HasTask
    <3>9. ClaimsAreApart'
      <4>1. \A k \in PassItems : k.attempt \in Nat /\ k.attempt <= lastAttempt
        BY <1>0 DEF TaskInv, ItemsAreOld, PassItems, ThreadsOK, Threads, ThreadState, Item
      <4> QED BY <3>1, <3>2, <3>4, <3>5, <4>1 DEF ClaimsAreApart
    <3>10. ReplacesUnaborted' /\ ForcedIsNotReplaced' /\ ForcedMustEnd' /\ ForcedIsSealed'
      BY <3>2 DEF TaskInv, ReplacesUnaborted, ForcedIsNotReplaced, ForcedMustEnd, ForcedIsSealed
    <3> QED BY <3>6, <3>7, <3>8, <3>9, <3>10 DEF TaskInv
  <2> QED BY SMTT(40), <2>1, <2>3, <2>4
<1> QED BY <1>1, <1>2

LEMMA EnteredMoves ==
  ASSUME NEW t, ThreadsOK(t)
  PROVE  /\ Entered(t)["loop"] = Thread(IF Stopping THEN "end" ELSE "begin")
         /\ \A u \in Threads \ {"loop"} : Entered(t)[u] = t[u]
BY DEF Entered, ThreadsOK, Threads

LEMMA TurnMoves ==
  ASSUME CInv, PassEnds \/ LoopRetries \/ LoopWakes
  PROVE  /\ \E pc \in {"asleep", "done", "begin", "end"} : threads'["loop"] = Thread(pc)
         /\ threads'["pass"] = threads["pass"] /\ threads'["start"] = threads["start"]
<1>1. ThreadsOK(threads)
  BY TypeParts DEF CInv
<1>2. \/ threads' = Entered(threads)
      \/ \E pc \in {"asleep", "done"} : threads' = [threads EXCEPT !["loop"] = Thread(pc)]
  BY DEF PassEnds, LoopRetries, LoopWakes
<1>3. CASE threads' = Entered(threads)
  BY <1>1, <1>3, EnteredMoves DEF Threads
<1>4. CASE \E pc \in {"asleep", "done"} : threads' = [threads EXCEPT !["loop"] = Thread(pc)]
  BY <1>1, <1>4 DEF ThreadsOK, Threads
<1> QED BY <1>2, <1>3, <1>4

LEMMA TurnKeepsTasks ==
  ASSUME CInv, CInv', TaskInv, PassEnds \/ LoopRetries \/ LoopWakes
  PROVE  TaskInv'
<1>1. LedgerUnchanged /\ UNCHANGED <<active, tasks>>
  BY DEF PassEnds, LoopRetries, LoopWakes
<1>2. LoopQuiet /\ PassQuiet
  BY TurnMoves DEF LoopQuiet, PassQuiet, PassItems, Thread
<1> QED BY <1>1, <1>2, NothingMoves, CalmStep, SameTasksKept DEF CInv

LEMMA LoopFailsMoves ==
  ASSUME ThreadsOK(threads), LoopFails
  PROVE  /\ threads'["loop"] = Thread("backoff")
         /\ threads'["pass"] = threads["pass"] /\ threads'["start"] = threads["start"]
BY DEF LoopFails, ThreadsOK, Threads

LEMMA PassFailsMoves ==
  ASSUME ThreadsOK(threads), PassFails
  PROVE  /\ threads'["pass"] = Thread("none")
         /\ threads'["start"].pc = (IF threads["start"].pc = "await" THEN "serving"
                                    ELSE threads["start"].pc)
         /\ threads'["loop"].pc = (IF threads["loop"].pc = "await" THEN "backoff"
                                   ELSE threads["loop"].pc)
         /\ threads'["loop"].item = threads["loop"].item
         /\ threads'["loop"].todo = threads["loop"].todo
         /\ threads'["loop"].progressed = threads["loop"].progressed
BY DEF PassFails, ThreadsOK, Threads, ThreadState

LEMMA StartFailsMoves ==
  ASSUME ThreadsOK(threads), StartFails
  PROVE  /\ threads["start"].pc \in {"down", "begin", "unready"}
         /\ threads'["start"] = Thread("failed")
         /\ threads'["loop"] = threads["loop"] /\ threads'["pass"] = threads["pass"]
BY DEF StartFails, UnreadyFails, ThreadsOK, Threads

LEMMA FailureKeepsTasks ==
  ASSUME CInv, CInv', TaskInv, CallFails
  PROVE  TaskInv'
<1>0. /\ ThreadsOK(threads) /\ LedgerUnchanged /\ UNCHANGED <<active, tasks>>
  BY TypeParts DEF CInv, CallFails
<1>2. LoopQuiet /\ PassQuiet
  <2>1. CASE LoopFails
    BY <1>0, <2>1, LoopFailsMoves DEF LoopQuiet, PassQuiet, PassItems, Thread
  <2>2. CASE PassFails
    BY <1>0, <2>2, PassFailsMoves, FreshPassQuiet DEF LoopQuiet
  <2>3. CASE ItemFails
    BY <1>0, <2>3, ReturnQuiet DEF ItemFails, ItemPcs
  <2>4. CASE StartFails
    BY <1>0, <2>4, StartFailsMoves DEF LoopQuiet, PassQuiet, PassItems
  <2> QED BY <2>1, <2>2, <2>3, <2>4 DEF CallFails
<1> QED BY <1>0, <1>2, NothingMoves, CalmStep, SameTasksKept DEF CInv

\* What start-up does to the threads.
LEMMA StartMoves ==
  ASSUME CInv, Start
  PROVE  \/ /\ threads["start"].pc = "down"
            /\ threads'["start"].pc = IF \E s \in Submissions : Unsettled(s) THEN "begin"
                                      ELSE "serving"
            /\ threads'["loop"] = threads["loop"] /\ threads'["pass"] = threads["pass"]
         \/ /\ threads["start"].pc = "ready"
            /\ threads'["start"].pc \in {"await", "serving"}
            /\ threads["loop"].pc = "off" =>
                 threads'["loop"].pc = (IF Stopping THEN "done" ELSE "begin")
            /\ threads["loop"].pc # "off" =>
                 \/ threads'["loop"].pc = threads["loop"].pc
                 \/ threads["loop"].pc = "await" /\ threads'["loop"].pc = "list"
            /\ threads["loop"].pc # "off" =>
                 /\ threads'["loop"].item = threads["loop"].item
                 /\ threads'["loop"].todo = threads["loop"].todo
                 /\ threads'["loop"].progressed = threads["loop"].progressed
            /\ \/ threads'["pass"] = threads["pass"]
               \/ ~Stopping /\ threads'["pass"] = Thread("begin")
<1>0. ThreadsOK(threads)
  BY TypeParts DEF CInv
<1>1. CASE threads["start"].pc = "down" /\ Goto("start", IF \E s \in Submissions : Unsettled(s)
                                                            THEN "begin" ELSE "serving")
  BY <1>0, <1>1 DEF Goto, ThreadsOK, Threads, ThreadState
<1>2. CASE /\ threads["start"].pc = "ready"
           /\ threads' = PassStarted(Ensured([threads EXCEPT !.start = Thread("await")]))
  <2> DEFINE t == [threads EXCEPT !["start"] = Thread("await")]
  <2>1. /\ ThreadsOK(t) /\ t["start"].pc = "await"
        /\ t["loop"] = threads["loop"] /\ t["pass"] = threads["pass"]
    <3>1. ThreadOK("start", Thread("await"))
      BY <1>0, FreshThread DEF PcsOf, StartPcs, ListPcs, ItemPcs, Threads
    <3> QED BY <1>0, <3>1, SetThread DEF ThreadsOK, Threads, Thread
  <2> DEFINE v == Ensured(t)
  <2>2. threads' = PassStarted(v)
    BY <1>2
  <2> HIDE DEF t
  <2>3. /\ ThreadsOK(v) /\ v["start"].pc = "await" /\ v["pass"] = threads["pass"]
        /\ threads["loop"].pc # "off" => v["loop"] = threads["loop"]
        /\ threads["loop"].pc = "off" => v["loop"].pc = IF Stopping THEN "done" ELSE "begin"
    BY <2>1, EnsuredIsOK, EnsuredMoves DEF Threads
  <2> HIDE DEF v
  <2>4. /\ threads'["start"].pc \in {"await", "serving"}
        /\ threads'["loop"].item = v["loop"].item
        /\ threads'["loop"].todo = v["loop"].todo
        /\ threads'["loop"].progressed = v["loop"].progressed
        /\ \/ threads'["loop"].pc = v["loop"].pc
           \/ v["loop"].pc = "await" /\ threads'["loop"].pc = "list"
        /\ \/ threads'["pass"] = threads["pass"]
           \/ ~Stopping /\ threads'["pass"] = Thread("begin")
    BY <2>2, <2>3, PassStartedMoves DEF Threads
  <2> QED BY <1>2, <2>3, <2>4
<1> QED BY <1>1, <1>2 DEF Start

LEMMA StartKeepsTasks ==
  ASSUME CInv, CInv', TaskInv, Start
  PROVE  TaskInv'
<1>1. LedgerUnchanged /\ UNCHANGED <<active, tasks>>
  BY DEF Start
<1>2. LoopQuiet
  BY StartMoves DEF LoopQuiet
<1>3. PassQuiet
  BY StartMoves, FreshPassQuiet DEF PassQuiet, PassItems
<1> QED BY <1>1, <1>2, <1>3, NothingMoves, CalmStep, SameTasksKept DEF CInv

LEMMA ShutdownKeepsTasks ==
  ASSUME CInv, CInv', TaskInv, Shutdown \/ ShutdownStep
  PROVE  TaskInv'
<1>1. LedgerUnchanged /\ threads' = threads /\ active' = active
  BY DEF Shutdown, ShutdownStep, LoopEnded, Sweep, Close
<1>2. TasksKept
  BY <1>1, SignalledKept, SameTasksKept DEF Shutdown, ShutdownStep, LoopEnded, Sweep, Close
<1> QED BY <1>1, <1>2, NothingMoves, CalmStep, SameThreadsQuiet DEF CInv

\* A process that did nothing yet.
FreshThreads ==
  /\ threads["loop"].pc = "off" /\ threads["pass"] = Thread("none")
  /\ \A s \in Submissions : active[s] = NoAttempt
  /\ \A a \in Attempts : ~HasTask(a)

LEMMA FreshKeepsTasks == FreshThreads => TaskInv
BY DEF FreshThreads, TaskInv, TasksHaveRows, TrackedTasksExist, ItemsAreOld, TakenUpIsIdle,
       ReplacesUnaborted, ClaimIsFresh, ClaimsAreApart, ForcedMustEnd, ForcedIsNotReplaced,
       ForcedIsSealed, PassItems, Thread, HasTask

LEMMA InitTaskInv == CoordinatorInit => TaskInv
<1>1. CoordinatorInit => FreshThreads
  BY DEF CoordinatorInit, FreshThreads, Thread, HasTask, NoTask
<1> QED BY <1>1, FreshKeepsTasks

LEMMA ExitKeepsTasks ==
  ASSUME Exit
  PROVE  TaskInv'
<1>1. FreshThreads'
  BY DEF Exit, FreshProcess, FreshThreads, Thread, HasTask, NoTask
<1> QED BY <1>1, FreshKeepsTasks, PTL

LEMMA NextTaskInv == CInv /\ CInv' /\ TaskInv /\ [CoordinatorNext]_cvars => TaskInv'
<1> SUFFICES ASSUME CInv, CInv', TaskInv, [CoordinatorNext]_cvars PROVE TaskInv'
  OBVIOUS
<1>1. CASE UNCHANGED cvars
  BY <1>1, NothingMoves, CalmStep, SameThreadsQuiet, SameTasksKept
  DEF cvars, CInv, LedgerUnchanged, vars
<1>2. \A th \in Threads : ListUnready(th) \/ ReconcileUnready(th) => TaskInv'
  BY UnreadyKeepsTasks
<1>3. CASE ProcessStep
  <2>1. StartStep => TaskInv'
    BY <1>2, StartKeepsTasks DEF StartStep, Threads
  <2>2. LoopStep => TaskInv'
    BY <1>2, EnforceKeepsTasks, ForceKeepsTasks, ClaimKeepsTasks, SpawnKeepsTasks, TurnKeepsTasks
    DEF LoopStep, Threads
  <2>3. PassStep => TaskInv'
    BY <1>2, PassListKeepsTasks, DecideKeepsTasks, FinalizeExpiredKeepsTasks, SpawnKeepsTasks
    DEF PassStep, Threads
  <2> QED BY <1>3, <2>1, <2>2, <2>3 DEF ProcessStep
<1>4. CASE Outside
  BY <1>4, OutsideKeepsTasks
<1>5. CASE \E a \in Attempts : TaskStep(a)
  BY <1>5, TaskStepKeepsTasks
<1>6. CASE CallFails
  BY <1>6, FailureKeepsTasks
<1>7. CASE Shutdown \/ ShutdownStep
  BY <1>7, ShutdownKeepsTasks
<1>8. CASE Exit
  BY <1>8, ExitKeepsTasks
<1> QED BY <1>1, <1>3, <1>4, <1>5, <1>6, <1>7, <1>8 DEF CoordinatorNext

LEMMA SpecTaskInv == CoordinatorSpec => [](CInv /\ TaskInv)
<1>1. CoordinatorInit => CInv /\ TaskInv
  BY InitCInv, InitTaskInv
<1>2. CInv /\ TaskInv /\ [CoordinatorNext]_cvars => (CInv /\ TaskInv)'
  BY NextCInv, NextTaskInv
<1> QED BY <1>1, <1>2, PTL DEF CoordinatorSpec

-----------------------------------------------------------------------------
(* Why nothing starts after shutdown *)

\* Threads that are off, done or not there, and what gets them going.
IdleStays ==
  /\ threads["loop"].pc = "off" =>
       \/ threads'["loop"].pc = "off"
       \/ threads'["loop"].pc = IF Stopping THEN "done" ELSE "begin"
  /\ threads["loop"].pc = "done" => threads'["loop"].pc = "done"
  /\ threads["pass"].pc = "none" => threads'["pass"].pc = "none" \/ ~Stopping
  /\ Up => Up'

LEMMA SameThreadsIdle == threads' = threads => IdleStays
BY DEF IdleStays, Up

LEMMA ThreadPcs ==
  ASSUME ThreadsOK(threads)
  PROVE  /\ threads["start"].pc \in StartPcs
         /\ threads["loop"].pc \in LoopPcs
         /\ threads["pass"].pc \in PassPcs
BY DEF ThreadsOK, ThreadOK, Threads, PcsOf

\* The thread that steps was under way, the others follow.
LEMMA BusyIdle ==
  ASSUME NEW th \in {"loop", "pass"},
         threads[th].pc \notin {"off", "done", "none"},
         \A u \in Threads \ {th} : Follows(u)
  PROVE  IdleStays
BY DEF IdleStays, Follows, Threads, Up

LEMMA BusyStartIdle ==
  ASSUME ~Up, \A u \in Threads \ {"start"} : Follows(u)
  PROVE  IdleStays
BY DEF IdleStays, Follows, Threads

LEMMA WorkIdle ==
  ASSUME ThreadsOK(threads), NEW th, NEW pc, <<th, pc>> \in Lists, NEW T \in SUBSET Item,
         threads[th].pc \notin {"off", "done", "none", "serving", "failed"}, Work(th, pc, T)
  PROVE  IdleStays
<1>1. \A u \in Threads \ {th} : Follows(u)
  BY WorkMoves
<1>2. th \in Threads
  BY DEF Lists, Threads
<1> QED BY <1>1, <1>2, BusyIdle, BusyStartIdle DEF Threads, Up

LEMMA ReturnIdle ==
  ASSUME ThreadsOK(threads), NEW th \in {"loop", "pass"}, threads[th].pc \in ItemPcs, Return(th)
  PROVE  IdleStays
<1>1. threads[th].pc \notin {"off", "done", "none"}
  BY DEF ItemPcs
<1> QED BY <1>1, ReturnMoves, BusyIdle

LEMMA OneThreadIdle ==
  ASSUME ThreadsOK(threads), NEW th \in {"loop", "pass"}, NEW r,
         threads[th].pc \notin {"off", "done", "none"},
         threads' = [threads EXCEPT ![th] = r]
  PROVE  IdleStays
BY DEF IdleStays, ThreadsOK, Threads, Up

LEMMA AbortEnsures ==
  ASSUME CInv, NEW k \in Sessions, AbortInstance(k)
  PROVE  /\ threads'["start"] = threads["start"]
         /\ threads'["loop"] = Ensured(threads)["loop"]
         /\ threads'["pass"] = threads["pass"] \/ ~Stopping
<1> DEFINE t == Ensured(threads)
<1>1. threads' = t \/ (~Stopping /\ threads' = [t EXCEPT !["pass"] = Thread("begin")])
  BY DEF AbortInstance
<1>2. ThreadsOK(threads) /\ ThreadsOK(t)
  BY TypeParts, EnsuredIsOK DEF CInv
<1>3. t["start"] = threads["start"] /\ t["pass"] = threads["pass"]
  BY <1>2, EnsuredMoves DEF Threads
<1>4. t \in [Threads -> ThreadState]
  BY <1>2 DEF ThreadsOK
<1> HIDE DEF t
<1>5. threads'["start"] = t["start"] /\ threads'["loop"] = t["loop"]
      /\ (threads'["pass"] = t["pass"] \/ ~Stopping)
  BY <1>1, <1>4 DEF Threads
<1> QED BY <1>1, <1>3, <1>5 DEF t

LEMMA OutsideIdle ==
  ASSUME CInv, Outside
  PROVE  IdleStays
<1>0. ThreadsOK(threads) /\ ThreadsOK(Ensured(threads))
  BY TypeParts, EnsuredIsOK DEF CInv
<1>1. ASSUME NEW s \in Submissions, EndAdmission(s) PROVE IdleStays
  <2>1. threads' = Ensured(threads)
    BY <1>1 DEF EndAdmission, EnsureAndWake
  <2> QED BY <1>0, <2>1, EnsuredMoves DEF IdleStays, Threads, Up
<1>2. ASSUME NEW k \in Sessions, AbortInstance(k) PROVE IdleStays
  BY <1>0, <1>2, AbortEnsures, EnsuredMoves DEF IdleStays, Up
<1>3. ASSUME ~ \E s \in Submissions : EndAdmission(s),
             ~ \E k \in Sessions : AbortInstance(k)
      PROVE  threads' = threads
  BY <1>3 DEF Outside, BeginAdmission, AdmissionRefused, AdmitRow, Materialize, LeaseScanTimer,
              Heartbeat, LeaseRunsOut, process
<1> QED BY <1>1, <1>2, <1>3, SameThreadsIdle

LEMMA UnreadyWork ==
  ASSUME CInv, NEW th \in Threads, ListUnready(th) \/ ReconcileUnready(th)
  PROVE  /\ \E T \in SUBSET Item : Work(th, "unready", T)
         /\ threads[th].pc \in {"begin", "unready"}
<1>0. ThreadsOK(threads)
  BY TypeParts DEF CInv
<1>1. CASE ListUnready(th)
  <2>1. Items(Unready) \in SUBSET Item
    BY ItemsAreItems DEF Unready, CInv, Inv
  <2> QED BY <1>1, <2>1 DEF ListUnready
<1>2. CASE ReconcileUnready(th)
  <2>1. PICK item \in First(threads[th].todo) : Work(th, "unready", threads[th].todo \ {item})
    BY <1>2 DEF ReconcileUnready
  <2> QED BY <1>0, <1>2, <2>1, FirstIsItem DEF ReconcileUnready
<1> QED BY <1>1, <1>2

LEMMA UnreadyIdle ==
  ASSUME CInv, NEW th \in Threads, ListUnready(th) \/ ReconcileUnready(th)
  PROVE  IdleStays
<1>1. ThreadsOK(threads) /\ <<th, "unready">> \in Lists
  BY TypeParts DEF CInv, Lists, Threads
<1> QED BY <1>1, UnreadyWork, WorkIdle

LEMMA PassStepFollows ==
  ASSUME CInv, ListPending \/ FinalizeOwed \/ ListExpired \/ NextExpired \/ DecideExpired
               \/ FinalizeExpired \/ SpawnReplacement
  PROVE  \A u \in Threads \ {"pass"} : Follows(u)
<1>0. ThreadsOK(threads) /\ "pass" \in Threads
  BY TypeParts DEF CInv, Threads
<1>2. CASE ListPending \/ FinalizeOwed \/ ListExpired \/ NextExpired
  <2>1. \E r : ThreadOK("pass", r) /\ threads' = Resumed([threads EXCEPT !["pass"] = r])
    <3>1. /\ <<"pass", "owed">> \in Lists /\ <<"pass", "expired">> \in Lists
      BY DEF Lists
    <3>2. \A pc \in {"owed", "expired"}, T \in SUBSET Item :
            Work("pass", pc, T) =>
              \E r : ThreadOK("pass", r) /\ threads' = Resumed([threads EXCEPT !["pass"] = r])
      BY <1>0, <3>1, AtIsOK DEF Work
    <3>3. CASE ListPending
      <4>1. Items({s \in Submissions : rows[s].status = "terminalizing"}) \in SUBSET Item
        BY ItemsAreItems DEF CInv, Inv
      <4> QED BY <3>2, <3>3, <4>1 DEF ListPending
    <3>4. CASE ListExpired
      <4>1. Items({s \in Submissions : rows[s].status = "running" /\ rows[s].lease = "lapsed"})
              \in SUBSET Item
        BY ItemsAreItems DEF CInv, Inv
      <4> QED BY <3>2, <3>4, <4>1 DEF ListExpired
    <3>5. CASE FinalizeOwed
      <4>1. PICK item \in First(threads["pass"].todo) :
              Work("pass", "owed", threads["pass"].todo \ {item})
        BY <3>5 DEF FinalizeOwed
      <4> QED BY <1>0, <3>2, <4>1, FirstIsItem
    <3>6. CASE NextExpired
      <4>1. PICK item \in First(threads["pass"].todo) :
              \E r \in {Thread("none"), At("pass", "expired", threads["pass"].todo \ {item}),
                        [Thread("decide") EXCEPT !.todo = threads["pass"].todo \ {item},
                                                 !.item = item]} :
                threads' = Resumed([threads EXCEPT !["pass"] = r])
        BY <3>6 DEF NextExpired
      <4>2. item \in Item /\ threads["pass"].todo \ {item} \in SUBSET Item
        BY <1>0, FirstIsItem
      <4>3. ThreadOK("pass", Thread("none"))
        BY <1>0, FreshThread DEF PcsOf, PassPcs, ListPcs, ItemPcs
      <4>4. ThreadOK("pass", At("pass", "expired", threads["pass"].todo \ {item}))
        BY <1>0, <3>1, <4>2, AtIsOK
      <4>5. ThreadOK("pass", [Thread("decide") EXCEPT !.todo = threads["pass"].todo \ {item},
                                                    !.item = item])
        BY <4>2, ItemAssumption
        DEF ThreadOK, Thread, ThreadState, PcsOf, PassPcs, ListPcs, ItemPcs
      <4> QED BY <4>1, <4>3, <4>4, <4>5
    <3> QED BY <1>2, <3>3, <3>4, <3>5, <3>6
  <2>2. PICK r : ThreadOK("pass", r) /\ threads' = Resumed([threads EXCEPT !["pass"] = r])
    BY <2>1
  <2> DEFINE t == [threads EXCEPT !["pass"] = r]
  <2>3. ThreadsOK(t) /\ \A u \in Threads \ {"pass"} : t[u] = threads[u]
    BY <1>0, <2>2, SetThread DEF ThreadsOK
  <2>5. threads' = Resumed(t)
    BY <2>2
  <2> HIDE DEF t
  <2> QED BY <2>3, <2>5, ResumedFollows DEF Follows
<1>3. CASE DecideExpired \/ FinalizeExpired \/ SpawnReplacement
  <2>1. threads["pass"].pc \in ItemPcs
    BY <1>3 DEF ItemPcs, DecideExpired, FinalizeExpired, SpawnReplacement
  <2>2. Return("pass") \/ \E r : threads' = [threads EXCEPT !["pass"] = r]
    <3>1. CASE FinalizeExpired \/ SpawnReplacement
      BY <3>1 DEF FinalizeExpired, SpawnReplacement
    <3>2. CASE DecideExpired
      BY <1>0, <3>2 DEF DecideExpired, ReserveItem, Goto, ThreadsOK
    <3> QED BY <1>3, <3>1, <3>2
  <2>3. ASSUME NEW r, threads' = [threads EXCEPT !["pass"] = r]
        PROVE  \A u \in Threads \ {"pass"} : Follows(u)
    BY <1>0, <2>3 DEF Follows, ThreadsOK
  <2> QED BY <1>0, <2>1, <2>2, <2>3, ReturnMoves
<1> QED BY <1>2, <1>3

LEMMA PassStepIdle ==
  ASSUME CInv, ListPending \/ FinalizeOwed \/ ListExpired \/ NextExpired \/ DecideExpired
               \/ FinalizeExpired \/ SpawnReplacement
  PROVE  IdleStays
<1>1. threads["pass"].pc \notin {"off", "done", "none"}
  BY DEF ListPending, FinalizeOwed, ListExpired, NextExpired, DecideExpired, FinalizeExpired,
         SpawnReplacement
<1> QED BY <1>1, PassStepFollows, BusyIdle

LEMMA EnforceWork ==
  ASSUME CInv, DueScan \/ Enforce
  PROVE  \/ \E T \in SUBSET Item : Work("loop", "enforce", T)
         \/ \E pc \in {"list", "force"} :
              /\ threads'["loop"].pc = pc
              /\ \A u \in Threads \ {"loop"} : threads'[u] = threads[u]
<1>0. ThreadsOK(threads) /\ "loop" \in Threads
  BY TypeParts DEF CInv, Threads
<1>1. CASE DueScan
  <2>1. CASE Goto("loop", "list")
    BY <1>0, <2>1 DEF Goto, ThreadsOK, Threads, ThreadState
  <2> DEFINE T == {[ItemOf(s) EXCEPT !.attempt = active[s]] :
                     s \in {t \in Submissions : active[t] # NoAttempt}}
  <2>2. CASE Work("loop", "enforce", T)
    <3>1. \A s \in Submissions : active[s] \in Nat
      BY TypeParts, DurabilityAssumption DEF CInv, OthersOK, Attempts, NoAttempt
    <3>2. T \in SUBSET Item
      BY <3>1 DEF ItemOf, Item, CInv, Inv, TypeOK, Row
    <3> QED BY <2>2, <3>2
  <2> QED BY <1>1, <2>1, <2>2 DEF DueScan
<1>2. CASE Enforce
  <2>1. PICK item \in First(threads["loop"].todo) :
          \/ Work("loop", "enforce", threads["loop"].todo \ {item})
          \/ threads' = [threads EXCEPT !.loop.pc = "force",
                           !.loop.todo = threads["loop"].todo \ {item},
                           !.loop.item = ItemOf(item.sub)]
    BY <1>2 DEF Enforce
  <2>2. threads["loop"].todo \ {item} \in SUBSET Item
    BY <1>0, FirstIsItem
  <2>3. CASE threads' = [threads EXCEPT !.loop.pc = "force",
                           !.loop.todo = threads["loop"].todo \ {item},
                           !.loop.item = ItemOf(item.sub)]
    BY <1>0, <2>3 DEF ThreadsOK, Threads, ThreadState
  <2> QED BY <2>1, <2>2, <2>3
<1> QED BY <1>1, <1>2

LEMMA ScanMoves ==
  ASSUME CInv, StartScan
  PROVE  /\ threads["loop"].pc \in {"enforce", "enforced"}
         /\ threads'["loop"].pc \in {"await", "list"}
         /\ threads'["start"].pc = threads["start"].pc
              \/ (threads["start"].pc = "await" /\ threads'["start"].pc = "serving")
         /\ threads'["pass"] = threads["pass"] \/ ~Stopping
<1>0. ThreadsOK(threads)
  BY TypeParts DEF CInv
<1> DEFINE t == [threads EXCEPT !["loop"] = Thread("await")]
<1>1. /\ ThreadsOK(t) /\ t["loop"].pc = "await" /\ t["pass"] = threads["pass"]
      /\ t["start"] = threads["start"]
  <2>1. ThreadOK("loop", Thread("await"))
    BY <1>0, FreshThread DEF PcsOf, LoopPcs, ListPcs, ItemPcs, Threads
  <2> QED BY <1>0, <2>1, SetThread DEF ThreadsOK, Threads, Thread
<1>2. threads' = PassStarted(t) /\ threads["loop"].pc \in {"enforce", "enforced"}
  BY DEF StartScan
<1> HIDE DEF t
<1> QED BY <1>1, <1>2, PassStartedMoves DEF Threads

\* A loop that ends a pass, backs off or wakes during shutdown.
LEMMA TurnPcs ==
  ASSUME CInv, PassEnds \/ LoopRetries \/ LoopWakes
  PROVE  /\ threads["loop"].pc \in {"end", "backoff", "asleep"}
         /\ threads'["loop"].pc \in {"asleep", "done", "begin"}
         /\ threads'["loop"].pc = "begin" => ~Stopping
         /\ threads'["loop"].pc = "asleep" =>
              threads["loop"].pc = "end" /\ ~wakes.requested
                /\ (~Stopping => ~threads["loop"].progressed)
<1>0. ThreadsOK(threads)
  BY TypeParts DEF CInv
<1>1. CASE ~Stopping /\ threads' = Entered(threads)
  BY <1>0, <1>1, EnteredMoves DEF Thread, PassEnds, LoopRetries, LoopWakes
<1>2. CASE \E pc \in {"asleep", "done"} :
             /\ threads' = [threads EXCEPT !["loop"] = Thread(pc)]
             /\ pc = "asleep" => /\ threads["loop"].pc = "end" /\ ~wakes.requested
                                 /\ ~Stopping => ~threads["loop"].progressed
  BY <1>0, <1>2 DEF ThreadsOK, Threads, Thread, PassEnds, LoopRetries, LoopWakes
<1> QED BY <1>1, <1>2 DEF PassEnds, LoopRetries, LoopWakes

LEMMA ClaimWork ==
  ASSUME CInv, ClaimListed
  PROVE  \E i \in First(threads["loop"].todo) :
           /\ i \in Item /\ i.sub \in Submissions
           /\ threads["loop"].todo \ {i} \in SUBSET Item
           /\ \/ /\ \E o \in Owners : Claim(i.sub, o)
                 /\ threads'["loop"].pc = "spawn" /\ threads'["loop"].progressed
                 /\ \A u \in Threads \ {"loop"} : threads'[u] = threads[u]
              \/ /\ active[i.sub] # NoAttempt \/ ~Runnable(i.sub) \/ lastAttempt = MaxAttemptIds
                 /\ Work("loop", "claims", threads["loop"].todo \ {i})
                 /\ LedgerUnchanged
<1>0. ThreadsOK(threads) /\ "loop" \in Threads
  BY TypeParts DEF CInv, Threads
<1>1. PICK i \in First(threads["loop"].todo) :
        \/ /\ \E o \in Owners : Claim(i.sub, o)
           /\ threads' = [threads EXCEPT !.loop.pc = "spawn",
                            !.loop.todo = threads["loop"].todo \ {i},
                            !.loop.item = [i EXCEPT !.attempt = lastAttempt + 1],
                            !.loop.progressed = TRUE]
        \/ /\ active[i.sub] # NoAttempt \/ ~Runnable(i.sub) \/ lastAttempt = MaxAttemptIds
           /\ Work("loop", "claims", threads["loop"].todo \ {i})
           /\ LedgerUnchanged
  BY DEF ClaimListed
<1>2. i \in Item /\ i.sub \in Submissions /\ threads["loop"].todo \ {i} \in SUBSET Item
  BY <1>0, FirstIsItem DEF Item
<1>3. CASE threads' = [threads EXCEPT !.loop.pc = "spawn",
                            !.loop.todo = threads["loop"].todo \ {i},
                            !.loop.item = [i EXCEPT !.attempt = lastAttempt + 1],
                            !.loop.progressed = TRUE]
  <2>1. /\ threads'["loop"].pc = "spawn" /\ threads'["loop"].progressed
        /\ \A u \in Threads \ {"loop"} : threads'[u] = threads[u]
    BY ZenonT(60), <1>0, <1>3 DEF ThreadsOK, Threads, ThreadState
  <2> QED BY <1>1, <1>2, <2>1, <1>3
<1> QED BY <1>1, <1>2, <1>3

LEMMA LoopStepIdle ==
  ASSUME CInv, DueScan \/ Enforce \/ StartScan \/ ForceSettle \/ ListRunnable \/ ClaimListed
               \/ SpawnClaimed \/ PassEnds \/ LoopRetries \/ LoopWakes
  PROVE  IdleStays
<1>0. /\ ThreadsOK(threads) /\ "loop" \in Threads
      /\ <<"loop", "enforce">> \in Lists /\ <<"loop", "claims">> \in Lists
  BY SMTT(40), TypeParts DEF CInv, Threads, Lists
<1>1. threads["loop"].pc \notin {"off", "done", "none"}
  BY DEF DueScan, Enforce, StartScan, ForceSettle, ListRunnable, ClaimListed, SpawnClaimed,
         PassEnds, LoopRetries, LoopWakes
<1>2. (\A u \in Threads \ {"loop"} : threads'[u] = threads[u]) => IdleStays
  BY <1>1 DEF IdleStays, Threads, Up
<1>3. \A pc \in {"enforce", "claims"}, T \in SUBSET Item : Work("loop", pc, T) => IdleStays
  BY <1>0, <1>1, WorkMoves, BusyIdle
<1>4. CASE DueScan \/ Enforce
  BY <1>2, <1>3, <1>4, EnforceWork
<1>5. CASE StartScan
  BY <1>5, ScanMoves DEF IdleStays, Up
<1>6. CASE ForceSettle
  <2>1. threads["loop"].pc \in ItemPcs
    BY <1>6 DEF ForceSettle, ItemPcs
  <2>2. Return("loop") \/ \E r : threads' = [threads EXCEPT !["loop"] = r]
    BY <1>0, <1>6 DEF ForceSettle, ReserveItem, Goto, ThreadsOK
  <2> QED BY <1>0, <1>1, <2>1, <2>2, ReturnIdle, OneThreadIdle
<1>7. CASE ListRunnable
  <2>1. Items({s \in Submissions : Runnable(s)}) \in SUBSET Item
    BY ItemsAreItems DEF CInv, Inv
  <2> QED BY <1>3, <1>7, <2>1 DEF ListRunnable
<1>8. CASE ClaimListed
  BY <1>2, <1>3, <1>8, ClaimWork
<1>9. CASE SpawnClaimed
  BY <1>0, <1>9, ReturnIdle DEF SpawnClaimed, ItemPcs
<1>10. CASE PassEnds \/ LoopRetries \/ LoopWakes
  BY <1>2, <1>10, TurnMoves DEF Threads
<1> QED BY <1>4, <1>5, <1>6, <1>7, <1>8, <1>9, <1>10

LEMMA FailureIdle ==
  ASSUME CInv, CallFails
  PROVE  IdleStays
<1>0. ThreadsOK(threads)
  BY TypeParts DEF CInv
<1>1. CASE LoopFails
  BY <1>0, <1>1, LoopFailsMoves DEF IdleStays, LoopFails, UnreadyFails, Thread, Up
<1>2. CASE PassFails
  BY <1>0, <1>2, PassFailsMoves DEF IdleStays, PassFails, Thread, Up
<1>3. CASE ItemFails
  BY <1>0, <1>3, ReturnIdle DEF ItemFails, ItemPcs
<1>4. CASE StartFails
  BY <1>0, <1>4, StartFailsMoves DEF IdleStays, Thread, Up
<1> QED BY <1>1, <1>2, <1>3, <1>4 DEF CallFails

LEMMA StepKeepsIdle ==
  ASSUME CInv, [CoordinatorNext]_cvars, ~Exit
  PROVE  IdleStays
<1>1. CASE UNCHANGED cvars
  BY <1>1, SameThreadsIdle DEF cvars
<1>2. \A th \in Threads : ListUnready(th) \/ ReconcileUnready(th) => IdleStays
  BY UnreadyIdle
<1>3. CASE ProcessStep
  <2>1. Start => IdleStays
    BY StartMoves, TypeParts, ThreadPcs DEF IdleStays, CInv, Up
  <2> QED BY <1>2, <1>3, <2>1, LoopStepIdle, PassStepIdle
          DEF ProcessStep, StartStep, LoopStep, PassStep, Threads
<1>4. CASE Outside
  BY <1>4, OutsideIdle
<1>5. CASE \E a \in Attempts : TaskStep(a)
  BY <1>5, SameThreadsIdle DEF TaskStep, TaskSettles, TaskFinalizes, TaskStops, TaskEnds
<1>6. CASE CallFails
  BY <1>6, FailureIdle
<1>7. CASE Shutdown \/ ShutdownStep
  BY <1>7, SameThreadsIdle DEF Shutdown, ShutdownStep, LoopEnded, Sweep, Close
<1> QED BY <1>1, <1>3, <1>4, <1>5, <1>6, <1>7 DEF CoordinatorNext

LEMMA StepMovesLedger ==
  ASSUME CInv, [CoordinatorNext]_cvars
  PROVE  LedgerMoves
<1> USE DEF CInv
<1>0. ThreadsOK(threads) /\ OthersOK /\ (LedgerUnchanged => LedgerMoves)
  BY TypeParts, NothingMoves
<1>1. CASE UNCHANGED cvars
  BY <1>0, <1>1 DEF cvars, LedgerUnchanged, vars
<1>2. ASSUME NEW th \in Threads, ListUnready(th) \/ ReconcileUnready(th) PROVE LedgerMoves
  <2>1. CASE ListUnready(th)
    BY <1>0, <2>1 DEF ListUnready
  <2>2. CASE ReconcileUnready(th)
    <3>1. PICK item \in First(threads[th].todo) :
            \/ SettleQueued(item.sub, "aborted") \/ SettleQueued(item.sub, "failed")
            \/ MarkCanonicalReady(item.sub) \/ LedgerUnchanged
      BY <2>2 DEF ReconcileUnready
    <3>2. item.sub \in Submissions
      BY <1>0, FirstIsItem DEF Item
    <3> QED BY <1>0, <3>1, <3>2, SettleQueuedMoves, AdmissionMoves
  <2> QED BY <1>2, <2>1, <2>2
<1>3. CASE ProcessStep
  <2>1. CASE FinalizeOwed
    <3>1. PICK item \in First(threads["pass"].todo) :
            FinalizeSettlement(item.sub, item.attempt) \/ LedgerUnchanged
      BY <2>1 DEF FinalizeOwed
    <3>2. item.sub \in Submissions
      BY <1>0, FirstIsItem DEF Item, Threads
    <3> QED BY <1>0, <3>1, <3>2, FinalizeMoves
  <2>2. CASE DecideExpired \/ FinalizeExpired \/ ForceSettle
    <3>1. PICK th \in {"loop", "pass"} :
            /\ threads[th].pc \in ItemPcs
            /\ \/ ReserveItem(th) \/ FinalizeItem(th)
               \/ Requeue(threads[th].item.sub, threads[th].item.attempt)
               \/ \E o \in Owners : ReplaceAttempt(threads[th].item.sub, threads[th].item.attempt, o)
      BY <2>2 DEF DecideExpired, FinalizeExpired, ForceSettle, ItemPcs
    <3>2. threads[th].item.sub \in Submissions
      BY <3>1, HeldByThread
    <3> QED BY <1>0, <3>1, <3>2, ReserveItemMoves, FinalizeMoves, RequeueMoves, ReplaceMoves
            DEF FinalizeItem
  <2>3. CASE ClaimListed
    BY <1>0, <2>3, ClaimWork, ClaimMoves
  <2>4. CASE \/ Start \/ DueScan \/ Enforce \/ StartScan \/ ListRunnable \/ SpawnClaimed \/ PassEnds
             \/ LoopRetries \/ LoopWakes \/ ListPending \/ ListExpired \/ NextExpired
             \/ SpawnReplacement
    BY <1>0, <2>4 DEF Start, DueScan, Enforce, StartScan, ListRunnable, SpawnClaimed, PassEnds,
       LoopRetries, LoopWakes, ListPending, ListExpired, NextExpired, SpawnReplacement
  <2> QED BY <1>2, <1>3, <2>1, <2>2, <2>3, <2>4
          DEF ProcessStep, StartStep, LoopStep, PassStep, Threads
<1>4. CASE Outside
  <2>1. ASSUME NEW s \in Submissions,
               \/ BeginAdmission(s) \/ AdmissionRefused(s) \/ AdmitRow(s)
               \/ Materialize(s) \/ EndAdmission(s) \/ LeaseRunsOut(s)
        PROVE  LedgerMoves
    BY <1>0, <2>1, AdmissionMoves, LapseMoves
    DEF BeginAdmission, AdmissionRefused, AdmitRow, Materialize, EndAdmission, LeaseRunsOut
  <2>2. ASSUME NEW k \in Sessions, AbortInstance(k) PROVE LedgerMoves
    BY <2>2, AbortMoves DEF AbortInstance
  <2> QED BY <1>0, <1>4, <2>1, <2>2, HeartbeatMoves, TickMoves DEF Outside, LeaseScanTimer
<1>5. ASSUME NEW a \in Attempts, TaskStep(a) PROVE LedgerMoves
  <2>1. tasks[a].pc # "none" => tasks[a].sub \in Submissions
    BY <1>0 DEF OthersOK, TaskState
  <2>2. \/ LedgerUnchanged
        \/ /\ tasks[a].pc # "none"
           /\ \/ \E outcome \in Outcomes : ReserveSettlement(tasks[a].sub, a, outcome)
              \/ FinalizeSettlement(tasks[a].sub, a)
    BY <1>5 DEF TaskStep, TaskSettles, TaskFinalizes, TaskStops, TaskEnds, Running
  <2> QED BY <1>0, <2>1, <2>2, ReserveMoves, FinalizeMoves
<1>6. CASE CallFails \/ Shutdown \/ ShutdownStep \/ Exit
  BY <1>0, <1>6 DEF CallFails, Shutdown, ShutdownStep, LoopEnded, Sweep, Close, Exit
<1> QED BY <1>1, <1>3, <1>4, <1>5, <1>6 DEF CoordinatorNext

\* A task that runs was running, unless a thread was about to start it.
TasksOnlyEnd ==
  \A a \in Attempts :
    tasks'[a].pc = "running" =>
      /\ tasks[a].pc = "running" /\ tasks'[a].sub = tasks[a].sub
      /\ tasks[a].signal # "none" => tasks'[a].signal # "none"

LEMMA StepOnlyEndsTasks ==
  ASSUME CInv, [CoordinatorNext]_cvars, ~Exit,
         threads["loop"].pc # "spawn", threads["pass"].pc # "spawn"
  PROVE  TasksOnlyEnd
<1>0. tasks \in [Attempts -> TaskState]
  BY TypeParts DEF CInv, OthersOK
<1>1. CASE tasks' = tasks
  BY <1>1 DEF TasksOnlyEnd
<1>2. ASSUME NEW S, NEW signal \in {"abort", "shutdown"}, Signalled(S, signal)
      PROVE  TasksOnlyEnd
  BY <1>0, <1>2 DEF Signalled, TasksOnlyEnd, TaskState
<1>3. ASSUME NEW a \in Attempts, TaskStep(a) PROVE TasksOnlyEnd
  <2>1. \/ tasks' = [tasks EXCEPT ![a].pc = "settling"]
        \/ tasks' = [tasks EXCEPT ![a].pc = "ending"]
        \/ tasks' = [tasks EXCEPT ![a] = NoTask]
    BY <1>3 DEF TaskStep, TaskSettles, TaskFinalizes, TaskStops, TaskEnds
  <2> QED BY <1>0, <2>1 DEF TasksOnlyEnd, TaskState, NoTask
<1>4. CASE Enforce
  <2>1. \E b : tasks' = tasks \/ tasks' = [tasks EXCEPT ![b].signal = "abort"]
    BY <1>4 DEF Enforce
  <2> QED BY <1>0, <2>1 DEF TasksOnlyEnd, TaskState
<1>5. CASE Outside
  <2>1. (\E k \in Sessions : AbortInstance(k)) => TasksOnlyEnd
    BY <1>2 DEF AbortInstance
  <2>2. (~ \E k \in Sessions : AbortInstance(k)) => tasks' = tasks
    BY <1>5 DEF Outside, BeginAdmission, AdmissionRefused, AdmitRow, Materialize, EndAdmission,
                LeaseScanTimer, Heartbeat, LeaseRunsOut, process
  <2> QED BY <1>1, <2>1, <2>2
<1>6. CASE ProcessStep /\ ~Enforce
  <2>1. tasks' = tasks
    BY <1>6 DEF ProcessStep, StartStep, LoopStep, PassStep, Start, ListUnready, ReconcileUnready,
       DueScan, StartScan, ForceSettle, ListRunnable, ClaimListed, SpawnClaimed, PassEnds,
       LoopRetries, LoopWakes, ListPending, FinalizeOwed, ListExpired, NextExpired,
       DecideExpired, FinalizeExpired, SpawnReplacement
  <2> QED BY SMTT(40), <1>1, <2>1
<1>7. CASE UNCHANGED cvars \/ CallFails
  BY <1>1, <1>7 DEF cvars, CallFails
<1>8. CASE Shutdown \/ ShutdownStep
  BY <1>1, <1>2, <1>8 DEF Shutdown, ShutdownStep, LoopEnded, Sweep, Close
<1> QED BY <1>3, <1>4, <1>5, <1>6, <1>7, <1>8 DEF CoordinatorNext

\* How far shutdown is, step by step.
LEMMA ShutdownMoves ==
  ASSUME [CoordinatorNext]_cvars, ~Exit
  PROVE  \/ shutdown' = shutdown
         \/ Shutdown /\ shutdown' = "loop"
         \/ LoopEnded /\ shutdown' = "pass"
         \/ Sweep /\ shutdown' = "tasks"
         \/ shutdown = "tasks" /\ shutdown' = "closed" /\ threads' = threads
<1>1. CASE UNCHANGED cvars \/ ProcessStep \/ CallFails \/ \E a \in Attempts : TaskStep(a)
  BY <1>1 DEF cvars, CallFails, ProcessStep, StartStep, LoopStep, PassStep, Start, ListUnready,
     ReconcileUnready, DueScan, Enforce, StartScan, ForceSettle, ListRunnable, ClaimListed,
     SpawnClaimed, PassEnds, LoopRetries, LoopWakes, ListPending, FinalizeOwed, ListExpired,
     NextExpired, DecideExpired, FinalizeExpired, SpawnReplacement,
     TaskStep, TaskSettles, TaskFinalizes, TaskStops, TaskEnds
<1>2. CASE Outside
  BY <1>2 DEF Outside, BeginAdmission, AdmissionRefused, AdmitRow, Materialize, EndAdmission,
     AbortInstance, LeaseScanTimer, Heartbeat, LeaseRunsOut, process
<1>3. CASE Shutdown \/ ShutdownStep
  BY <1>3 DEF Shutdown, ShutdownStep, LoopEnded, Sweep, Close
<1> QED BY SMTT(40), <1>1, <1>2, <1>3 DEF CoordinatorNext

\* Shutdown begins when start-up is over; the loop is over before the pass, and
\* both before the tasks are told, of which each that still has its row was.
StartIsOver == Stopping => Up
LoopIsOver ==
  shutdown \in {"pass", "tasks", "closed"} => threads["loop"].pc \in {"off", "done"}
ToldAreQuiet ==
  TasksTold =>
    /\ threads["pass"].pc = "none"
    /\ \A a \in Attempts : Running(a) /\ Runs(tasks[a].sub, a) => tasks[a].signal # "none"
ShutdownInv == StartIsOver /\ LoopIsOver /\ ToldAreQuiet

LEMMA NextShutdownInv ==
  ASSUME CInv, CInv', TaskInv, ShutdownInv, [CoordinatorNext]_cvars
  PROVE  ShutdownInv'
<1>1. CASE Exit
  BY <1>1 DEF Exit, FreshProcess, ShutdownInv, StartIsOver, LoopIsOver, ToldAreQuiet, TasksTold,
              Stopping
<1>2. CASE ~Exit
  <2>1. IdleStays /\ LedgerMoves
    BY <1>2, StepKeepsIdle, StepMovesLedger
  <2>2. LoopIsOver'
    BY <1>2, <2>1, ShutdownMoves
    DEF ShutdownInv, LoopIsOver, IdleStays, Stopping, LoopEnded, Sweep
  <2>3. StartIsOver'
    BY <1>2, <2>1, ShutdownMoves
    DEF ShutdownInv, StartIsOver, IdleStays, Stopping, Shutdown, LoopEnded, Sweep
  <2>4. ASSUME TasksTold'
        PROVE  /\ threads'["pass"].pc = "none"
               /\ \A a \in Attempts :
                    tasks'[a].pc = "running" /\ rows'[tasks'[a].sub].status = "running"
                      /\ rows'[tasks'[a].sub].attempt = a => tasks'[a].signal # "none"
    <3>1. CASE Sweep
      <4>1. ASSUME NEW a \in Attempts, tasks'[a].pc = "running",
                   rows'[tasks'[a].sub].status = "running", rows'[tasks'[a].sub].attempt = a
            PROVE  tasks'[a].signal # "none"
        <5>1. tasks \in [Attempts -> TaskState] /\ rows' = rows
          BY <3>1, TypeParts DEF CInv, OthersOK, Sweep, LedgerUnchanged, vars
        <5>2. tasks[a].pc = "running" /\ tasks'[a].sub = tasks[a].sub
          BY <3>1, <4>1, <5>1 DEF Sweep, Signalled, TaskState
        <5>3. active[tasks[a].sub] = a
          BY <4>1, <5>1, <5>2, TasksAreTrackedByInv DEF TasksAreTracked, Running, Runs
        <5>4. tasks[a].sub \in Submissions
          BY <5>1, <5>2, TypeParts DEF CInv, OthersOK, TaskState
        <5> QED BY <3>1, <5>1, <5>3, <5>4 DEF Sweep, Signalled, TaskState
      <4> QED BY <3>1, <4>1 DEF Sweep, PassInFlight
    <3>2. CASE TasksTold
      <4>1. /\ threads["loop"].pc \in {"off", "done"} /\ threads["pass"].pc = "none"
            /\ threads'["pass"].pc = "none"
        BY <2>1, <3>2 DEF ShutdownInv, LoopIsOver, ToldAreQuiet, TasksTold, IdleStays, Stopping
      <4>2. TasksOnlyEnd
        BY <1>2, <4>1, StepOnlyEndsTasks
      <4>3. ASSUME NEW a \in Attempts, tasks'[a].pc = "running",
                   rows'[tasks'[a].sub].status = "running", rows'[tasks'[a].sub].attempt = a
            PROVE  tasks'[a].signal # "none"
        <5>1. tasks[a].pc = "running" /\ tasks'[a].sub = tasks[a].sub
          BY <4>2, <4>3 DEF TasksOnlyEnd
        <5>2. a <= lastAttempt /\ tasks[a].sub \in Submissions
          BY <5>1, TypeParts DEF TaskInv, TasksHaveRows, HasTask, CInv, OthersOK, TaskState
        <5>3. Runs(tasks[a].sub, a)
          BY <2>1, <4>3, <5>1, <5>2 DEF Runs, LedgerMoves, RowMoves
        <5> QED BY <3>2, <4>2, <4>3, <5>1, <5>3
                DEF ShutdownInv, ToldAreQuiet, Running, TasksOnlyEnd
      <4> QED BY <4>1, <4>3
    <3> QED BY <1>2, <2>4, <3>1, <3>2, ShutdownMoves DEF TasksTold, LoopEnded
  <2> QED BY <2>2, <2>3, <2>4 DEF ShutdownInv, ToldAreQuiet, Running, Runs
<1> QED BY <1>1, <1>2

LEMMA InitShutdownInv == CoordinatorInit => ShutdownInv
BY DEF CoordinatorInit, ShutdownInv, StartIsOver, LoopIsOver, ToldAreQuiet, TasksTold, Stopping

-----------------------------------------------------------------------------
(* Where the coordinator's calls move rows *)

\* The coordinator joins nothing and parks nothing, and tracks no row that is
\* not taken up.
Places == {"absent", "queued", "running", "terminalizing", "settled"}
PlaceInv ==
  /\ \A s \in Submissions : rows[s].status \in Places
  /\ \A s \in Submissions : active[s] # NoAttempt => rows[s].status \notin {"absent", "queued"}

Rests(s) == rows'[s].status = rows[s].status
AllRest == \A s \in Submissions : Rests(s)
OthersRest(s) == \A t \in Submissions \ {s} : Rests(t)

\* No step brings a row back to the queue behind a task.
PlacesMove ==
  \A s \in Submissions :
    \/ Rests(s)
    \/ rows'[s].status \in {"running", "terminalizing", "settled"}
    \/ rows[s].status = "absent" /\ rows'[s].status = "queued"
    \/ rows'[s].status = "queued" /\ active[s] = NoAttempt

LEMMA AdmitPlaces ==
  ASSUME Inv, NEW s \in Submissions, Admit(s)
  PROVE  OthersRest(s) /\ rows[s].status = "absent" /\ rows'[s].status = "queued"
BY DEF Admit, OthersRest, Rests, Inv, TypeOK, AbsentRow

LEMMA StillLedger ==
  ASSUME Inv, PlaceInv, NEW k, NEW o,
         RequestSessionAbort(k) \/ Heartbeat(o) \/ Tick \/ LedgerUnchanged
  PROVE  AllRest
<1>1. \A t \in Submissions : rows[t] \in Row /\ rows[t].status # "waiting"
  BY DEF Inv, TypeOK, PlaceInv, Places
<1>2. CASE RequestSessionAbort(k)
  BY <1>1, <1>2 DEF RequestSessionAbort, AbortedRow, AllRest, Rests, Row
<1>3. CASE Heartbeat(o)
  BY <1>1, <1>3 DEF Heartbeat, AllRest, Rests, Row
<1>4. CASE Tick \/ LedgerUnchanged
  BY <1>4 DEF Tick, LedgerUnchanged, vars, AllRest, Rests
<1> QED BY <1>2, <1>3, <1>4

LEMMA StillPlaces ==
  ASSUME Inv, NEW s \in Submissions, NEW a, NEW o,
         MarkCanonicalReady(s) \/ LeaseLapses(s) \/ ReplaceAttempt(s, a, o)
  PROVE  AllRest
<1>1. \A t \in Submissions : rows[t] \in Row
  BY DEF Inv, TypeOK
<1>2. CASE MarkCanonicalReady(s) \/ LeaseLapses(s)
  BY <1>1, <1>2 DEF MarkCanonicalReady, LeaseLapses, Write, AllRest, Rests, Row, Inv, TypeOK
<1>3. CASE ReplaceAttempt(s, a, o)
  BY <1>1, <1>3 DEF ReplaceAttempt, WriteWithNewAttempt, Replaced, AllRest, Rests, Row, Inv, TypeOK
<1> QED BY <1>2, <1>3

LEMMA SettlePlaces ==
  ASSUME Inv, PlaceInv, NEW s \in Submissions, NEW a, NEW outcome,
         ReserveSettlement(s, a, outcome) \/ FinalizeSettlement(s, a) \/ SettleQueued(s, outcome)
  PROVE  /\ OthersRest(s) /\ rows'[s].status \in {"terminalizing", "settled"}
         /\ \A t \in Submissions \ {s} : rows'[t] = rows[t]
         /\ rows'[s].sequence = rows[s].sequence
<1>1. \A t \in Submissions : rows[t] \in Row /\ rows[t].status \notin {"joining", "joined"}
  BY DEF Inv, TypeOK, PlaceInv, Places
<1>2. CASE ReserveSettlement(s, a, outcome)
  BY SMTT(40), <1>1, <1>2 DEF ReserveSettlement, Write, Reserved, OthersRest, Rests, Row, Inv, TypeOK
<1>3. CASE FinalizeSettlement(s, a)
  BY <1>1, <1>3
  DEF FinalizeSettlement, SettleWithJoins, FanOut, Settled, OthersRest, Rests, Row
<1>4. CASE SettleQueued(s, outcome)
  BY <1>1, <1>4 DEF SettleQueued, Write, Settled, OthersRest, Rests, Row, Inv, TypeOK
<1> QED BY <1>2, <1>3, <1>4

LEMMA ClaimPlaces ==
  ASSUME Inv, NEW s \in Submissions, NEW o, Claim(s, o)
  PROVE  OthersRest(s) /\ rows'[s].status = "running"
BY DEF Claim, WriteWithNewAttempt, Claimed, OthersRest, Rests, Row, Inv, TypeOK

LEMMA RequeuePlaces ==
  ASSUME Inv, NEW s \in Submissions, NEW a, Requeue(s, a)
  PROVE  OthersRest(s) /\ rows'[s].status = "queued" /\ Runs(s, a)
BY DEF Requeue, Write, Requeued, OthersRest, Rests, Row, Inv, TypeOK

LEMMA StepMovesPlaces ==
  ASSUME CInv, TaskInv, PlaceInv, [CoordinatorNext]_cvars
  PROVE  PlacesMove
<1> USE DEF CInv
<1>0. ThreadsOK(threads) /\ OthersOK
  BY TypeParts
<1>1. ASSUME AllRest PROVE PlacesMove
  BY <1>1 DEF AllRest, PlacesMove
<1>2. LedgerUnchanged => PlacesMove
  BY <1>1 DEF LedgerUnchanged, vars, AllRest, Rests
<1>3. ASSUME NEW s \in Submissions, OthersRest(s),
             \/ rows'[s].status \in {"running", "terminalizing", "settled"}
             \/ rows[s].status = "absent" /\ rows'[s].status = "queued"
             \/ rows'[s].status = "queued" /\ active[s] = NoAttempt
      PROVE  PlacesMove
  BY <1>3 DEF OthersRest, PlacesMove
<1>4. CASE UNCHANGED cvars
  BY <1>2, <1>4 DEF cvars, LedgerUnchanged, vars
<1>5. ASSUME NEW th \in Threads, ListUnready(th) \/ ReconcileUnready(th) PROVE PlacesMove
  <2>1. CASE ListUnready(th)
    BY <1>2, <2>1 DEF ListUnready
  <2>2. CASE ReconcileUnready(th)
    <3>1. PICK item \in First(threads[th].todo) :
            \/ SettleQueued(item.sub, "aborted") \/ SettleQueued(item.sub, "failed")
            \/ MarkCanonicalReady(item.sub) \/ LedgerUnchanged
      BY <2>2 DEF ReconcileUnready
    <3>2. item.sub \in Submissions
      BY <1>0, FirstIsItem DEF Item
    <3> QED BY <1>1, <1>2, <1>3, <3>1, <3>2, SettlePlaces, StillPlaces
  <2> QED BY <1>5, <2>1, <2>2
<1>6. CASE ProcessStep
  <2>1. CASE FinalizeOwed
    <3>1. PICK item \in First(threads["pass"].todo) :
            FinalizeSettlement(item.sub, item.attempt) \/ LedgerUnchanged
      BY <2>1 DEF FinalizeOwed
    <3>2. item.sub \in Submissions
      BY <1>0, FirstIsItem DEF Item, Threads
    <3> QED BY <1>2, <1>3, <3>1, <3>2, SettlePlaces
  <2>2. ASSUME NEW th \in {"loop", "pass"}, threads[th].pc \in ItemPcs,
               ReserveItem(th) \/ FinalizeItem(th)
        PROVE  PlacesMove
    <3>1. threads[th].item.sub \in Submissions
      BY <2>2, HeldByThread
    <3> QED BY <1>2, <1>3, <2>2, <3>1, SettlePlaces DEF ReserveItem, FinalizeItem
  <2>3. CASE DecideExpired
    <3>1. threads["pass"].pc = "decide" /\ threads["pass"].pc \in ItemPcs
      BY <2>3 DEF DecideExpired, ItemPcs
    <3> DEFINE i == threads["pass"].item
    <3>2. i.sub \in Submissions /\ (Runs(i.sub, i.attempt) => active[i.sub] = NoAttempt)
      BY <3>1, HeldByThread DEF TaskInv, TakenUpIsIdle, Idle
    <3>3. \/ ReserveItem("pass") \/ Requeue(i.sub, i.attempt)
          \/ \E o \in Owners : ReplaceAttempt(i.sub, i.attempt, o)
      BY <2>3 DEF DecideExpired
    <3> HIDE DEF i
    <3>4. CASE Requeue(i.sub, i.attempt)
      BY <1>3, <3>2, <3>4, RequeuePlaces
    <3>5. CASE \E o \in Owners : ReplaceAttempt(i.sub, i.attempt, o)
      BY <1>1, <3>2, <3>5, StillPlaces
    <3> QED BY <2>2, <3>1, <3>3, <3>4, <3>5
  <2>4. CASE FinalizeExpired \/ ForceSettle
    BY <2>2, <2>4 DEF FinalizeExpired, ForceSettle, ItemPcs
  <2>5. CASE ClaimListed
    BY <1>2, <1>3, <2>5, ClaimWork, ClaimPlaces
  <2>6. CASE \/ Start \/ DueScan \/ Enforce \/ StartScan \/ ListRunnable \/ SpawnClaimed \/ PassEnds
             \/ LoopRetries \/ LoopWakes \/ ListPending \/ ListExpired \/ NextExpired
             \/ SpawnReplacement
    BY <1>2, <2>6 DEF Start, DueScan, Enforce, StartScan, ListRunnable, SpawnClaimed, PassEnds,
       LoopRetries, LoopWakes, ListPending, ListExpired, NextExpired, SpawnReplacement
  <2> QED BY <1>5, <1>6, <2>1, <2>3, <2>4, <2>5, <2>6
          DEF ProcessStep, StartStep, LoopStep, PassStep, Threads
<1>7. CASE Outside
  <2>1. ASSUME NEW s \in Submissions, AdmitRow(s) PROVE PlacesMove
    BY <1>3, <2>1, AdmitPlaces DEF AdmitRow
  <2>2. ASSUME NEW s \in Submissions,
               \/ BeginAdmission(s) \/ AdmissionRefused(s) \/ Materialize(s) \/ EndAdmission(s)
               \/ LeaseRunsOut(s)
        PROVE  PlacesMove
    BY <1>1, <1>2, <2>2, StillPlaces
    DEF BeginAdmission, AdmissionRefused, Materialize, EndAdmission, LeaseRunsOut
  <2>3. ASSUME \/ \E k \in Sessions : AbortInstance(k)
               \/ \E o \in Owners : Heartbeat(o)
               \/ Tick
        PROVE  PlacesMove
    BY <1>1, <2>3, StillLedger DEF AbortInstance
  <2> QED BY <1>2, <1>7, <2>1, <2>2, <2>3 DEF Outside, LeaseScanTimer
<1>8. ASSUME NEW a \in Attempts, TaskStep(a) PROVE PlacesMove
  <2>1. tasks[a].pc # "none" => tasks[a].sub \in Submissions
    BY <1>0 DEF OthersOK, TaskState
  <2>2. \/ LedgerUnchanged
        \/ /\ tasks[a].pc # "none"
           /\ \/ \E outcome \in Outcomes : ReserveSettlement(tasks[a].sub, a, outcome)
              \/ FinalizeSettlement(tasks[a].sub, a)
    BY <1>8 DEF TaskStep, TaskSettles, TaskFinalizes, TaskStops, TaskEnds, Running
  <2> QED BY <1>2, <1>3, <2>1, <2>2, SettlePlaces
<1>9. CASE CallFails \/ Shutdown \/ ShutdownStep \/ Exit
  BY <1>2, <1>9 DEF CallFails, Shutdown, ShutdownStep, LoopEnded, Sweep, Close, Exit
<1> QED BY <1>4, <1>6, <1>7, <1>8, <1>9 DEF CoordinatorNext

\* Only a spawn makes the process track an attempt.
LEMMA ActiveMoves ==
  ASSUME CInv, [CoordinatorNext]_cvars
  PROVE  \/ \A s \in Submissions : active'[s] \in {active[s], NoAttempt}
         \/ SpawnReplacement \/ SpawnClaimed
<1>0. active \in [Submissions -> Attempts \cup {NoAttempt}]
  BY TypeParts DEF CInv, OthersOK
<1>1. CASE UNCHANGED cvars \/ CallFails \/ Shutdown \/ ShutdownStep
  BY <1>1 DEF cvars, CallFails, Shutdown, ShutdownStep, LoopEnded, Sweep, Close
<1>2. CASE ForceSettle
  <2>1. \E s : active' \in {active, [active EXCEPT ![s] = NoAttempt]}
    BY SMTT(40), <1>2 DEF ForceSettle
  <2> QED BY <1>0, <2>1
<1>3. CASE ProcessStep /\ ~ForceSettle
  BY <1>3 DEF ProcessStep, StartStep, LoopStep, PassStep, Start, ListUnready, ReconcileUnready,
     DueScan, Enforce, StartScan, ListRunnable, ClaimListed, PassEnds, LoopRetries, LoopWakes,
     ListPending, FinalizeOwed, ListExpired, NextExpired, DecideExpired, FinalizeExpired
<1>4. CASE Outside
  BY <1>4 DEF Outside, BeginAdmission, AdmissionRefused, AdmitRow, Materialize, EndAdmission,
     AbortInstance, LeaseScanTimer, Heartbeat, LeaseRunsOut, process
<1>5. ASSUME NEW a \in Attempts, TaskStep(a)
      PROVE  \A s \in Submissions : active'[s] \in {active[s], NoAttempt}
  <2>1. active' \in {active, [active EXCEPT ![tasks[a].sub] = NoAttempt]}
    BY <1>5 DEF TaskStep, TaskSettles, TaskFinalizes, TaskStops, TaskEnds
  <2> QED BY <1>0, <2>1
<1>6. CASE Exit
  BY <1>6 DEF Exit, FreshProcess
<1> QED BY <1>1, <1>2, <1>3, <1>4, <1>5, <1>6 DEF CoordinatorNext

LEMMA NextPlaceInv ==
  ASSUME CInv, TaskInv, PlaceInv, [CoordinatorNext]_cvars
  PROVE  PlaceInv'
<1>1. PlacesMove
  BY StepMovesPlaces
<1>2. \A s \in Submissions : rows'[s].status \in Places
  BY <1>1 DEF PlacesMove, PlaceInv, Places, Rests
<1>3. ASSUME NEW s \in Submissions, active'[s] # NoAttempt
      PROVE  rows'[s].status \notin {"absent", "queued"}
  <2>1. CASE \A u \in Submissions : active'[u] \in {active[u], NoAttempt}
    BY <1>1, <1>3, <2>1 DEF PlaceInv, PlacesMove, Rests, Places
  <2>2. CASE SpawnReplacement \/ SpawnClaimed
    <3>1. PICK th \in {"loop", "pass"} :
            /\ threads[th].pc = "spawn" /\ LedgerUnchanged
            /\ Spawn(threads[th].item.sub, threads[th].item.attempt)
      BY <2>2 DEF SpawnReplacement, SpawnClaimed
    <3>2. Fresh(threads[th].item)
      BY <3>1 DEF TaskInv, ClaimIsFresh
    <3>3. rows' = rows /\ (s = threads[th].item.sub \/ active'[s] = active[s])
      BY <3>1, TypeParts DEF CInv, OthersOK, Spawn, LedgerUnchanged, vars
    <3>4. CASE s = threads[th].item.sub
      BY <3>2, <3>3, <3>4 DEF Fresh, Runs
    <3> QED BY <1>3, <3>3, <3>4 DEF PlaceInv
  <2> QED BY <2>1, <2>2, ActiveMoves
<1> QED BY <1>2, <1>3 DEF PlaceInv

LEMMA InitPlaceInv == CoordinatorInit => PlaceInv
BY DEF CoordinatorInit, Init, PlaceInv, Places, AbsentRow

-----------------------------------------------------------------------------
(* Nothing starts after shutdown *)

\* Once the tasks are told no thread takes a step.
LEMMA ToldSteps ==
  ASSUME ShutdownInv, TasksTold, [CoordinatorNext]_cvars
  PROVE  \/ LedgerUnchanged /\ tasks' = tasks
         \/ Outside
         \/ \E a \in Attempts : TaskStep(a)
         \/ Exit
<1>1. /\ threads["start"].pc \in {"serving", "failed"}
      /\ threads["loop"].pc \in {"off", "done"}
      /\ threads["pass"].pc = "none"
  BY SMTT(40) DEF ShutdownInv, StartIsOver, LoopIsOver, ToldAreQuiet, TasksTold, Stopping, Up
<1>2. ~ProcessStep
  BY <1>1 DEF ProcessStep, StartStep, LoopStep, PassStep, Start, ListUnready, ReconcileUnready,
     DueScan, Enforce, StartScan, ForceSettle, ListRunnable, ClaimListed, SpawnClaimed, PassEnds,
     LoopRetries, LoopWakes, ListPending, FinalizeOwed, ListExpired, NextExpired, DecideExpired,
     FinalizeExpired, SpawnReplacement
<1>3. CASE CallFails \/ UNCHANGED cvars
  BY <1>3 DEF CallFails, cvars, LedgerUnchanged, vars
<1>4. CASE Shutdown \/ ShutdownStep
  BY <1>4 DEF Shutdown, ShutdownStep, LoopEnded, Sweep, Close, Stopping, TasksTold
<1> QED BY <1>2, <1>3, <1>4 DEF CoordinatorNext

\* A row leaves its status by the hand of a task that holds it.
LEMMA ToldTask ==
  ASSUME CInv, PlaceInv, ShutdownInv, TasksTold, NEW a \in Attempts, TaskStep(a)
  PROVE  /\ lastAttempt' = lastAttempt
         /\ \A b \in Attempts : tasks[b].pc = "none" => tasks'[b].pc = "none"
         /\ \A s \in Submissions :
              ~Rests(s) => tasks[a].sub = s /\ (tasks[a].pc = "settling" \/ tasks[a].signal # "none")
<1>0. /\ tasks \in [Attempts -> TaskState] /\ Inv
      /\ tasks[a].pc # "none" => tasks[a].sub \in Submissions
  BY TypeParts DEF CInv, OthersOK, TaskState
<1>1. \A b \in Attempts : tasks[b].pc = "none" => tasks'[b].pc = "none"
  <2>1. /\ tasks[a].pc # "none"
        /\ \/ tasks' = [tasks EXCEPT ![a].pc = "settling"]
           \/ tasks' = [tasks EXCEPT ![a].pc = "ending"]
           \/ tasks' = [tasks EXCEPT ![a] = NoTask]
    BY DEF TaskStep, TaskSettles, TaskFinalizes, TaskStops, TaskEnds, Running
  <2> QED BY <1>0, <2>1 DEF NoTask
<1>2. \/ LedgerUnchanged
      \/ /\ tasks[a].pc # "none" /\ (tasks[a].pc = "settling" \/ tasks[a].signal # "none")
         /\ \/ \E outcome \in Outcomes : ReserveSettlement(tasks[a].sub, a, outcome)
            \/ FinalizeSettlement(tasks[a].sub, a)
  <2>1. Running(a) /\ Runs(tasks[a].sub, a) => tasks[a].signal # "none"
    BY DEF ShutdownInv, ToldAreQuiet
  <2> QED BY <2>1 DEF TaskStep, TaskSettles, TaskFinalizes, TaskStops, TaskEnds, Running
<1>3. CASE LedgerUnchanged
  BY <1>1, <1>3 DEF LedgerUnchanged, vars, Rests
<1>4. ASSUME tasks[a].pc # "none", NEW outcome \in Outcomes,
             ReserveSettlement(tasks[a].sub, a, outcome) \/ FinalizeSettlement(tasks[a].sub, a)
      PROVE  /\ lastAttempt' = lastAttempt
             /\ \A s \in Submissions : ~Rests(s) => tasks[a].sub = s
  <2>1. lastAttempt' = lastAttempt
    BY <1>4 DEF ReserveSettlement, FinalizeSettlement, Write, SettleWithJoins
  <2>2. OthersRest(tasks[a].sub)
    BY <1>0, <1>4, SettlePlaces
  <2> QED BY <2>1, <2>2 DEF OthersRest
<1> QED BY <1>1, <1>2, <1>3, <1>4 DEF Outcomes

LEMMA ToldOutside ==
  ASSUME CInv, PlaceInv, ShutdownInv, TasksTold, Outside
  PROVE  /\ lastAttempt' = lastAttempt
         /\ \A b \in Attempts : tasks[b].pc = "none" => tasks'[b].pc = "none"
         /\ \A s \in Submissions : rows[s].status # "absent" => Rests(s)
<1>0. tasks \in [Attempts -> TaskState] /\ Inv
  BY TypeParts DEF CInv, OthersOK
<1>1. lastAttempt' = lastAttempt
  BY DEF Outside, BeginAdmission, AdmissionRefused, AdmitRow, Materialize, EndAdmission,
         AbortInstance, LeaseScanTimer, Heartbeat, LeaseRunsOut, process, LedgerUnchanged, vars,
         Admit, MarkCanonicalReady, Write, RequestSessionAbort, LeaseLapses, Tick
<1>2. \A b \in Attempts : tasks[b].pc = "none" => tasks'[b].pc = "none"
  <2>1. tasks' = tasks \/ \E S : Signalled(S, "abort")
    BY DEF Outside, BeginAdmission, AdmissionRefused, AdmitRow, Materialize, EndAdmission,
           AbortInstance, LeaseScanTimer, Heartbeat, LeaseRunsOut, process
  <2> QED BY <1>0, <2>1 DEF Signalled, TaskState
<1>3. ASSUME NEW s \in Submissions, rows[s].status # "absent" PROVE Rests(s)
  <2>1. \/ \E u \in Submissions : Admit(u)
        \/ \E u \in Submissions : MarkCanonicalReady(u) \/ LeaseLapses(u)
        \/ \E k \in Sessions : RequestSessionAbort(k)
        \/ \E o \in Owners : Heartbeat(o)
        \/ Tick \/ LedgerUnchanged
    BY DEF Outside, BeginAdmission, AdmissionRefused, AdmitRow, Materialize, EndAdmission,
           AbortInstance, LeaseScanTimer, LeaseRunsOut
  <2>2. (\E u \in Submissions : Admit(u)) => Rests(s)
    BY <1>0, <1>3, AdmitPlaces DEF OthersRest
  <2> QED BY <1>0, <1>3, <2>1, <2>2, StillPlaces, StillLedger DEF AllRest
<1> QED BY <1>1, <1>2, <1>3

LEMMA ToldIsQuiet ==
  CInv /\ PlaceInv /\ ShutdownInv /\ [CoordinatorNext]_cvars =>
    (TasksTold =>
       /\ lastAttempt' = lastAttempt
       /\ \A a \in Attempts : tasks[a].pc = "none" => tasks'[a].pc = "none"
       /\ \A s \in Submissions :
            rows[s].status # "absent" /\ rows'[s].status # rows[s].status =>
              \E a \in Attempts :
                /\ tasks[a].sub = s
                /\ tasks[a].pc = "settling" \/ tasks[a].signal # "none")
<1> SUFFICES ASSUME CInv, PlaceInv, ShutdownInv, [CoordinatorNext]_cvars, TasksTold
             PROVE  /\ lastAttempt' = lastAttempt
                    /\ \A a \in Attempts : tasks[a].pc = "none" => tasks'[a].pc = "none"
                    /\ \A s \in Submissions :
                         rows[s].status # "absent" /\ rows'[s].status # rows[s].status =>
                           \E a \in Attempts :
                             /\ tasks[a].sub = s
                             /\ tasks[a].pc = "settling" \/ tasks[a].signal # "none"
  OBVIOUS
<1>1. CASE LedgerUnchanged /\ tasks' = tasks
  BY <1>1 DEF LedgerUnchanged, vars
<1>2. CASE Outside
  BY <1>2, ToldOutside DEF Rests
<1>3. CASE \E a \in Attempts : TaskStep(a)
  BY <1>3, ToldTask DEF Rests
<1>4. CASE Exit
  BY <1>4 DEF Exit, FreshProcess, NoTask, LedgerUnchanged, vars
<1> QED BY <1>1, <1>2, <1>3, <1>4, ToldSteps

\* What holds whatever the process has done.
ProcessInv == CInv /\ TaskInv /\ PlaceInv /\ ShutdownInv

LEMMA SpecProcessInv == CoordinatorSpec => []ProcessInv
<1>1. ProcessInv /\ [CoordinatorNext]_cvars => ProcessInv'
  BY NextCInv, NextTaskInv, NextPlaceInv, NextShutdownInv DEF ProcessInv
<1>2. CoordinatorInit => ProcessInv
  BY InitCInv, InitTaskInv, InitPlaceInv, InitShutdownInv DEF ProcessInv
<1> QED BY <1>1, <1>2, PTL DEF CoordinatorSpec

-----------------------------------------------------------------------------
(* Why no wake-up is lost *)

\* Who will look at a claimable row: the loop, which is on its way to a list of
\* such rows, has the row on its list, or was told to run again; ...
LoopAnnounces(s) ==
  \/ threads["loop"].pc = "asleep" /\ wakes.resolved
  \/ /\ threads["loop"].pc \in {"claims", "spawn", "end"}
     /\ wakes.requested \/ threads["loop"].progressed
  \/ threads["loop"].pc \in {"claims", "spawn"} /\ \E i \in threads["loop"].todo : i.sub = s
  \/ threads["loop"].pc \notin {"asleep", "claims", "spawn", "end"}

\* ... or whoever will wake it.
Announced(s) ==
  \/ s \in unannounced
  \/ s \in admissions
  \/ \E a \in Attempts : tasks[a].pc = "ending" /\ SameSession(tasks[a].sub, s)
  \/ LoopAnnounces(s)

ReadyIsAnnounced ==
  lastAttempt < MaxAttemptIds => \A s \in Submissions : Runnable(s) => Announced(s)

\* The loop does not go to sleep on a shutdown.
LoopHearsShutdown ==
  Stopping =>
    \/ wakes.requested
    \/ threads["loop"].pc \in {"off", "done", "backoff"}
    \/ threads["loop"].pc = "asleep" /\ wakes.resolved

WakeInv == ReadyIsAnnounced /\ LoopHearsShutdown

LEMMA NoWakeIsLostByInv == CInv /\ WakeInv => NoWakeIsLost
BY DEF WakeInv, ReadyIsAnnounced, Announced, LoopAnnounces, NoWakeIsLost

\* The loop is left where it is by the steps of others, unless they start it or
\* end its wait for the pass.
LoopFollows ==
  \/ Follows("loop")
  \/ threads["loop"].pc = "off" /\ threads'["loop"].pc \in {"done", "begin"}

LEMMA SameLoopFollows == threads'["loop"] = threads["loop"] => LoopFollows
BY DEF LoopFollows, Follows

LEMMA UnreadyFollows ==
  ASSUME CInv, NEW th \in {"start", "pass"}, ListUnready(th) \/ ReconcileUnready(th)
  PROVE  LoopFollows
<1>1. th \in Threads /\ "loop" \in Threads \ {th} /\ <<th, "unready">> \in Lists
      /\ ThreadsOK(threads)
  BY TypeParts DEF CInv, Threads, Lists
<1>2. \E T \in SUBSET Item : Work(th, "unready", T)
  BY <1>1, UnreadyWork
<1> QED BY <1>1, <1>2, WorkMoves DEF LoopFollows

LEMMA OutsideFollows ==
  ASSUME CInv, Outside
  PROVE  LoopFollows
<1>0. ThreadsOK(threads) /\ ThreadsOK(Ensured(threads))
  BY TypeParts, EnsuredIsOK DEF CInv
<1>1. threads'["loop"] = Ensured(threads)["loop"] => LoopFollows
  BY <1>0, EnsuredMoves, SameLoopFollows DEF LoopFollows
<1>2. ASSUME NEW s \in Submissions, EndAdmission(s) PROVE LoopFollows
  BY <1>1, <1>2 DEF EndAdmission, EnsureAndWake
<1>3. ASSUME NEW k \in Sessions, AbortInstance(k) PROVE LoopFollows
  BY <1>1, <1>3, AbortEnsures
<1>4. ASSUME ~ \E s \in Submissions : EndAdmission(s),
             ~ \E k \in Sessions : AbortInstance(k)
      PROVE  threads' = threads
  BY <1>4 DEF Outside, BeginAdmission, AdmissionRefused, AdmitRow, Materialize, LeaseScanTimer,
              Heartbeat, LeaseRunsOut, process
<1> QED BY <1>2, <1>3, <1>4, SameLoopFollows

LEMMA OthersLeaveLoop ==
  ASSUME CInv, [CoordinatorNext]_cvars, ~Exit, ~LoopStep, ~CallFails
  PROVE  LoopFollows
<1>1. CASE \/ UNCHANGED cvars \/ Shutdown \/ ShutdownStep
           \/ \E a \in Attempts : TaskStep(a)
  BY <1>1, SameLoopFollows
  DEF cvars, Shutdown, ShutdownStep, LoopEnded, Sweep, Close,
      TaskStep, TaskSettles, TaskFinalizes, TaskStops, TaskEnds
<1>2. CASE StartStep
  <2>1. CASE Start
    <3>1. \/ Follows("loop")
          \/ threads["loop"].pc = "off" /\ threads'["loop"].pc \in {"done", "begin"}
      BY <2>1, StartMoves DEF Follows
    <3> QED BY <3>1 DEF LoopFollows
  <2> QED BY <1>2, <2>1, UnreadyFollows DEF StartStep
<1>3. CASE PassStep
  BY <1>3, UnreadyFollows, PassStepFollows DEF PassStep, LoopFollows, Threads
<1> QED BY <1>1, <1>2, <1>3, OutsideFollows DEF CoordinatorNext, ProcessStep

LoopTurn == PassEnds \/ LoopRetries \/ LoopWakes

\* A loop that sleeps or backs off stays there until its own next step.
LEMMA LoopRests ==
  ASSUME CInv, [CoordinatorNext]_cvars, ~Exit, ~LoopTurn,
         threads["loop"].pc \in {"backoff", "asleep"}
  PROVE  threads'["loop"].pc = threads["loop"].pc
<1>1. ~LoopStep
  BY DEF LoopTurn, LoopStep, ListUnready, ReconcileUnready, DueScan, Enforce, StartScan,
         ForceSettle, ListRunnable, ClaimListed, SpawnClaimed
<1>2. CASE CallFails
  <2>1. ThreadsOK(threads)
    BY TypeParts DEF CInv
  <2>2. ~LoopFails
    BY DEF LoopFails, UnreadyFails
  <2>3. PassFails => threads'["loop"].pc = threads["loop"].pc
    BY <2>1, PassFailsMoves
  <2>4. CASE ItemFails
    <3>1. threads["pass"].pc \in ItemPcs /\ Return("pass")
      BY <2>4 DEF ItemFails, ItemPcs
    <3> QED BY <2>1, <3>1, ReturnMoves DEF Follows, Threads
  <2>5. StartFails => threads'["loop"].pc = threads["loop"].pc
    BY <2>1, StartFailsMoves
  <2> QED BY <1>2, <2>2, <2>3, <2>4, <2>5 DEF CallFails
<1>3. CASE ~CallFails
  BY <1>1, <1>3, OthersLeaveLoop DEF LoopFollows, Follows
<1> QED BY SMTT(40), <1>2, <1>3

\* Only the loop takes a wake-up.
LEMMA WakesGrow ==
  ASSUME CInv, [CoordinatorNext]_cvars, ~Exit, ~LoopTurn
  PROVE  /\ wakes.requested => wakes'.requested
         /\ wakes.resolved => wakes'.resolved
<1>0. wakes \in [requested : BOOLEAN, resolved : BOOLEAN]
  BY TypeParts DEF CInv, OthersOK
<1>1. \A t : /\ wakes.requested => Woken(t, wakes).requested
             /\ wakes.resolved => Woken(t, wakes).resolved
  BY SMTT(40), <1>0 DEF Woken
<1>2. CASE ProcessStep \/ CallFails
  BY <1>2
  DEF ProcessStep, StartStep, LoopStep, PassStep, LoopTurn, Start, ListUnready, ReconcileUnready,
      DueScan, Enforce, StartScan, ForceSettle, ListRunnable, ClaimListed, SpawnClaimed,
      ListPending, FinalizeOwed, ListExpired, NextExpired, DecideExpired, FinalizeExpired,
      SpawnReplacement, CallFails
<1>3. CASE Outside
  BY <1>1, <1>3 DEF Outside, BeginAdmission, AdmissionRefused, AdmitRow, Materialize, EndAdmission,
     EnsureAndWake, AbortInstance, LeaseScanTimer, Wake, Heartbeat, LeaseRunsOut, process
<1>4. CASE \E a \in Attempts : TaskStep(a)
  BY <1>1, <1>4 DEF TaskStep, TaskSettles, TaskFinalizes, TaskStops, TaskEnds, Wake
<1>5. CASE UNCHANGED cvars \/ Shutdown \/ ShutdownStep
  BY <1>1, <1>5 DEF cvars, Shutdown, ShutdownStep, LoopEnded, Sweep, Close, Wake
<1> QED BY <1>2, <1>3, <1>4, <1>5 DEF CoordinatorNext

LEMMA HearsShutdownStep ==
  ASSUME CInv, CInv', LoopHearsShutdown, [CoordinatorNext]_cvars, ~Exit
  PROVE  LoopHearsShutdown'
<1>1. CASE LoopTurn
  <2>1. shutdown' = shutdown
    BY <1>1 DEF LoopTurn, PassEnds, LoopRetries, LoopWakes
  <2> QED BY <1>1, <2>1, TurnPcs DEF LoopTurn, LoopHearsShutdown, Stopping
<1>2. CASE ~LoopTurn /\ Stopping
  BY <1>2, LoopRests, WakesGrow, StepKeepsIdle DEF LoopHearsShutdown, IdleStays
<1>3. CASE ~Stopping /\ Stopping'
  <2>1. Shutdown
    BY <1>3, ShutdownMoves DEF Stopping, LoopEnded, Sweep
  <2>2. threads' = threads /\ wakes' = Woken(threads, wakes)
        /\ wakes \in [requested : BOOLEAN, resolved : BOOLEAN]
    BY <2>1, TypeParts DEF Shutdown, Wake, CInv, OthersOK
  <2> QED BY <2>2 DEF LoopHearsShutdown, Woken, ClaimPassRunning
<1> QED BY <1>1, <1>2, <1>3 DEF LoopHearsShutdown

\* No row becomes claimable.
NoneReady == \A s \in Submissions : Runnable(s)' => Runnable(s)

LEMMA SamePlacesReady ==
  ASSUME \A s \in Submissions : /\ rows'[s].status = rows[s].status
                                /\ rows'[s].ready = rows[s].ready
                                /\ rows'[s].sequence = rows[s].sequence
  PROVE  NoneReady
BY DEF NoneReady, Runnable, IsHead, Earlier, SameSession, Unsettled

LEMMA SameLedgerReady == LedgerUnchanged => NoneReady
BY SamePlacesReady DEF LedgerUnchanged, vars

LEMMA AdmitReady ==
  ASSUME Inv, NEW s \in Submissions, Admit(s)
  PROVE  NoneReady
<1> DEFINE q == [AbsentRow EXCEPT !.status = "queued", !.sequence = lastSequence + 1]
<1>1. \A t \in Submissions : rows'[t] = IF t = s THEN q ELSE rows[t]
  BY DEF Admit, Inv, TypeOK
<1>2. rows[s].status = "absent" /\ ~q.ready
  BY DEF Admit, AbsentRow
<1> HIDE DEF q
<1>3. ASSUME NEW u \in Submissions, Runnable(u)' PROVE Runnable(u)
  <2>1. u # s /\ rows'[u] = rows[u]
    BY <1>1, <1>2, <1>3 DEF Runnable
  <2>2. ASSUME NEW t \in Submissions, Earlier(t, u) PROVE ~Unsettled(t)
    <3>1. CASE t = s
      BY <1>2, <3>1 DEF Unsettled, UnsettledStatus
    <3>2. CASE t # s
      <4>1. rows'[t] = rows[t]
        BY <1>1, <3>2
      <4> QED BY <1>3, <2>1, <2>2, <4>1
              DEF Runnable, IsHead, Earlier, SameSession, Unsettled
    <3> QED BY <3>1, <3>2
  <2> QED BY <1>3, <2>1, <2>2 DEF Runnable, IsHead
<1> QED BY <1>3 DEF NoneReady

LEMMA LapseReady ==
  ASSUME Inv, NEW s \in Submissions, LeaseLapses(s)
  PROVE  NoneReady
<1>1. /\ \A t \in Submissions \ {s} : rows'[t] = rows[t]
      /\ rows'[s] = [rows[s] EXCEPT !.lease = "lapsed"] /\ rows[s] \in Row
  BY DEF LeaseLapses, Write, Inv, TypeOK
<1> QED BY <1>1, SamePlacesReady DEF Row

LEMMA HeartbeatReady ==
  ASSUME Inv, NEW o \in Owners, Heartbeat(o)
  PROVE  NoneReady
<1>1. \A s \in Submissions :
        rows[s] \in Row /\ rows'[s] \in {rows[s], [rows[s] EXCEPT !.lease = "live"]}
  BY DEF Heartbeat, Inv, TypeOK
<1> QED BY <1>1, SamePlacesReady DEF Row

LEMMA MarkReady ==
  ASSUME Inv, NEW s \in Submissions, MarkCanonicalReady(s)
  PROVE  \A u \in Submissions : Runnable(u)' => Runnable(u) \/ u = s
<1>1. \A t \in Submissions : /\ rows'[t].status = rows[t].status
                             /\ rows'[t].sequence = rows[t].sequence
                             /\ t # s => rows'[t].ready = rows[t].ready
  BY DEF MarkCanonicalReady, Write, Inv, TypeOK, Row
<1> QED BY <1>1 DEF Runnable, IsHead, Earlier, SameSession, Unsettled

\* A reserved settlement keeps the session's queue where it is, a finished one
\* lets the next of the session come forward.
LEMMA TaskReady ==
  ASSUME Inv, PlaceInv, NEW s \in Submissions, NEW a, NEW outcome,
         ReserveSettlement(s, a, outcome) \/ FinalizeSettlement(s, a),
         NEW u \in Submissions, Runnable(u)', ~Runnable(u)
  PROVE  FinalizeSettlement(s, a) /\ SameSession(s, u)
<1>1. /\ \A t \in Submissions \ {s} : rows'[t] = rows[t]
      /\ rows'[s].status \in {"terminalizing", "settled"}
      /\ rows'[s].sequence = rows[s].sequence
  BY SettlePlaces
<1>2. u # s /\ rows'[u] = rows[u]
  BY <1>1 DEF Runnable
<1>3. PICK t \in Submissions : Earlier(t, u) /\ Unsettled(t)
  BY <1>2 DEF Runnable, IsHead
<1>4. t = s /\ rows'[s].status = "settled"
  BY <1>1, <1>2, <1>3 DEF Runnable, IsHead, Earlier, SameSession, Unsettled, UnsettledStatus
<1>5. ReserveSettlement(s, a, outcome) => rows'[s].status = "terminalizing"
  BY DEF ReserveSettlement, Write, Reserved, Inv, TypeOK, Row
<1> QED BY <1>3, <1>4, <1>5 DEF Earlier, SameSession

-----------------------------------------------------------------------------
(* Claimable rows stay announced *)

LoopKeeps == \A s \in Submissions : LoopAnnounces(s) => LoopAnnounces(s)'

LEMMA FollowsKeeps == LoopFollows /\ wakes' = wakes => LoopKeeps
BY DEF LoopFollows, Follows, LoopKeeps, LoopAnnounces

\* wake() reaches the loop wherever it is.
LEMMA WakeAnnounces ==
  ASSUME CInv, wakes' = Woken(threads', wakes)
  PROVE  \A s \in Submissions : LoopAnnounces(s)'
<1>1. wakes \in [requested : BOOLEAN, resolved : BOOLEAN]
  BY TypeParts DEF CInv, OthersOK
<1> QED BY <1>1 DEF Woken, ClaimPassRunning, LoopAnnounces

LEMMA AwayAnnounces ==
  threads'["loop"].pc \notin {"asleep", "claims", "spawn", "end"} =>
    \A s \in Submissions : LoopAnnounces(s)'
BY DEF LoopAnnounces

LEMMA KeepsReady ==
  ASSUME CInv, LedgerMoves, lastAttempt' \in Nat, ReadyIsAnnounced,
         \A s \in Submissions :
           Runnable(s)' => Announced(s)' \/ (Runnable(s) /\ (Announced(s) => Announced(s)'))
  PROVE  ReadyIsAnnounced'
<1>1. lastAttempt' < MaxAttemptIds => lastAttempt < MaxAttemptIds
  BY DurabilityAssumption DEF CInv, Inv, TypeOK, LedgerMoves
<1> QED BY <1>1 DEF ReadyIsAnnounced

EndingsKept ==
  \A a \in Attempts :
    tasks[a].pc = "ending" => tasks'[a].pc = "ending" /\ tasks'[a].sub = tasks[a].sub

LEMMA CalmReady ==
  ASSUME CInv, LedgerMoves, lastAttempt' \in Nat, ReadyIsAnnounced, NoneReady, LoopKeeps,
         unannounced \subseteq unannounced', admissions \subseteq admissions', EndingsKept
  PROVE  ReadyIsAnnounced'
<1>1. \A s \in Submissions : Announced(s) => Announced(s)'
  BY DEF Announced, LoopKeeps, EndingsKept, SameSession
<1> QED BY <1>1, KeepsReady DEF NoneReady

LEMMA LoudReady ==
  ASSUME \A s \in Submissions : LoopAnnounces(s)'
  PROVE  ReadyIsAnnounced'
BY DEF ReadyIsAnnounced, Announced

\* What a reconciliation pass or start-up makes claimable is accounted for.
LEMMA SilentReady ==
  ASSUME CInv, LedgerMoves, lastAttempt' \in Nat, ReadyIsAnnounced, LoopKeeps,
         NEW th \in {"start", "pass"}, Silently(th),
         admissions' = admissions, tasks' = tasks
  PROVE  ReadyIsAnnounced'
<1>1. \A s \in Submissions : Runnable(s)' => Runnable(s) \/ s \in unannounced'
  BY DEF Silently
<1>2. unannounced \subseteq unannounced'
  BY DEF Silently
<1>3. \A s \in Submissions : Announced(s) => Announced(s)'
  BY <1>2 DEF Announced, LoopKeeps, SameSession
<1>4. \A s \in Submissions : s \in unannounced' => Announced(s)'
  BY DEF Announced
<1> QED BY <1>1, <1>3, <1>4, KeepsReady

LEMMA OutsideReady ==
  ASSUME CInv, CInv', ReadyIsAnnounced, Outside
  PROVE  ReadyIsAnnounced'
<1>0. LedgerMoves /\ lastAttempt' \in Nat
  BY StepMovesLedger DEF CoordinatorNext, CInv, Inv, TypeOK
<1>1. UNCHANGED <<process, unannounced>> /\ NoneReady => ReadyIsAnnounced'
  BY <1>0, CalmReady, FollowsKeeps, SameLoopFollows DEF process, EndingsKept
<1>2. ASSUME NEW s \in Submissions, BeginAdmission(s) PROVE ReadyIsAnnounced'
  BY <1>0, <1>2, SameLedgerReady, CalmReady, FollowsKeeps, SameLoopFollows
  DEF BeginAdmission, EndingsKept
<1>10. ASSUME NEW s \in Submissions, AdmissionRefused(s) PROVE ReadyIsAnnounced'
  <2>1. NoneReady /\ LoopKeeps
    BY <1>10, SameLedgerReady, FollowsKeeps, SameLoopFollows DEF AdmissionRefused
  <2>2. ASSUME NEW u \in Submissions, Runnable(u), Announced(u) PROVE Announced(u)'
    <3>1. u # s
      BY <1>10, <2>2 DEF AdmissionRefused, Runnable
    <3> QED BY <1>10, <2>1, <2>2, <3>1 DEF AdmissionRefused, Announced, LoopKeeps, SameSession
  <2> QED BY <1>0, <2>1, <2>2, KeepsReady DEF NoneReady
<1>11. ASSUME NEW s \in Submissions, AdmitRow(s) PROVE ReadyIsAnnounced'
  BY <1>1, <1>11, AdmitReady DEF AdmitRow, CInv
<1>3. ASSUME NEW s \in Submissions, Materialize(s) PROVE ReadyIsAnnounced'
  <2>1. \A u \in Submissions : Runnable(u)' => Runnable(u) \/ u = s
    BY <1>3, MarkReady DEF Materialize, CInv
  <2>2. s \in admissions' /\ UNCHANGED <<process, unannounced>>
    BY <1>3 DEF Materialize, process
  <2>3. LoopKeeps
    BY <2>2, FollowsKeeps, SameLoopFollows DEF process
  <2>4. \A u \in Submissions : Announced(u) => Announced(u)'
    BY <2>2, <2>3 DEF Announced, LoopKeeps, SameSession, process
  <2>5. Announced(s)'
    BY <2>2 DEF Announced
  <2> QED BY <1>0, <2>1, <2>4, <2>5, KeepsReady
<1>4. ASSUME NEW s \in Submissions, EndAdmission(s) PROVE ReadyIsAnnounced'
  BY <1>4, LoudReady, WakeAnnounces DEF EndAdmission, EnsureAndWake
<1>5. ASSUME NEW k \in Sessions, AbortInstance(k) PROVE ReadyIsAnnounced'
  <2>1. wakes' = Woken(Ensured(threads), wakes)
    BY <1>5 DEF AbortInstance
  <2>2. wakes' = Woken(threads', wakes)
    BY <1>5, <2>1, AbortEnsures DEF Woken, ClaimPassRunning
  <2> QED BY <2>2, WakeAnnounces, LoudReady
<1>6. CASE LeaseScanTimer
  BY <1>6, WakeAnnounces, LoudReady DEF LeaseScanTimer, Wake
<1>7. ASSUME NEW o \in Owners, Heartbeat(o) PROVE ReadyIsAnnounced'
  BY <1>1, <1>7, HeartbeatReady DEF Heartbeat, CInv
<1>8. ASSUME NEW s \in Submissions, LeaseRunsOut(s) PROVE ReadyIsAnnounced'
  BY <1>1, <1>8, LapseReady DEF LeaseRunsOut, CInv
<1>9. CASE Tick /\ UNCHANGED <<process, faults, unannounced>>
  BY <1>1, <1>9, SamePlacesReady DEF Tick
<1> QED BY <1>2, <1>3, <1>4, <1>5, <1>6, <1>7, <1>8, <1>9, <1>10, <1>11 DEF Outside

LEMMA TaskStepReady ==
  ASSUME CInv, CInv', PlaceInv, ReadyIsAnnounced, NEW a \in Attempts, TaskStep(a)
  PROVE  ReadyIsAnnounced'
<1>0. tasks \in [Attempts -> TaskState]
  BY TypeParts DEF CInv, OthersOK
<1>1. CASE TaskEnds(a)
  BY <1>1, WakeAnnounces, LoudReady DEF TaskEnds, Wake
<1>2. CASE ~TaskEnds(a)
  <2>1. \E pc \in {"settling", "ending"} : tasks' = [tasks EXCEPT ![a].pc = pc]
    BY <1>2 DEF TaskStep, TaskSettles, TaskFinalizes, TaskStops
  <2>2. /\ UNCHANGED <<threads, wakes, admissions, unannounced>>
        /\ tasks[a].pc \in {"running", "settling"} /\ tasks[a].sub \in Submissions
    BY <1>0, <1>2, TypeParts
    DEF TaskStep, TaskSettles, TaskFinalizes, TaskStops, Running, CInv, OthersOK, TaskState
  <2>3. EndingsKept
    BY <1>0, <2>1, <2>2 DEF EndingsKept
  <2>4. LoopKeeps
    BY <2>2, FollowsKeeps, SameLoopFollows
  <2>5. \A u \in Submissions : Announced(u) => Announced(u)'
    BY <2>2, <2>3, <2>4 DEF Announced, LoopKeeps, EndingsKept, SameSession
  <2>6. ASSUME NEW u \in Submissions, Runnable(u)', ~Runnable(u) PROVE Announced(u)'
    <3>1. ~LedgerUnchanged
      BY <2>6, SameLedgerReady DEF NoneReady
    <3>2. \/ \E outcome \in Outcomes : ReserveSettlement(tasks[a].sub, a, outcome)
          \/ FinalizeSettlement(tasks[a].sub, a) /\ tasks' = [tasks EXCEPT ![a].pc = "ending"]
      BY <1>2, <3>1 DEF TaskStep, TaskSettles, TaskFinalizes, TaskStops
    <3>3. PICK outcome : ReserveSettlement(tasks[a].sub, a, outcome)
                         \/ FinalizeSettlement(tasks[a].sub, a)
      BY <3>2
    <3>4. FinalizeSettlement(tasks[a].sub, a) /\ SameSession(tasks[a].sub, u)
      BY <2>2, <2>6, <3>3, TaskReady DEF CInv
    <3>5. ~ \E other : ReserveSettlement(tasks[a].sub, a, other)
      BY <3>4 DEF ReserveSettlement, FinalizeSettlement, Runs
    <3>6. tasks'[a].pc = "ending" /\ tasks'[a].sub = tasks[a].sub
      BY <1>0, <3>2, <3>5 DEF TaskState
    <3> QED BY <3>4, <3>6 DEF Announced, SameSession
  <2>7. LedgerMoves /\ lastAttempt' \in Nat
    BY StepMovesLedger DEF CoordinatorNext, CInv, Inv, TypeOK
  <2> QED BY <2>5, <2>6, <2>7, KeepsReady
<1> QED BY <1>1, <1>2

\* The loop at its lists.
LEMMA LoopWorks ==
  ASSUME ThreadsOK(threads), NEW pc \in {"unready", "claims"}, NEW T \in SUBSET Item,
         Work("loop", pc, T)
  PROVE  /\ threads'["loop"].pc = (IF T # {} THEN pc ELSE IF pc = "unready" THEN "due" ELSE "end")
         /\ threads'["loop"].todo = T
         /\ threads'["loop"].progressed = threads["loop"].progressed
<1>1. <<"loop", pc>> \in Lists
  BY DEF Lists
<1>2. /\ threads'["loop"].pc = (IF T = {} THEN After("loop")[pc] ELSE pc)
      /\ threads'["loop"].todo = T
      /\ threads'["loop"].progressed = threads["loop"].progressed
  BY <1>1, WorkMoves
<1>3. After("loop")["unready"] = "due" /\ After("loop")["claims"] = "end"
  BY DEF After
<1> QED BY <1>2, <1>3

LEMMA SpawnReady ==
  ASSUME CInv, CInv', TaskInv, ReadyIsAnnounced, SpawnReplacement \/ SpawnClaimed
  PROVE  ReadyIsAnnounced'
<1>0. ThreadsOK(threads) /\ tasks \in [Attempts -> TaskState]
  BY TypeParts DEF CInv, OthersOK
<1>1. PICK th \in {"loop", "pass"} :
        /\ threads[th].pc = "spawn" /\ threads[th].pc \in ItemPcs
        /\ Spawn(threads[th].item.sub, threads[th].item.attempt) /\ Return(th)
  BY DEF SpawnReplacement, SpawnClaimed, ItemPcs
<1>2. ~HasTask(threads[th].item.attempt)
  BY <1>1 DEF TaskInv, ClaimIsFresh, Fresh
<1>3. EndingsKept
  BY <1>0, <1>1, <1>2 DEF Spawn, EndingsKept, HasTask
<1>4. UNCHANGED <<wakes, admissions, unannounced>> /\ NoneReady
  BY SameLedgerReady DEF SpawnReplacement, SpawnClaimed
<1>5. LoopKeeps
  <2>1. CASE th = "pass"
    BY <1>0, <1>1, <1>4, <2>1, ReturnMoves, FollowsKeeps DEF LoopFollows, Threads
  <2>2. CASE th = "loop"
    <3>1. /\ Work("loop", "claims", threads["loop"].todo)
          /\ threads["loop"].todo \in SUBSET Item
      BY <1>0, <1>1, <2>2, HeldItem DEF Return, Threads
    <3>2. /\ threads'["loop"].pc = (IF threads["loop"].todo = {} THEN "end" ELSE "claims")
          /\ threads'["loop"].todo = threads["loop"].todo
          /\ threads'["loop"].progressed = threads["loop"].progressed
      BY <1>0, <3>1, LoopWorks
    <3> QED BY <1>1, <1>4, <2>2, <3>2 DEF LoopKeeps, LoopAnnounces
  <2> QED BY <2>1, <2>2
<1>6. LedgerMoves /\ lastAttempt' \in Nat
  BY StepMovesLedger
  DEF CoordinatorNext, ProcessStep, PassStep, LoopStep, CInv, Inv, TypeOK
<1> QED BY <1>3, <1>4, <1>5, <1>6, CalmReady

LEMMA UnreadyReady ==
  ASSUME CInv, CInv', ReadyIsAnnounced, NEW th \in Threads,
         ListUnready(th) \/ ReconcileUnready(th)
  PROVE  ReadyIsAnnounced'
<1>0. /\ LedgerMoves /\ lastAttempt' \in Nat /\ ThreadsOK(threads)
      /\ <<th, "unready">> \in Lists
  <2>1. CoordinatorNext
    BY DEF CoordinatorNext, ProcessStep, StartStep, LoopStep, PassStep, Threads
  <2> QED BY <2>1, StepMovesLedger, TypeParts DEF CInv, Inv, TypeOK, Lists, Threads
<1>1. UNCHANGED <<wakes, admissions, tasks>>
  BY DEF ListUnready, ReconcileUnready
<1>2. PICK T \in SUBSET Item : Work(th, "unready", T)
  BY UnreadyWork
<1>3. CASE th = "loop"
  <2>1. threads'["loop"].pc \in {"unready", "due"}
    BY <1>0, <1>2, <1>3, LoopWorks
  <2> QED BY <2>1, AwayAnnounces, LoudReady
<1>4. CASE th \in {"start", "pass"}
  <2>1. LoopKeeps
    BY <1>1, <1>4, UnreadyFollows, FollowsKeeps
  <2>2. CASE ListUnready(th)
    <3>1. NoneReady /\ unannounced' = unannounced
      BY <2>2, SameLedgerReady DEF ListUnready
    <3> QED BY <1>0, <1>1, <2>1, <3>1, CalmReady DEF EndingsKept
  <2>3. CASE ReconcileUnready(th)
    <3>1. Silently(th)
      BY <2>3 DEF ReconcileUnready
    <3> QED BY <1>0, <1>1, <1>4, <2>1, <3>1, SilentReady
  <2> QED BY <2>2, <2>3
<1> QED BY <1>3, <1>4 DEF Threads

LEMMA PassReady ==
  ASSUME CInv, CInv', TaskInv, ReadyIsAnnounced, PassStep,
         ~ListUnready("pass"), ~ReconcileUnready("pass")
  PROVE  ReadyIsAnnounced'
<1>0. LedgerMoves /\ lastAttempt' \in Nat
  BY StepMovesLedger DEF CoordinatorNext, ProcessStep, CInv, Inv, TypeOK
<1>1. CASE SpawnReplacement
  BY <1>1, SpawnReady
<1>2. CASE ~SpawnReplacement
  <2>1. UNCHANGED <<wakes, admissions, tasks>>
    BY <1>2 DEF PassStep, ListPending, FinalizeOwed, ListExpired, NextExpired, DecideExpired,
       FinalizeExpired
  <2>2. LoopKeeps
    BY <2>1, PassStepFollows, FollowsKeeps DEF PassStep, LoopFollows, Threads
  <2>3. CASE FinalizeOwed \/ DecideExpired \/ FinalizeExpired
    <3>1. Silently("pass")
      BY <2>3 DEF FinalizeOwed, DecideExpired, FinalizeExpired
    <3> QED BY <1>0, <2>1, <2>2, <3>1, SilentReady
  <2>4. CASE ListPending \/ ListExpired \/ NextExpired
    <3>1. NoneReady /\ unannounced' = unannounced
      BY <2>4, SameLedgerReady DEF ListPending, ListExpired, NextExpired
    <3> QED BY <1>0, <2>1, <2>2, <3>1, CalmReady DEF EndingsKept
  <2> QED BY SMTT(40), <1>2, <2>3, <2>4 DEF PassStep
<1> QED BY <1>1, <1>2

\* The list holds what is claimable.
LEMMA ListReady ==
  ASSUME CInv, ListRunnable
  PROVE  ReadyIsAnnounced'
<1> DEFINE T == Items({s \in Submissions : Runnable(s)})
<1>1. T \in SUBSET Item /\ ThreadsOK(threads) /\ <<"loop", "claims">> \in Lists
  BY ItemsAreItems, TypeParts DEF CInv, Inv, Lists
<1>2. /\ threads'["loop"].pc = (IF T = {} THEN "end" ELSE "claims")
      /\ threads'["loop"].todo = T
  <2>1. Work("loop", "claims", T)
    BY DEF ListRunnable
  <2> HIDE DEF T
  <2> QED BY <1>1, <2>1, LoopWorks
<1>3. ASSUME NEW s \in Submissions, Runnable(s)' PROVE Announced(s)'
  <2>1. Runnable(s)
    BY <1>3, SameLedgerReady DEF NoneReady, ListRunnable
  <2>2. ItemOf(s) \in T /\ ItemOf(s).sub = s
    BY <2>1 DEF Items, ItemOf
  <2>3. LoopAnnounces(s)'
    BY <1>2, <2>2 DEF LoopAnnounces
  <2> QED BY <2>3 DEF Announced
<1> QED BY <1>3 DEF ReadyIsAnnounced

\* What the loop passes over it need not claim.
LEMMA ClaimReady ==
  ASSUME CInv, CInv', PlaceInv, ReadyIsAnnounced, ClaimListed
  PROVE  ReadyIsAnnounced'
<1>0. ThreadsOK(threads) /\ <<"loop", "claims">> \in Lists
  BY TypeParts DEF CInv, Lists
<1>1. PICK i \in First(threads["loop"].todo) :
        /\ i \in Item /\ i.sub \in Submissions
        /\ threads["loop"].todo \ {i} \in SUBSET Item
        /\ \/ /\ \E o \in Owners : Claim(i.sub, o)
              /\ threads'["loop"].pc = "spawn" /\ threads'["loop"].progressed
              /\ \A u \in Threads \ {"loop"} : threads'[u] = threads[u]
           \/ /\ active[i.sub] # NoAttempt \/ ~Runnable(i.sub) \/ lastAttempt = MaxAttemptIds
              /\ Work("loop", "claims", threads["loop"].todo \ {i})
              /\ LedgerUnchanged
  BY ClaimWork
<1>2. CASE threads'["loop"].pc = "spawn" /\ threads'["loop"].progressed
  BY <1>2, LoudReady DEF LoopAnnounces
<1>3. CASE /\ active[i.sub] # NoAttempt \/ ~Runnable(i.sub) \/ lastAttempt = MaxAttemptIds
           /\ Work("loop", "claims", threads["loop"].todo \ {i})
           /\ LedgerUnchanged
  <2> DEFINE rest == threads["loop"].todo \ {i}
  <2>1. /\ threads'["loop"].pc = (IF rest = {} THEN "end" ELSE "claims")
        /\ threads'["loop"].todo = rest
        /\ threads'["loop"].progressed = threads["loop"].progressed
    <3>1. Work("loop", "claims", rest) /\ rest \in SUBSET Item
      BY <1>1, <1>3
    <3> HIDE DEF rest
    <3> QED BY <1>0, <3>1, LoopWorks
  <2>2. UNCHANGED <<wakes, admissions, tasks, unannounced>> /\ threads["loop"].pc = "claims"
    BY DEF ClaimListed
  <2>4. CASE lastAttempt = MaxAttemptIds
    BY <1>3, <2>4, DurabilityAssumption DEF LedgerUnchanged, vars, ReadyIsAnnounced
  <2>5. CASE ~Runnable(i.sub)
    <3>1. NoneReady /\ lastAttempt' = lastAttempt
      BY <1>3, SameLedgerReady DEF LedgerUnchanged, vars
    <3>2. ASSUME NEW s \in Submissions, Runnable(s)', Announced(s) PROVE Announced(s)'
      <4>1. s # i.sub
        BY <2>5, <3>1, <3>2 DEF NoneReady
      <4>2. LoopAnnounces(s) => LoopAnnounces(s)'
        BY <2>1, <2>2, <4>1 DEF LoopAnnounces
      <4> QED BY <2>2, <3>2, <4>2 DEF Announced, SameSession
    <3> QED BY <3>1, <3>2 DEF ReadyIsAnnounced, NoneReady
  <2>6. CASE active[i.sub] # NoAttempt
    BY <1>1, <2>5, <2>6 DEF PlaceInv, Runnable
  <2> QED BY <1>3, <2>4, <2>5, <2>6
<1> QED BY <1>1, <1>2, <1>3

LEMMA TurnReady ==
  ASSUME CInv, CInv', ReadyIsAnnounced, LoopHearsShutdown, LoopTurn
  PROVE  ReadyIsAnnounced'
<1>1. LedgerUnchanged /\ UNCHANGED <<admissions, tasks, unannounced, shutdown>>
  BY DEF LoopTurn, PassEnds, LoopRetries, LoopWakes
<1>2. CASE threads'["loop"].pc # "asleep"
  BY <1>2, TurnPcs, AwayAnnounces, LoudReady DEF LoopTurn
<1>3. CASE threads'["loop"].pc = "asleep"
  <2>1. threads["loop"].pc = "end" /\ ~wakes.requested /\ (~Stopping => ~threads["loop"].progressed)
    BY <1>3, TurnPcs DEF LoopTurn
  <2>2. ~Stopping
    BY <2>1 DEF LoopHearsShutdown
  <2>3. \A s \in Submissions : ~LoopAnnounces(s)
    BY <2>1, <2>2 DEF LoopAnnounces
  <2>4. \A s \in Submissions : Announced(s) => Announced(s)'
    BY <1>1, <2>3 DEF Announced, SameSession
  <2>5. NoneReady /\ lastAttempt' = lastAttempt
    BY <1>1, SameLedgerReady DEF LedgerUnchanged, vars
  <2> QED BY <2>4, <2>5 DEF ReadyIsAnnounced, NoneReady
<1> QED BY <1>2, <1>3

LEMMA LoopStepReady ==
  ASSUME CInv, CInv', TaskInv, PlaceInv, WakeInv, LoopStep
  PROVE  ReadyIsAnnounced'
<1>1. CASE LoopTurn
  BY <1>1, TurnReady DEF WakeInv
<1>2. CASE ListUnready("loop") \/ ReconcileUnready("loop")
  BY <1>2, UnreadyReady DEF WakeInv, Threads
<1>3. CASE DueScan \/ Enforce \/ StartScan \/ ForceSettle
  <2>0. ThreadsOK(threads)
    BY TypeParts DEF CInv
  <2>1. CASE DueScan \/ Enforce
    <3>1. ASSUME NEW T \in SUBSET Item, Work("loop", "enforce", T)
          PROVE  threads'["loop"].pc \in {"enforce", "enforced"}
      <4>1. <<"loop", "enforce">> \in Lists /\ After("loop")["enforce"] = "enforced"
        BY DEF Lists, After
      <4> QED BY <2>0, <3>1, <4>1, WorkMoves
    <3> QED BY <2>1, <3>1, EnforceWork, AwayAnnounces, LoudReady
  <2>2. CASE StartScan
    BY <2>2, ScanMoves, AwayAnnounces, LoudReady
  <2>3. CASE ForceSettle
    <3>1. threads["loop"].pc \in {"force", "finalize"} /\ threads["loop"].pc \in ItemPcs
      BY <2>3 DEF ForceSettle, ItemPcs
    <3>2. Return("loop") => threads'["loop"].pc \in {"enforce", "enforced"}
      BY <2>0, <3>1, ReturnMoves
    <3>3. Goto("loop", "finalize") => threads'["loop"].pc = "finalize"
      BY <2>0 DEF Goto, ThreadsOK, Threads, ThreadState
    <3>4. threads'["loop"].pc \in {"enforce", "enforced", "finalize"}
      BY <2>3, <3>2, <3>3 DEF ForceSettle, ReserveItem
    <3> QED BY <3>4, AwayAnnounces, LoudReady
  <2> QED BY <1>3, <2>1, <2>2, <2>3
<1> QED BY <1>1, <1>2, <1>3, ListReady, ClaimReady, SpawnReady DEF LoopStep, LoopTurn, WakeInv

LEMMA FailureReady ==
  ASSUME CInv, CInv', ReadyIsAnnounced, CallFails
  PROVE  ReadyIsAnnounced'
<1>0. /\ ThreadsOK(threads) /\ LedgerMoves /\ lastAttempt' \in Nat /\ NoneReady
      /\ UNCHANGED <<wakes, tasks, admissions, unannounced>>
  BY TypeParts, StepMovesLedger, SameLedgerReady
  DEF CInv, Inv, TypeOK, CoordinatorNext, CallFails
<1>1. LoopFollows => ReadyIsAnnounced'
  BY <1>0, FollowsKeeps, CalmReady DEF EndingsKept
<1>2. CASE LoopFails
  BY <1>0, <1>2, LoopFailsMoves, AwayAnnounces, LoudReady DEF Thread
<1>3. CASE PassFails
  <2>1. CASE threads["loop"].pc = "await"
    BY <1>0, <1>3, <2>1, PassFailsMoves, AwayAnnounces, LoudReady
  <2>2. CASE threads["loop"].pc # "await"
    <3>1. Follows("loop")
      BY <1>0, <1>3, <2>2, PassFailsMoves DEF Follows
    <3> QED BY <1>1, <3>1 DEF LoopFollows
  <2> QED BY <2>1, <2>2
<1>4. CASE threads["pass"].pc \in {"decide", "finalize", "spawn"} /\ Return("pass")
  <2>1. Follows("loop")
    BY <1>0, <1>4, ReturnMoves DEF Threads, ItemPcs
  <2> QED BY <1>1, <2>1 DEF LoopFollows
<1>5. CASE threads["loop"].pc \in {"force", "finalize"} /\ Return("loop")
  <2>1. threads'["loop"].pc \in {"enforce", "enforced"}
    BY <1>0, <1>5, ReturnMoves DEF ItemPcs
  <2> QED BY <2>1, AwayAnnounces, LoudReady
<1>6. CASE StartFails
  BY <1>0, <1>1, <1>6, StartFailsMoves, SameLoopFollows
<1> QED BY <1>2, <1>3, <1>4, <1>5, <1>6 DEF CallFails, ItemFails

LEMMA StartReady ==
  ASSUME CInv, CInv', ReadyIsAnnounced, Start
  PROVE  ReadyIsAnnounced'
<1>1. LoopFollows
  <2>1. \/ Follows("loop")
        \/ threads["loop"].pc = "off" /\ threads'["loop"].pc \in {"done", "begin"}
    BY StartMoves DEF Follows
  <2> QED BY <2>1 DEF LoopFollows
<1>2. /\ NoneReady /\ LedgerMoves /\ lastAttempt' \in Nat
      /\ UNCHANGED <<wakes, tasks, admissions, unannounced>>
  BY StepMovesLedger, SameLedgerReady
  DEF CInv, Inv, TypeOK, CoordinatorNext, ProcessStep, StartStep, Start
<1> QED BY <1>1, <1>2, FollowsKeeps, CalmReady DEF EndingsKept

LEMMA ShutdownReady ==
  ASSUME CInv, CInv', ReadyIsAnnounced, Shutdown \/ ShutdownStep
  PROVE  ReadyIsAnnounced'
<1>1. CASE Shutdown
  BY <1>1, WakeAnnounces, LoudReady DEF Shutdown, Wake
<1>2. CASE ShutdownStep
  <2>1. /\ NoneReady /\ LedgerMoves /\ lastAttempt' \in Nat
        /\ UNCHANGED <<threads, wakes, admissions, unannounced>>
    BY <1>2, StepMovesLedger, SameLedgerReady
    DEF CInv, Inv, TypeOK, CoordinatorNext, ShutdownStep, LoopEnded, Sweep, Close
  <2>2. \A a \in Attempts : tasks'[a].pc = tasks[a].pc /\ tasks'[a].sub = tasks[a].sub
    BY <1>2, TypeParts DEF ShutdownStep, LoopEnded, Sweep, Close, Signalled, CInv, OthersOK, TaskState
  <2> QED BY <2>1, <2>2, SameLoopFollows, FollowsKeeps, CalmReady DEF EndingsKept
<1> QED BY <1>1, <1>2

LEMMA NextWakeInv ==
  ASSUME CInv, CInv', TaskInv, PlaceInv, WakeInv, [CoordinatorNext]_cvars
  PROVE  WakeInv'
<1>1. CASE Exit
  BY <1>1, AwayAnnounces, LoudReady
  DEF Exit, FreshProcess, Thread, WakeInv, LoopHearsShutdown, Stopping
<1>2. CASE ~Exit
  <2>1. ReadyIsAnnounced'
    <3>1. CASE UNCHANGED cvars
      BY <3>1 DEF cvars, WakeInv, ReadyIsAnnounced, Runnable, IsHead, Earlier, SameSession,
         Unsettled, Announced, LoopAnnounces
    <3>2. CASE ProcessStep
      <4>1. CASE LoopStep
        BY <4>1, LoopStepReady
      <4>2. CASE PassStep
        BY <4>2, UnreadyReady, PassReady DEF WakeInv, Threads
      <4>3. CASE StartStep
        BY <4>3, UnreadyReady, StartReady DEF WakeInv, StartStep, Threads
      <4> QED BY <3>2, <4>1, <4>2, <4>3 DEF ProcessStep
    <3>3. CASE Outside \/ CallFails \/ Shutdown \/ ShutdownStep \/ \E a \in Attempts : TaskStep(a)
      BY <3>3, OutsideReady, FailureReady, ShutdownReady, TaskStepReady DEF WakeInv
    <3> QED BY <1>2, <3>1, <3>2, <3>3 DEF CoordinatorNext
  <2>2. LoopHearsShutdown'
    BY <1>2, HearsShutdownStep DEF WakeInv
  <2> QED BY <2>1, <2>2 DEF WakeInv
<1> QED BY <1>1, <1>2

LEMMA InitWakeInv == CoordinatorInit => WakeInv
BY DEF CoordinatorInit, Thread, WakeInv, ReadyIsAnnounced, Announced, LoopAnnounces,
       LoopHearsShutdown, Stopping

LEMMA SpecWakeInv == CoordinatorSpec => [](CInv /\ WakeInv)
<1>1. ProcessInv /\ WakeInv /\ [CoordinatorNext]_cvars => (ProcessInv /\ WakeInv)'
  BY NextCInv, NextTaskInv, NextPlaceInv, NextShutdownInv, NextWakeInv DEF ProcessInv
<1>2. CoordinatorInit => ProcessInv /\ WakeInv
  BY InitCInv, InitTaskInv, InitPlaceInv, InitShutdownInv, InitWakeInv DEF ProcessInv
<1>3. ProcessInv => CInv
  BY DEF ProcessInv
<1> QED BY <1>1, <1>2, <1>3, PTL DEF CoordinatorSpec

\* Type correctness of the coordinator: no thread loses an item of its list.
THEOREM CoordinatorTypeCorrect == CoordinatorSpec => []CoordinatorTypeOK
BY SpecCInv, PTL DEF CInv

\* A task whose row is still its own is the tracked one of its submission, whatever
\* claims, takeovers, forced settlements and failed calls come in between.
THEOREM TasksStayTracked == CoordinatorSpec => []TasksAreTracked
BY SpecTaskInv, TasksAreTrackedByInv, PTL

\* Once shutdown has told the tasks to stop, no attempt begins, no task is started,
\* and a row leaves its status only by the hand of a task that was told or has its
\* settlement reserved, whatever admissions, aborts and failures come late.
THEOREM ShutdownIsQuiet == CoordinatorSpec => NothingStartsAfterShutdown
<1>1. ProcessInv /\ [CoordinatorNext]_cvars =>
        [TasksTold =>
           /\ lastAttempt' = lastAttempt
           /\ \A a \in Attempts : tasks[a].pc = "none" => tasks'[a].pc = "none"
           /\ \A s \in Submissions :
                rows[s].status # "absent" /\ rows'[s].status # rows[s].status =>
                  \E a \in Attempts :
                    /\ tasks[a].sub = s
                    /\ tasks[a].pc = "settling" \/ tasks[a].signal # "none"]_cvars
  BY ToldIsQuiet DEF ProcessInv
<1> QED BY <1>1, SpecProcessInv, PTL DEF CoordinatorSpec, NothingStartsAfterShutdown

\* The claim loop does not sleep over a row it could claim, unless the admission of
\* that row or a task of its session is about to wake it, or the reconciliation pass
\* or the start-up made the row claimable.
THEOREM NoWakeupIsLost == CoordinatorSpec => []NoWakeIsLost
BY SpecWakeInv, NoWakeIsLostByInv, PTL

\* Whatever the coordinator does, crashes and races included, is a behaviour of
\* the submission ledger.
THEOREM CoordinatorFollowsLedger == CoordinatorSpec => Spec
<1>1. CoordinatorInit => Init
  BY DEF CoordinatorInit
<1> QED BY <1>1, NextCInv, SpecCInv, PTL DEF CoordinatorSpec, Spec

\* So under the coordinator a session executes in admission order, ...
THEOREM CoordinatorKeepsAdmissionOrder == CoordinatorSpec => []ExecutesInAdmissionOrder
BY CoordinatorFollowsLedger, AdmissionOrder, PTL

\* ... a settled row never changes, ...
THEOREM CoordinatorNeverResettles == CoordinatorSpec => SettledIsFinal
BY CoordinatorFollowsLedger, FirstTerminalStateWins, PTL

\* ... and a reserved settlement is carried out as reserved.
THEOREM CoordinatorKeepsObligations == CoordinatorSpec => ObligationIsKept
BY CoordinatorFollowsLedger, ObligationsAreKept, PTL

\* A coordinator that fails over, drains, crashes and starts again gives its
\* callers the service of AcceptedWork.
THEOREM CoordinatorKeepsPromise == CoordinatorSpec => PromiseIsKept
BY CoordinatorFollowsLedger, LedgerKeepsPromise, PTL

=============================================================================
