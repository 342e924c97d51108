-------------------------- MODULE ConversationWriter --------------------------
(***************************************************************************)
(* The writers of one conversation stream                                  *)
(* (src/packages/runtime/src/conversation-writer.ts) and the fold host     *)
(* that each process shares between its writer and its readers             *)
(* (src/packages/runtime/src/conversation-fold-host.ts), above the store   *)
(* of ConversationStream.                                                  *)
(*                                                                         *)
(* A writer object is named by the epoch of its claim.  Its promises and   *)
(* microtasks are separate steps, and so are the two halves of a call to   *)
(* the store: a call is under way, it is executed, its answer arrives or   *)
(* is lost, and a call given up by its writer may still be executed later. *)
(* A fold is the sequence of the offsets applied to it.                    *)
(***************************************************************************)
EXTENDS ConversationStream

CONSTANTS
  Refused,    \* ids of records that the reducer throws on
  Folding,    \* bound: processes whose fold hosts are used
  MaxEpochs,  \* bound: claims ever acquired
  MaxRecords, \* bound: records ever handed to a writer
  MaxPending  \* bound: records that wait for one flush

ASSUME WriterAssumption ==
  /\ MaxEpochs \in Nat /\ MaxRecords \in Nat /\ MaxPending \in Nat
  /\ Folding \subseteq Producers
  /\ Refused \subseteq Nat
  /\ None \notin Seq(Nat)

VARIABLES
  writers,    \* ConversationRecordWriter objects, by epoch
  calls,      \* store.append calls under way
  hosts,      \* ConversationFoldHost of each process
  lastRecord, \* records handed so far are 1 .. lastRecord
  answers     \* what the promise of each record's caller says

vars == <<stream, log, writers, calls, hosts, lastRecord, answers>>

Epochs == 1 .. MaxEpochs
RecordIds == 1 .. MaxRecords

Fold == Seq(Nat)
Through(fold) == IF fold = <<>> THEN 0 ELSE fold[Len(fold)]

\* An operation on the writer's tail: its batch, and whether a flush put it there.
Operation == [batch : Batch, flush : BOOLEAN]
Reply == [is : {"none", "stored", "refused"}, offset : Nat]
NoReply == [is |-> "none", offset |-> 0]

Writer ==
  [status   : {"none", "active", "failed", "gone"},
   producer : Producers \cup {None},
   next     : Nat,                             \* nextProducerSequence
   tail     : Seq(Operation),                  \* handed to appendBatch, done ones included
   try      : 0 .. 2,                          \* the call of the current operation
   reply    : [is : {"none", "stored", "refused"}, offset : Nat],
   reduces  : BOOLEAN,                         \* the operation reduced its batch first
   memo     : Fold \cup {None},                \* reducedState
   load     : {None} \cup [before : Nat, loaded : Fold \cup {None}],
   pending  : Seq(Record),                     \* pendingRecords
   timer    : {"none", "armed", "fired"},      \* pendingTimer, kept after it fired
   woken    : BOOLEAN,                         \* a microtask will flush
   flushing : {"none", "running", "rejected"}, \* the promise in flushing
   chained  : BOOLEAN]                         \* a flush waits for that promise

NoWriter ==
  [status |-> "none", producer |-> None, next |-> 0, tail |-> <<>>, try |-> 0,
   reply |-> NoReply, reduces |-> FALSE, memo |-> None, load |-> None,
   pending |-> <<>>, timer |-> "none", woken |-> FALSE, flushing |-> "none",
   chained |-> FALSE]

Host == [state   : Fold \cup {None},
         advance : {None} \cup [for : Epochs \cup {None}, base : Fold \cup {None},
                                read : Fold \cup {None}]]
NoHost == [state |-> None, advance |-> None]

Answer == [is : {"none", "open", "stored", "rejected", "lost"}, offset : Nat]
Unanswered == [is |-> "open", offset |-> 0]

Ids(records) == {records[i].id : i \in DOMAIN records}
Active(e) == writers[e].status = "active"
Current(e) == writers[e].tail[writers[e].next + 1].batch
\* Mutant: a retry goes out under a number of its own.
FreshCallOf(e) == [producer |-> writers[e].producer, epoch |-> e,
                   sequence |-> writers[e].next + writers[e].try, batch |-> Current(e)]
CallOf(e) == [producer |-> writers[e].producer, epoch |-> e,
              sequence |-> writers[e].next, batch |-> Current(e)]

\* Records the writer has promised an answer for.
Owed(w) ==
  Ids(w.pending)
    \cup UNION {Ids(w.tail[i].batch.records) : i \in (w.next + 1) .. Len(w.tail)}
Answered(ids, is, offset) ==
  [r \in RecordIds |-> IF r \in ids THEN [is |-> is, offset |-> offset] ELSE answers[r]]

Init ==
  /\ StreamInit
  /\ writers = [e \in Epochs |-> NoWriter]
  /\ calls = {}
  /\ hosts = [p \in Producers |-> NoHost]
  /\ lastRecord = 0
  /\ answers = [r \in RecordIds |-> [is |-> "none", offset |-> 0]]

-----------------------------------------------------------------------------
(* Opening a writer *)

Create ==
  /\ CreateStream
  /\ UNCHANGED <<writers, calls, hosts, lastRecord, answers>>

\* A process opens a writer when it has none, or when its last one failed.  The
\* claim may be lost on its way back: its epoch is spent all the same.
Open(p) ==
  /\ stream.epoch < MaxEpochs
  /\ \A e \in Epochs : Active(e) => writers[e].producer # p
  /\ AcquireProducer(p)
  /\ \/ writers' = [writers EXCEPT ![stream'.epoch] =
                      [NoWriter EXCEPT !.status = "active", !.producer = p]]
     \/ UNCHANGED writers
  /\ UNCHANGED <<calls, hosts, lastRecord, answers>>

-----------------------------------------------------------------------------
(* Handing records over *)

\* flush(): behind a flush under way it waits for that one, behind one that was
\* rejected it is rejected too; otherwise the pending records go to the tail.
BatchOf(records) == [records |-> records, owner |-> records[Len(records)].owner]
\* Mutant: a flush that finds one under way is content with that one.
FlushedUnchained(w) ==
  IF w.pending = <<>> \/ w.flushing # "none" THEN w
  ELSE [w EXCEPT !.timer = "none", !.pending = <<>>, !.flushing = "running",
          !.tail = Append(w.tail, [batch |-> BatchOf(w.pending), flush |-> TRUE])]
Flushed(w) ==
  IF w.pending = <<>> THEN IF w.flushing = "none" THEN [w EXCEPT !.timer = "none"] ELSE w
  ELSE CASE w.flushing = "running"  -> [w EXCEPT !.chained = TRUE]
         [] w.flushing = "rejected" -> w
         [] w.flushing = "none" ->
              [w EXCEPT !.timer = "none", !.pending = <<>>, !.flushing = "running",
                 !.tail = Append(w.tail, [batch |-> BatchOf(w.pending), flush |-> TRUE])]

Write(e, w) ==
  /\ writers' = [writers EXCEPT ![e] = w]
  /\ UNCHANGED <<stream, log, calls, hosts, lastRecord, answers>>

Hand(e, w) ==
  /\ lastRecord < MaxRecords
  /\ lastRecord' = lastRecord + 1
  /\ answers' = [answers EXCEPT ![lastRecord + 1] = Unanswered]
  /\ writers' = [writers EXCEPT ![e] = w]
  /\ UNCHANGED <<stream, log, calls, hosts>>

\* append(): straight to the tail, past whatever is pending.
AppendRecord(e, owner) ==
  /\ Active(e)
  /\ LET records == <<[id |-> lastRecord + 1, owner |-> owner]>>
     IN  Hand(e, [writers[e] EXCEPT !.tail =
                    Append(@, [batch |-> BatchOf(records), flush |-> FALSE])])

\* Mutant: pending records of one attempt take in those of another.
MayJoinAny(w, owner) == TRUE
MayJoin(w, owner) ==
  \A i \in DOMAIN w.pending : w.pending[i].owner = owner

\* How an enqueue makes sure of a flush.
Woken(w) ==
  IF w.timer # "none" THEN {w}
  ELSE {[w EXCEPT !.woken = TRUE], [w EXCEPT !.timer = "armed"]}

\* enqueue(): the record waits for a flush.  Without a timer handle a timer is
\* set, or a microtask queued when the last flush is long ago.
Enqueue(e, owner) ==
  /\ Active(e)
  /\ Len(writers[e].pending) < MaxPending
  /\ MayJoin(writers[e], owner)
  /\ \E w \in Woken([writers[e] EXCEPT
                       !.pending = Append(@, [id |-> lastRecord + 1, owner |-> owner])]) :
       Hand(e, w)

FlushNow(e) ==
  /\ Active(e)
  /\ Flushed(writers[e]) # writers[e]
  /\ Write(e, Flushed(writers[e]))

TimerFires(e) ==
  /\ Active(e)
  /\ writers[e].timer = "armed"
  /\ Write(e, Flushed([writers[e] EXCEPT !.timer = "fired"]))

MicrotaskFlushes(e) ==
  /\ Active(e)
  /\ writers[e].woken
  /\ Write(e, Flushed([writers[e] EXCEPT !.woken = FALSE]))

ChainedFlush(e) ==
  /\ Active(e)
  /\ writers[e].chained
  /\ writers[e].flushing # "running"
  /\ Write(e, IF writers[e].flushing = "rejected"
                THEN [writers[e] EXCEPT !.chained = FALSE]
                ELSE Flushed([writers[e] EXCEPT !.chained = FALSE]))

-----------------------------------------------------------------------------
(* Calls to the store *)

\* The operation at the head of the tail starts.  With a reduced state it
\* reduces its batch first, and a batch the reducer throws on ends it there:
\* the caller is rejected, the writer lives on, and a flush keeps the rejected
\* promise.
Ready(e) ==
  Active(e) /\ writers[e].try = 0 /\ writers[e].next < Len(writers[e].tail)
Throws(e) ==
  writers[e].memo # None /\ Ids(Current(e).records) \cap Refused # {}

RejectOperation(e) ==
  /\ Ready(e)
  /\ Throws(e)
  /\ LET w == writers[e]
         n == w.next
     IN  writers' = [writers EXCEPT
           ![e].tail = SubSeq(w.tail, 1, n) \o SubSeq(w.tail, n + 2, Len(w.tail)),
           ![e].flushing = IF w.tail[n + 1].flush THEN "rejected" ELSE @]
  /\ answers' = Answered(Ids(Current(e).records), "rejected", 0)
  /\ UNCHANGED <<stream, log, calls, hosts, lastRecord>>

StartOperation(e) ==
  /\ Ready(e)
  /\ ~Throws(e)
  /\ calls' = calls \cup {[try |-> 1, call |-> CallOf(e)]}
  /\ writers' = [writers EXCEPT ![e].try = 1, ![e].reduces = writers[e].memo # None]
  /\ UNCHANGED <<stream, log, hosts, lastRecord, answers>>

\* The writer of the call hears of its outcome, unless it gave the call up.
Replied(c, is, offset) ==
  LET e == c.call.epoch
  IN  IF Active(e) /\ writers[e].try = c.try /\ writers[e].next = c.call.sequence
        THEN [writers EXCEPT ![e].reply = [is |-> is, offset |-> offset]]
        ELSE writers

Execute(c, accepted) ==
  /\ c \in calls
  /\ calls' = calls \ {c}
  /\ \/ /\ Admits(c.call, accepted)
        /\ AppendBatch(c.call)
        /\ writers' = Replied(c, "stored", Len(log) + 1)
     \/ /\ \E offset \in DOMAIN log :
             Repeats(c.call, offset) /\ writers' = Replied(c, "stored", offset)
        /\ UNCHANGED <<stream, log>>
     \/ /\ ~Admits(c.call, accepted)
        /\ \A offset \in DOMAIN log : ~Repeats(c.call, offset)
        /\ writers' = Replied(c, "refused", 0)
        /\ UNCHANGED <<stream, log>>
  /\ UNCHANGED <<hosts, lastRecord, answers>>

\* Mutant: the host takes in whatever its writer hands it.
AdoptedAnyhow(state, fold) == fold
\* adoptState(): a strictly newer state of the host stays.
Adopted(state, fold) ==
  IF state = None \/ Through(fold) >= Through(state) THEN fold ELSE state

\* Mutant: the number of the batch is used again.
SucceededWithoutBump(w) ==
  [w EXCEPT !.try = 0, !.reply = NoReply, !.tail = Tail(w.tail),
            !.flushing = IF w.tail[w.next + 1].flush THEN "none" ELSE w.flushing]
Succeeded(w) ==
  [w EXCEPT !.next = w.next + 1, !.try = 0, !.reply = NoReply, !.reduces = FALSE,
            !.memo = IF w.reduces THEN Append(w.memo, w.reply.offset) ELSE w.memo,
            !.flushing = IF w.tail[w.next + 1].flush THEN "none" ELSE w.flushing]

CallSucceeds(e) ==
  /\ Active(e)
  /\ writers[e].reply.is = "stored"
  /\ writers' = [writers EXCEPT ![e] = Succeeded(writers[e])]
  /\ answers' = Answered(Ids(Current(e).records), "stored", writers[e].reply.offset)
  /\ hosts' = IF writers[e].reduces
                THEN [hosts EXCEPT ![writers[e].producer].state =
                        Adopted(@, Succeeded(writers[e]).memo)]
                ELSE hosts
  /\ UNCHANGED <<stream, log, calls, lastRecord>>

\* The call throws: the store refused it, or its answer, be it good, is lost and
\* nobody knows whether it was or will be executed.  The first time the same
\* call goes out again.
Retry(e) ==
  /\ Active(e)
  /\ writers[e].try = 1
  /\ calls' = calls \cup {[try |-> 2, call |-> CallOf(e)]}
  /\ writers' = [writers EXCEPT ![e].try = 2, ![e].reply = NoReply]
  /\ UNCHANGED <<stream, log, hosts, lastRecord, answers>>

\* Mutant: the failed writer takes back what it has confirmed.
ToldAll(e) ==
  {r \in RecordIds : \E i \in DOMAIN writers[e].tail :
     r \in Ids(writers[e].tail[i].batch.records)}
\* fail(), and the operations behind on the tail, which find the writer failed.
ToldOfFailure(e) == Owed(writers[e])
Ended(w, status) ==
  [NoWriter EXCEPT !.status = status, !.producer = w.producer,
                   !.next = w.next, !.tail = w.tail]

Fail(e) ==
  /\ Active(e)
  /\ writers[e].try = 2
  /\ writers' = [writers EXCEPT ![e] = Ended(writers[e], "failed")]
  /\ answers' = Answered(ToldOfFailure(e), "rejected", 0)
  /\ UNCHANGED <<stream, log, calls, hosts, lastRecord>>

\* The process ends: its writer and fold host go, and the callers with them.
Crash(p) ==
  /\ \E e \in Epochs : Active(e) /\ writers[e].producer = p
  /\ writers' = [e \in Epochs |->
                   IF Active(e) /\ writers[e].producer = p
                     THEN Ended(writers[e], "gone") ELSE writers[e]]
  /\ hosts' = [hosts EXCEPT ![p] = NoHost]
  /\ answers' = Answered(UNION {Owed(writers[e]) : e \in {f \in Epochs :
                                  Active(f) /\ writers[f].producer = p}}, "lost", 0)
  /\ UNCHANGED <<stream, log, calls, lastRecord>>

-----------------------------------------------------------------------------
(* Folds *)

\* A load of the writer's state asks its process's host for the state at the
\* head; the host serves one request at a time, its own readers' among them.
BeginLoad(e) ==
  /\ Active(e) /\ writers[e].producer \in Folding
  /\ writers[e].memo = None /\ writers[e].load = None
  /\ Write(e, [writers[e] EXCEPT !.load = [before |-> writers[e].next, loaded |-> None]])

Loading(e, p) ==
  /\ Active(e) /\ writers[e].producer = p
  /\ writers[e].load # None
  /\ writers[e].load.loaded = None

StartAdvance(p, for) ==
  /\ stream.created /\ p \in Folding
  /\ hosts[p].advance = None
  /\ for # None => Loading(for, p)
  /\ hosts' = [hosts EXCEPT ![p].advance =
                 [for |-> for, base |-> hosts[p].state, read |-> None]]
  /\ UNCHANGED <<stream, log, writers, calls, lastRecord, answers>>

\* The suffix of the log is read and folded onto a clone of the base; a batch
\* the reducer throws on rejects the request and leaves the host as it was.
Suffix(fold) == [i \in 1 .. (Len(log) - Through(fold)) |-> Through(fold) + i]
BaseOf(h) == IF h.advance.base = None THEN <<>> ELSE h.advance.base
ReadAdvance(p) ==
  LET h == hosts[p]
      suffix == Suffix(BaseOf(h))
      for == h.advance.for
  IN  /\ h.advance # None /\ h.advance.read = None
      /\ IF \E i \in DOMAIN suffix : Ids(log[suffix[i]].batch.records) \cap Refused # {}
           THEN /\ hosts' = [hosts EXCEPT ![p].advance = None]
                /\ writers' = IF for # None /\ Loading(for, p)
                                THEN [writers EXCEPT ![for].load = None] ELSE writers
           ELSE /\ hosts' = [hosts EXCEPT ![p].advance.read = BaseOf(h) \o suffix]
                /\ UNCHANGED writers
      /\ UNCHANGED <<stream, log, calls, lastRecord, answers>>

\* Mutant: the window is folded onto the state of now, not onto the snapshot
\* that its offset was taken from.
AdvancedOnto(h) ==
  IF h.advance.base = None THEN h.advance.read
  ELSE h.state \o SubSeq(h.advance.read, Len(h.advance.base) + 1, Len(h.advance.read))
\* A state that the writer had adopted meanwhile stays unless this one is newer.
Advanced(h) ==
  IF h.advance.base = None \/ Through(h.advance.read) > Through(h.state)
    THEN h.advance.read ELSE h.state

FinishAdvance(p) ==
  LET h == hosts[p]
      for == h.advance.for
  IN  /\ h.advance # None /\ h.advance.read # None
      /\ hosts' = [hosts EXCEPT ![p] = [state |-> Advanced(h), advance |-> None]]
      /\ writers' = IF for # None /\ Loading(for, p)
                      THEN [writers EXCEPT ![for].load.loaded = Advanced(h)]
                      ELSE writers
      /\ UNCHANGED <<stream, log, calls, lastRecord, answers>>

\* The loaded state becomes the writer's, unless a batch landed since the load
\* began; then it loads again.
ReturnLoad(e) ==
  /\ Active(e)
  /\ writers[e].load # None /\ writers[e].load.loaded # None
  /\ LET w == writers[e]
     IN  Write(e, IF w.load.before = w.next
                    THEN [w EXCEPT !.memo = w.load.loaded, !.load = None]
                    ELSE [w EXCEPT !.load = [before |-> w.next, loaded |-> None]])

-----------------------------------------------------------------------------
HandStep ==
  \E e \in Epochs :
    \/ \E owner \in Attempts \cup {None} : AppendRecord(e, owner) \/ Enqueue(e, owner)
    \/ FlushNow(e)

FlushStep(e) == TimerFires(e) \/ MicrotaskFlushes(e) \/ ChainedFlush(e)
OperationStep(e) == RejectOperation(e) \/ StartOperation(e)
ReturnStep(e) == CallSucceeds(e) \/ Retry(e) \/ Fail(e)

FoldStep ==
  \/ \E e \in Epochs : BeginLoad(e) \/ ReturnLoad(e)
  \/ \E p \in Producers :
       \/ \E for \in Epochs \cup {None} : StartAdvance(p, for)
       \/ ReadAdvance(p)
       \/ FinishAdvance(p)

Next ==
  \/ Create
  \/ \E p \in Producers : Open(p) \/ Crash(p)
  \/ HandStep
  \/ \E e \in Epochs : FlushStep(e) \/ OperationStep(e) \/ ReturnStep(e)
  \/ \E c \in calls, accepted \in BOOLEAN : Execute(c, accepted)
  \/ FoldStep

Spec == Init /\ [][Next]_vars

\* Timers fire, microtasks run, and a call to the store settles, with an answer
\* or an error.  Nothing makes the store execute a call, and nobody has to hand
\* a record over, to flush, to load or to open a writer.
WriterFairness ==
  \A e \in Epochs :
    /\ WF_vars(TimerFires(e))
    /\ WF_vars(MicrotaskFlushes(e))
    /\ WF_vars(ChainedFlush(e))
    /\ WF_vars(OperationStep(e))
    /\ WF_vars(ReturnStep(e))
FairSpec == Spec /\ WriterFairness

-----------------------------------------------------------------------------
(* Properties *)

\* Every variable has its type.
TypeOK ==
  /\ stream \in Stream
  /\ log \in Seq(Call)
  /\ writers \in [Epochs -> Writer]
  /\ calls \subseteq [try : 1 .. 2, call : Call]
  /\ hosts \in [Producers -> Host]
  /\ lastRecord \in 0 .. MaxRecords
  /\ answers \in [RecordIds -> Answer]

\* A record lands once, whatever was repeated, lost or executed late: no two
\* batches of the log share one, and no batch holds one twice.
RecordsLandOnce ==
  \A i, j \in DOMAIN log :
    \A m \in DOMAIN log[i].batch.records, n \in DOMAIN log[j].batch.records :
      log[i].batch.records[m].id = log[j].batch.records[n].id => i = j /\ m = n

\* The log tells its writers apart: the batches of one claim are numbered from
\* zero without a gap, and no batch of an earlier claim follows one of a later.
ClaimsFollowEachOther ==
  \A i \in DOMAIN log :
    \/ log[i].sequence = 0 /\ (i > 1 => log[i - 1].epoch < log[i].epoch)
    \/ i > 1 /\ log[i].epoch = log[i - 1].epoch /\ log[i].sequence = log[i - 1].sequence + 1

\* What the callers of a writer handed over lands in the order of its tail: the
\* batches of a claim in the log are those at the front of the tail, and at most
\* the one being appended is there before the writer knows.
Landed(e) == {i \in DOMAIN log : log[i].epoch = e}
TailLandsInOrder ==
  \A e \in Epochs :
    \A i \in Landed(e) :
      /\ log[i].sequence <= writers[e].next
      /\ log[i].sequence < Len(writers[e].tail)
      /\ log[i].batch = writers[e].tail[log[i].sequence + 1].batch

\* A batch is written under the attempt that every record of it was made by: the
\* ledger's authorization of the batch is one of each record.
BatchesHaveOneOwner ==
  \A i \in DOMAIN log :
    \A m \in DOMAIN log[i].batch.records :
      log[i].batch.records[m].owner = log[i].batch.owner

\* The current writer is never refused a batch of its own that has landed: an
\* answer lost once costs nothing.
LandedBatchesAreConfirmed ==
  [][\A e \in Epochs :
       /\ writers[e].reply.is = "none" /\ writers'[e].reply.is = "refused"
       /\ stream.epoch = e
       => ~\E i \in Landed(e) : log[i].sequence = writers[e].next]_vars

\* No fold applies a batch twice or out of order: neither the one a writer keeps
\* nor the one a host shows, whichever of a reader's advance and a writer's
\* adoption comes first.  (A batch left out is not excluded.)
Ascends(fold) ==
  fold # None =>
    \A i \in DOMAIN fold :
      fold[i] \in DOMAIN log /\ (i > 1 => fold[i - 1] < fold[i])
FoldsNeverRepeat ==
  /\ \A e \in Epochs : Ascends(writers[e].memo)
  /\ \A p \in Producers : Ascends(hosts[p].state)

\* A host never falls back behind a state it has shown its readers.
HostsNeverGoBack ==
  [][\A p \in Producers :
       hosts[p].state # None /\ hosts'[p].state # None =>
         Through(hosts[p].state) <= Through(hosts'[p].state)]_vars

\* Whoever hands a record to a writer hears what became of it, unless the
\* process ends.
EveryRecordIsAnswered ==
  \A r \in RecordIds : answers[r].is = "open" ~> answers[r].is # "open"
=============================================================================
