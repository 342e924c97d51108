--------------------- MODULE ConversationRefinementProofs ---------------------
(***************************************************************************)
(* Proof that the stream and its writers keep the promise of DurableLog.   *)
(* Beyond the invariant of ConversationWriterProofs it needs that a record *)
(* is unknown to its caller until it is handed over, and open as long as a *)
(* live writer owes an answer for it.                                      *)
(***************************************************************************)
EXTENDS ConversationRefinement, ConversationWriterProofs

\* The writer owes the record's caller an answer.
Owes(w, r) ==
  \/ \E m \in DOMAIN w.pending : w.pending[m].id = r
  \/ \E i \in DOMAIN w.tail :
       i > w.next /\ \E m \in DOMAIN w.tail[i].batch.records : w.tail[i].batch.records[m].id = r

AnswersAreTrue ==
  /\ \A r \in RecordIds : answers[r].is = "none" <=> r > lastRecord
  /\ \A e \in Epochs : Active(e) =>
       \A r \in RecordIds : Owes(writers[e], r) => answers[r].is = "open"

LEMMA OwedIsOwes ==
  ASSUME NEW w, WriterOK(w)
  PROVE  \A r : r \in Owed(w) <=> Owes(w, r)
<1>1. w.tail \in Seq(Operation) /\ w.next \in Nat
  BY DEF WriterOK, Writer
<1>2. DOMAIN w.tail = 1 .. Len(w.tail) /\ Len(w.tail) \in Nat
  BY <1>1, LenProperties
<1>3. \A i : i \in (w.next + 1) .. Len(w.tail) <=> i \in DOMAIN w.tail /\ i > w.next
  BY <1>1, <1>2
<1> QED BY <1>3 DEF Owed, Owes, Ids

\* Only the writer that holds a record owes an answer for it.
LEMMA OwesHolds ==
  ASSUME WInv
  PROVE  /\ \A w, r : Owes(w, r) => Holds(w, r)
         /\ \A e \in Epochs : \A r : Owes(writers[e], r) => r \in RecordIds /\ r <= lastRecord
         /\ \A e, f \in Epochs : \A r : Owes(writers[e], r) /\ Owes(writers[f], r) => e = f
<1>1. \A w, r : Owes(w, r) => Holds(w, r)
  BY DEF Owes, Holds
<1>2. \A e \in Epochs : \A r : Holds(writers[e], r) => r \in 1 .. lastRecord
  BY DEF WInv, WritersOK
<1>3. 1 .. lastRecord \subseteq RecordIds /\ lastRecord \in Nat
  BY WriterAssumption DEF WInv, TypeOK, RecordIds
<1> QED BY <1>1, <1>2, <1>3 DEF WInv, WritersOK

\* What a live writer owes after a step it owed before.
OwesNoMore(w, v) ==
  v.status = "active" =>
    \/ w.status = "active" /\ \A r : Owes(v, r) => Owes(w, r)
    \/ \A r : ~Owes(v, r)

\* No caller is told anything.
LEMMA NothingSaid ==
  ASSUME AnswersAreTrue, UNCHANGED <<lastRecord, answers>>,
         \A e \in Epochs : OwesNoMore(writers[e], writers'[e])
  PROVE  AnswersAreTrue'
BY DEF AnswersAreTrue, OwesNoMore, Active

LEMMA OneSaysNothing ==
  ASSUME WInv, AnswersAreTrue, UNCHANGED <<lastRecord, answers>>, NEW e \in Epochs, NEW v,
         writers' = [writers EXCEPT ![e] = v], OwesNoMore(writers[e], v)
  PROVE  AnswersAreTrue'
<1>1. \A f \in Epochs : OwesNoMore(writers[f], writers'[f])
  BY Parts DEF OwesNoMore
<1> QED BY <1>1, NothingSaid

\* Callers are told, and those of the other records are not.
LEMMA SomeTold ==
  ASSUME WInv, AnswersAreTrue, UNCHANGED lastRecord, NEW ids,
         NEW is \in {"stored", "rejected", "lost"}, NEW offset,
         answers' = Answered(ids, is, offset),
         \A r \in ids : \E e \in Epochs : Active(e) /\ Owes(writers[e], r),
         \A e \in Epochs : writers'[e].status = "active" =>
           /\ writers[e].status = "active"
           /\ \A r : Owes(writers'[e], r) => Owes(writers[e], r) /\ r \notin ids
  PROVE  AnswersAreTrue' /\ ids \subseteq RecordIds /\ \A r \in ids : answers[r].is = "open"
<1>1. \A r \in ids : r \in RecordIds /\ answers[r].is = "open" /\ ~(r > lastRecord)
  BY OwesHolds DEF AnswersAreTrue
<1>2. \A r \in RecordIds : answers'[r] = IF r \in ids THEN [is |-> is, offset |-> offset] ELSE answers[r]
  BY DEF Answered
<1>3. \A r \in RecordIds : answers'[r].is = "none" <=> r > lastRecord
  BY <1>1, <1>2 DEF AnswersAreTrue
<1>4. \A e \in Epochs : writers'[e].status = "active" =>
        \A r \in RecordIds : Owes(writers'[e], r) => answers'[r].is = "open"
  BY <1>2 DEF AnswersAreTrue, Active
<1> QED BY <1>1, <1>3, <1>4 DEF AnswersAreTrue, Active

\* The step is one of DurableLog, or none that callers see.
Maps == Log!Next \/ UNCHANGED <<RecordsAt, answers>>
Kept == AnswersAreTrue' /\ Maps

LEMMA UnseenStep ==
  ASSUME UNCHANGED <<log, answers>>
  PROVE  Maps
BY DEF Maps, RecordsAt

\* A writer that keeps what it holds, or lets it go.
LEMMA SameOwes ==
  ASSUME NEW w, NEW v, v.pending = w.pending, v.tail = w.tail, v.next = w.next,
         v.status = w.status
  PROVE  OwesNoMore(w, v)
BY DEF OwesNoMore, Owes

LEMMA FlushedOwes ==
  ASSUME NEW w, WriterOK(w)
  PROVE  OwesNoMore(w, Flushed(w))
<1>1. /\ w \in Writer /\ w.flushing \in {"none", "running", "rejected"}
      /\ w.tail \in Seq(Operation) /\ w.pending \in Seq(Record) /\ w.next \in Nat
  BY DEF WriterOK, Writer
<1>2. CASE w.pending = <<>> \/ w.flushing # "none"
  <2>1. /\ Flushed(w).pending = w.pending /\ Flushed(w).tail = w.tail /\ Flushed(w).next = w.next
        /\ Flushed(w).status = w.status
    BY <1>1, <1>2 DEF Flushed, Writer
  <2> QED BY <2>1, SameOwes
<1>3. CASE w.pending # <<>> /\ w.flushing = "none"
  <2> DEFINE o == [batch |-> BatchOf(w.pending), flush |-> TRUE]
             v == [w EXCEPT !.timer = "none", !.pending = <<>>, !.flushing = "running",
                            !.tail = Append(w.tail, o)]
  <2>1. Flushed(w) = v
    BY <1>3 DEF Flushed
  <2>2. BatchOf(w.pending) \in Batch /\ o.batch.records = w.pending
    BY <1>1, <1>3, BatchTyped DEF WriterOK, OwnersAgree
  <2>3. o \in Operation
    BY <2>2 DEF Operation
  <2> HIDE DEF o
  <2>4. /\ DOMAIN Append(w.tail, o) = 1 .. (Len(w.tail) + 1) /\ DOMAIN w.tail = 1 .. Len(w.tail)
        /\ Len(w.tail) \in Nat
        /\ \A i \in 1 .. Len(w.tail) : Append(w.tail, o)[i] = w.tail[i]
        /\ Append(w.tail, o)[Len(w.tail) + 1] = o
    BY <1>1, <2>3, AppendProperties, LenProperties
  <2>5. /\ v.pending = <<>> /\ v.next = w.next /\ v.status = w.status
        /\ v.tail = Append(w.tail, o)
    BY <1>1 DEF Writer
  <2> HIDE DEF v
  <2>6. DOMAIN v.pending = {}
    BY <2>5
  <2>7. ASSUME NEW r, Owes(v, r) PROVE Owes(w, r)
    BY <2>2, <2>4, <2>5, <2>6, <2>7 DEF Owes
  <2> QED BY <2>1, <2>5, <2>7 DEF OwesNoMore
<1> QED BY <1>1, <1>2, <1>3

LEMMA FlushMaps ==
  ASSUME WInv, AnswersAreTrue, NEW e \in Epochs, FlushNow(e) \/ FlushStep(e)
  PROVE  Kept
<1> DEFINE w == writers[e]
<1>1. w \in Writer /\ WriterOK(w)
  BY Parts
<1>2. ASSUME NEW v, Write(e, v), OwesNoMore(w, v) PROVE Kept
  <2>1. writers' = [writers EXCEPT ![e] = v] /\ UNCHANGED <<log, lastRecord, answers>>
    BY <1>2 DEF Write
  <2> QED BY <1>2, <2>1, OneSaysNothing, UnseenStep DEF Kept
<1>3. ASSUME NEW u, WriterOK(u), u.pending = w.pending, u.tail = w.tail, u.next = w.next,
             u.status = w.status, Write(e, Flushed(u)) \/ Write(e, u)
      PROVE  Kept
  <2>1. OwesNoMore(w, u) /\ OwesNoMore(u, Flushed(u))
    BY <1>3, SameOwes, FlushedOwes
  <2>2. OwesNoMore(w, Flushed(u))
    BY <1>3, <2>1 DEF OwesNoMore, Owes
  <2> HIDE DEF w
  <2> QED BY <1>2, <1>3, <2>1, <2>2
<1>4. CASE FlushNow(e)
  BY <1>1, <1>3, <1>4 DEF FlushNow
<1>5. CASE TimerFires(e)
  <2> DEFINE u == [w EXCEPT !.timer = "fired"]
  <2>1. Write(e, Flushed(u))
    BY <1>5 DEF TimerFires
  <2>2. WriterOK(u)
    BY <1>1, TimerSet DEF Changes
  <2>3. u.pending = w.pending /\ u.tail = w.tail /\ u.next = w.next /\ u.status = w.status
    BY <1>1 DEF Writer
  <2> HIDE DEF u
  <2> QED BY <1>3, <2>1, <2>2, <2>3
<1>6. CASE MicrotaskFlushes(e)
  <2> DEFINE u == [w EXCEPT !.woken = FALSE]
  <2>1. Write(e, Flushed(u))
    BY <1>6 DEF MicrotaskFlushes
  <2>2. WriterOK(u)
    BY <1>1, WokenSet DEF Changes
  <2>3. u.pending = w.pending /\ u.tail = w.tail /\ u.next = w.next /\ u.status = w.status
    BY <1>1 DEF Writer
  <2> HIDE DEF u
  <2> QED BY <1>3, <2>1, <2>2, <2>3
<1>7. CASE ChainedFlush(e)
  <2> DEFINE u == [w EXCEPT !.chained = FALSE]
  <2>1. Write(e, Flushed(u)) \/ Write(e, u)
    BY <1>7 DEF ChainedFlush
  <2>2. WriterOK(u)
    BY <1>1, ChainedSet DEF Changes
  <2>3. u.pending = w.pending /\ u.tail = w.tail /\ u.next = w.next /\ u.status = w.status
    BY <1>1 DEF Writer
  <2> HIDE DEF u
  <2> QED BY <1>3, <2>1, <2>2, <2>3
<1> QED BY <1>4, <1>5, <1>6, <1>7 DEF FlushStep

LEMMA StartMaps ==
  ASSUME WInv, AnswersAreTrue, NEW e \in Epochs, StartOperation(e) \/ Retry(e)
  PROVE  Kept
<1> DEFINE w == writers[e]
           b == (w.memo # None)
<1>1. w \in Writer /\ writers \in [Epochs -> Writer]
  BY Parts
<1>2. UNCHANGED <<log, lastRecord, answers>>
  BY DEF StartOperation, Retry
<1>3. \/ writers' = [writers EXCEPT ![e].try = 1, ![e].reduces = b]
      \/ writers' = [writers EXCEPT ![e].try = 2, ![e].reply = NoReply]
  BY DEF StartOperation, Retry
<1> HIDE DEF b
<1>4. PICK v : /\ writers' = [writers EXCEPT ![e] = v]
               /\ v.pending = w.pending /\ v.tail = w.tail /\ v.next = w.next /\ v.status = w.status
  <2>1. CASE writers' = [writers EXCEPT ![e].try = 1, ![e].reduces = b]
    <3> DEFINE v == [w EXCEPT !.try = 1, !.reduces = b]
    <3>1. /\ writers' = [writers EXCEPT ![e] = v]
          /\ v.pending = w.pending /\ v.tail = w.tail /\ v.next = w.next /\ v.status = w.status
      BY <1>1, <2>1 DEF Writer
    <3> QED BY <3>1
  <2>2. CASE writers' = [writers EXCEPT ![e].try = 2, ![e].reply = NoReply]
    <3> DEFINE v == [w EXCEPT !.try = 2, !.reply = NoReply]
    <3>1. /\ writers' = [writers EXCEPT ![e] = v]
          /\ v.pending = w.pending /\ v.tail = w.tail /\ v.next = w.next /\ v.status = w.status
      BY <1>1, <2>2 DEF Writer
    <3> QED BY <3>1
  <2> QED BY <1>3, <2>1, <2>2
<1>5. OwesNoMore(w, v)
  BY <1>4, SameOwes
<1> HIDE DEF w
<1>6. AnswersAreTrue'
  BY <1>2, <1>4, <1>5, OneSaysNothing DEF w
<1> QED BY <1>2, <1>6, UnseenStep DEF Kept

LEMMA OpenMaps ==
  ASSUME WInv, AnswersAreTrue, Create \/ \E p \in Producers : Open(p)
  PROVE  Kept
<1>1. writers \in [Epochs -> Writer] /\ UNCHANGED <<log, lastRecord, answers>>
  BY Parts DEF Create, CreateStream, Open, AcquireProducer
<1>2. \A e \in Epochs : writers'[e] = writers[e] \/ \A r : ~Owes(writers'[e], r)
  <2>1. CASE Create
    BY <2>1 DEF Create
  <2>2. CASE \E p \in Producers : Open(p)
    <3>1. PICK p \in Producers : Open(p)
      BY <2>2
    <3> DEFINE n == stream'.epoch
               v == [NoWriter EXCEPT !.status = "active", !.producer = p]
    <3>2. writers' = [writers EXCEPT ![n] = v] \/ writers' = writers
      BY <3>1 DEF Open
    <3>3. v.pending = <<>> /\ v.tail = <<>>
      BY DEF NoWriter
    <3> HIDE DEF v, n
    <3>4. DOMAIN v.pending = {} /\ DOMAIN v.tail = {}
      BY <3>3
    <3>5. \A r : ~Owes(v, r)
      BY <3>4 DEF Owes
    <3> QED BY <1>1, <3>2, <3>5
  <2> QED BY <2>1, <2>2
<1>3. \A e \in Epochs : OwesNoMore(writers[e], writers'[e])
  BY <1>2 DEF OwesNoMore
<1> QED BY SMTT(40), <1>1, <1>3, NothingSaid, UnseenStep DEF Kept

LEMMA FoldMaps ==
  ASSUME WInv, AnswersAreTrue, FoldStep
  PROVE  Kept
<1>1. writers \in [Epochs -> Writer] /\ \A e \in Epochs : writers[e] \in Writer
  BY SMTT(40), Parts
<1>2. UNCHANGED <<log, lastRecord, answers>>
  BY DEF FoldStep, BeginLoad, ReturnLoad, Write, StartAdvance, ReadAdvance, FinishAdvance
<1>3. \/ writers' = writers
      \/ \E e, load : writers' = [writers EXCEPT ![e].load = load]
      \/ \E e, memo : writers' = [writers EXCEPT ![e] = [writers[e] EXCEPT !.memo = memo, !.load = None]]
  <2>1. CASE \E e \in Epochs : BeginLoad(e) \/ ReturnLoad(e)
    BY <2>1 DEF BeginLoad, ReturnLoad, Write
  <2>2. ASSUME NEW p \in Producers, ReadAdvance(p)
        PROVE  writers' = writers \/ \E e : writers' = [writers EXCEPT ![e].load = None]
    BY SMTT(40), <2>2 DEF ReadAdvance
  <2>3. ASSUME NEW p \in Producers, FinishAdvance(p)
        PROVE  writers' = writers \/ \E e, load : writers' = [writers EXCEPT ![e].load = load]
    BY <2>3 DEF FinishAdvance
  <2>4. CASE \E p \in Producers : \E for \in Epochs \cup {None} : StartAdvance(p, for)
    BY <2>4 DEF StartAdvance
  <2> QED BY <2>1, <2>2, <2>3, <2>4 DEF FoldStep
<1>4. ASSUME NEW f \in Epochs
      PROVE  OwesNoMore(writers[f], writers'[f])
  <2> DEFINE w == writers[f]
             v == writers'[f]
             Same == /\ v.pending = w.pending /\ v.tail = w.tail
                     /\ v.next = w.next /\ v.status = w.status
  <2>1. Same
    <3>1. ASSUME NEW e, NEW load, writers' = [writers EXCEPT ![e].load = load] PROVE Same
      <4>1. v = w \/ v = [w EXCEPT !.load = load]
        BY <1>1, <3>1
      <4> QED BY <1>1, <4>1 DEF Writer
    <3>2. ASSUME NEW e, NEW memo,
                 writers' = [writers EXCEPT ![e] = [writers[e] EXCEPT !.memo = memo, !.load = None]]
          PROVE  Same
      <4>1. v = w \/ v = [w EXCEPT !.memo = memo, !.load = None]
        BY <1>1, <3>2
      <4> QED BY <1>1, <4>1 DEF Writer
    <3> QED BY <1>3, <3>1, <3>2
  <2> QED BY <2>1, SameOwes
<1> QED BY <1>2, <1>4, NothingSaid, UnseenStep DEF Kept

-----------------------------------------------------------------------------
(* Steps that callers see *)

LEMMA HandIsHand ==
  ASSUME WInv, AnswersAreTrue, NEW e \in Epochs, NEW v, Hand(e, v),
         v.status = "active" =>
           writers[e].status = "active" /\ \A r : Owes(v, r) => Owes(writers[e], r) \/ r = lastRecord + 1
  PROVE  Kept
<1> DEFINE n == lastRecord + 1
<1>1. /\ n \in RecordIds /\ lastRecord \in Nat /\ lastRecord' = n
      /\ answers \in [RecordIds -> Answer] /\ writers \in [Epochs -> Writer]
      /\ answers' = [answers EXCEPT ![n] = Unanswered]
      /\ writers' = [writers EXCEPT ![e] = v] /\ log' = log
  BY Parts, WriterAssumption DEF RestTyped, Hand, RecordIds
<1> HIDE DEF n
<1>2. \A r \in RecordIds : answers'[r] = IF r = n THEN Unanswered ELSE answers[r]
  BY <1>1
<1>3. Unanswered.is = "open"
  BY DEF Unanswered
<1>4. \A r \in RecordIds : answers'[r].is = "none" <=> r > lastRecord'
  <2> TAKE r \in RecordIds
  <2>1. answers[r].is = "none" <=> r > lastRecord
    BY DEF AnswersAreTrue
  <2>2. r \in Nat
    BY DEF RecordIds
  <2> QED BY <1>1, <1>2, <1>3, <2>1, <2>2 DEF n
<1>5. ASSUME NEW f \in Epochs, writers'[f].status = "active", NEW r \in RecordIds,
             Owes(writers'[f], r)
      PROVE  answers'[r].is = "open"
  <2>1. writers[f].status = "active" /\ (Owes(writers[f], r) \/ r = n)
    BY <1>1, <1>5 DEF n
  <2> QED BY <1>2, <1>3, <2>1 DEF AnswersAreTrue, Active
<1>6. answers[n].is = "none"
  BY <1>1 DEF AnswersAreTrue, n
<1>7. Log!Hand(n)
  <2>1. answers' = [r \in RecordIds |-> IF r \in {n} THEN [is |-> "open", offset |-> 0] ELSE answers[r]]
    BY <1>1, <1>2 DEF Unanswered
  <2>2. RecordsAt' = RecordsAt
    BY <1>1 DEF RecordsAt
  <2> QED BY <1>1, <1>6, <2>1, <2>2 DEF Log!Hand, Log!Tell, Log!Fate
<1>8. Maps
  BY <1>1, <1>7 DEF Maps, Log!Next
<1> QED BY <1>4, <1>5, <1>8 DEF Kept, AnswersAreTrue, Active

LEMMA AppendRecordMaps ==
  ASSUME WInv, AnswersAreTrue, NEW e \in Epochs, NEW owner \in Attempts \cup {None},
         AppendRecord(e, owner)
  PROVE  Kept
<1> DEFINE w == writers[e]
           r == [id |-> lastRecord + 1, owner |-> owner]
           o == [batch |-> BatchOf(<<r>>), flush |-> FALSE]
           v == [w EXCEPT !.tail = Append(w.tail, o)]
<1>1. /\ w \in Writer /\ w.status = "active" /\ w.tail \in Seq(Operation) /\ w.next \in Nat
      /\ lastRecord \in Nat
  BY ActiveIsOK, Parts DEF AppendRecord, RestTyped
<1>2. Hand(e, v)
  BY DEF AppendRecord
<1>3. r \in Record /\ <<r>> \in Seq(Record) /\ <<r>> # <<>> /\ DOMAIN <<r>> = {1} /\ <<r>>[1] = r
      /\ r.id = lastRecord + 1
  BY <1>1 DEF Record
<1> HIDE DEF r
<1>4. o.batch.records = <<r>> /\ o \in Operation
  <2>1. \A m, k \in DOMAIN <<r>> : <<r>>[m].owner = <<r>>[k].owner
    BY <1>3
  <2>2. BatchOf(<<r>>) \in Batch /\ BatchOf(<<r>>).records = <<r>>
    BY <1>3, <2>1, BatchTyped
  <2> QED BY <2>2 DEF Operation
<1> HIDE DEF o
<1>5. /\ DOMAIN Append(w.tail, o) = 1 .. (Len(w.tail) + 1) /\ DOMAIN w.tail = 1 .. Len(w.tail)
      /\ Len(w.tail) \in Nat
      /\ \A i \in 1 .. Len(w.tail) : Append(w.tail, o)[i] = w.tail[i]
      /\ Append(w.tail, o)[Len(w.tail) + 1] = o
  BY <1>1, <1>4, AppendProperties, LenProperties
<1>6. v.tail = Append(w.tail, o) /\ v.pending = w.pending /\ v.next = w.next
  BY SMTT(40), <1>1 DEF Writer
<1> HIDE DEF v
<1>7. ASSUME NEW x, Owes(v, x) PROVE Owes(w, x) \/ x = lastRecord + 1
  <2>1. CASE \E m \in DOMAIN v.pending : v.pending[m].id = x
    BY <1>6, <2>1 DEF Owes
  <2>2. ASSUME NEW i \in DOMAIN v.tail, i > v.next, NEW m \in DOMAIN v.tail[i].batch.records,
               v.tail[i].batch.records[m].id = x
        PROVE  Owes(w, x) \/ x = lastRecord + 1
    <3>1. CASE i \in DOMAIN w.tail
      <4>1. v.tail[i] = w.tail[i]
        BY <1>5, <1>6, <3>1
      <4> QED BY <1>6, <2>2, <3>1, <4>1 DEF Owes
    <3>2. CASE i = Len(w.tail) + 1
      <4>1. v.tail[i] = o
        BY <1>5, <1>6, <3>2
      <4> QED BY <1>3, <1>4, <2>2, <4>1
    <3> QED BY <1>5, <1>6, <3>1, <3>2
  <2> QED BY <1>7, <2>1, <2>2 DEF Owes
<1> QED BY <1>1, <1>2, <1>7, HandIsHand

LEMMA EnqueueMaps ==
  ASSUME WInv, AnswersAreTrue, NEW e \in Epochs, NEW owner \in Attempts \cup {None},
         Enqueue(e, owner)
  PROVE  Kept
<1> DEFINE w == writers[e]
           r == [id |-> lastRecord + 1, owner |-> owner]
           u == [w EXCEPT !.pending = Append(w.pending, r)]
<1>1. /\ w \in Writer /\ w.status = "active" /\ w.pending \in Seq(Record) /\ lastRecord \in Nat
  BY ActiveIsOK, Parts DEF Enqueue, RestTyped, Writer
<1>2. PICK v \in Woken(u) : Hand(e, v)
  BY DEF Enqueue
<1>3. r \in Record /\ r.id = lastRecord + 1
  BY <1>1 DEF Record
<1> HIDE DEF r
<1>4. /\ DOMAIN Append(w.pending, r) = 1 .. (Len(w.pending) + 1)
      /\ DOMAIN w.pending = 1 .. Len(w.pending) /\ Len(w.pending) \in Nat
      /\ \A i \in 1 .. Len(w.pending) : Append(w.pending, r)[i] = w.pending[i]
      /\ Append(w.pending, r)[Len(w.pending) + 1] = r
  BY <1>1, <1>3, AppendProperties, LenProperties
<1>5. v = u \/ v = [u EXCEPT !.woken = TRUE] \/ v = [u EXCEPT !.timer = "armed"]
  BY <1>2 DEF Woken
<1>6. v.tail = w.tail /\ v.pending = Append(w.pending, r) /\ v.next = w.next
  BY <1>1, <1>5 DEF Writer
<1> HIDE DEF u
<1>7. ASSUME NEW x, Owes(v, x) PROVE Owes(w, x) \/ x = lastRecord + 1
  <2>1. ASSUME NEW m \in DOMAIN v.pending, v.pending[m].id = x
        PROVE  Owes(w, x) \/ x = lastRecord + 1
    BY <1>3, <1>4, <1>6, <2>1 DEF Owes
  <2>2. CASE \E i \in DOMAIN v.tail :
               i > v.next /\ \E m \in DOMAIN v.tail[i].batch.records :
                              v.tail[i].batch.records[m].id = x
    BY <1>6, <2>2 DEF Owes
  <2> QED BY <1>7, <2>1, <2>2 DEF Owes
<1> QED BY <1>1, <1>2, <1>7, HandIsHand

LEMMA LandOnceNext == WInv' => RecordsLandOnce'
BY LandOnce, PTL

\* The batch lands whole, and for the first time.
LEMMA ExecuteMaps ==
  ASSUME WInv, WInv', AnswersAreTrue, NEW c \in calls, NEW accepted \in BOOLEAN,
         Execute(c, accepted)
  PROVE  Kept
<1>1. writers \in [Epochs -> Writer] /\ UNCHANGED <<lastRecord, answers>>
  BY Parts DEF Execute
<1>2. \A is, offset : writers' = Replied(c, is, offset) =>
        \A e \in Epochs : OwesNoMore(writers[e], writers'[e])
  <2> TAKE is, offset
  <2> HAVE writers' = Replied(c, is, offset)
  <2> DEFINE r == [is |-> is, offset |-> offset]
             e0 == c.call.epoch
  <2>1. writers' = writers \/ writers' = [writers EXCEPT ![e0].reply = r]
    BY DEF Replied
  <2> HIDE DEF r, e0
  <2> TAKE e \in Epochs
  <2>2. writers[e] \in Writer
    BY <1>1
  <2>3. writers'[e] = writers[e] \/ writers'[e] = [writers[e] EXCEPT !.reply = r]
    BY <1>1, <2>1
  <2>4. /\ writers'[e].pending = writers[e].pending /\ writers'[e].tail = writers[e].tail
        /\ writers'[e].next = writers[e].next /\ writers'[e].status = writers[e].status
    BY <2>2, <2>3 DEF Writer
  <2> QED BY <2>4, SameOwes
<1>3. AnswersAreTrue'
  <2>1. \A e \in Epochs : OwesNoMore(writers[e], writers'[e])
    BY <1>2 DEF Execute
  <2> QED BY <1>1, <2>1, NothingSaid
<1>4. CASE UNCHANGED log
  BY <1>1, <1>3, <1>4, UnseenStep DEF Kept
<1>5. CASE log' = Append(log, c.call)
  <2> DEFINE n == Len(log)
             records == c.call.batch.records
             batch == Ids(records)
  <2>1. /\ n \in Nat /\ Len(log') = n + 1 /\ DOMAIN log' = 1 .. n + 1 /\ DOMAIN log = 1 .. n
        /\ \A i \in 1 .. n : log'[i] = log[i]
        /\ log'[n + 1] = c.call
    <3>1. c.call \in Call /\ log \in Seq(Call) /\ n \in Nat /\ DOMAIN log = 1 .. n
      BY Parts, RowsAreCalls
    <3>2. /\ log' \in Seq(Call) /\ Len(log') = n + 1 /\ \A i \in 1 .. n : log'[i] = log[i]
          /\ log'[n + 1] = c.call
      BY <1>5, <3>1, AppendProperties
    <3> QED BY <3>1, <3>2, LenProperties
  <2> HIDE DEF n
  <2>2. /\ records # <<>> /\ records \in Seq(Record)
        /\ \A m \in DOMAIN records : records[m].id \in RecordIds /\ records[m].id <= lastRecord
    <3> DEFINE w == writers[c.call.epoch]
               k == c.call.sequence + 1
    <3>1. /\ c.call.epoch \in Epochs /\ Sent(w, c.call.sequence) /\ c.call.batch = w.tail[k].batch
          /\ c.call \in Call
      BY SMTT(40), Parts DEF WInv, ClaimsOK, SentCall
    <3>2. WriterOK(w) /\ w \in Writer /\ w.tail \in Seq(Operation) /\ c.call.sequence \in Nat
      BY <3>1, Parts DEF WriterOK, Writer, Call
    <3>3. k \in DOMAIN w.tail
      BY <3>1, <3>2, LenProperties DEF Sent
    <3> HIDE DEF w, k
    <3>4. records # <<>> /\ records \in Seq(Record)
      BY <3>1, <3>2, <3>3, RecordsAreTyped DEF WriterOK, OwnersAgree
    <3>5. \A m \in DOMAIN records : Holds(w, records[m].id)
      BY <3>1, <3>3 DEF Holds
    <3>6. \A r : Holds(w, r) => r \in 1 .. lastRecord
      BY <3>1 DEF WInv, WritersOK, w
    <3>7. 1 .. lastRecord \subseteq RecordIds /\ lastRecord \in Nat
      BY WriterAssumption, Parts DEF RestTyped, RecordIds
    <3> QED BY <3>4, <3>5, <3>6, <3>7
  <2>3. batch # {} /\ batch \in SUBSET RecordIds
    <3>1. 1 \in DOMAIN records
      BY <2>2, LenProperties, EmptySeq
    <3> QED BY <2>2, <3>1 DEF Ids
  <2>4. batch \cap Log!Fate("none") = {}
    <3> SUFFICES ASSUME NEW m \in DOMAIN records, answers[records[m].id].is = "none" PROVE FALSE
      BY DEF Ids, Log!Fate
    <3>1. records[m].id \in RecordIds /\ records[m].id <= lastRecord
      BY <2>2
    <3>2. records[m].id > lastRecord /\ records[m].id \in Nat /\ lastRecord \in Nat
      BY <3>1, Parts DEF AnswersAreTrue, RestTyped, RecordIds
    <3> QED BY <3>1, <3>2
  <2>5. batch \cap Log!InLog = {}
    <3>1. RecordsLandOnce'
      BY LandOnceNext
    <3> SUFFICES ASSUME NEW i \in DOMAIN log, NEW m \in DOMAIN log[i].batch.records,
                        NEW k \in DOMAIN records, log[i].batch.records[m].id = records[k].id
                 PROVE  FALSE
      BY DEF Log!InLog, RecordsAt, Ids
    <3>2. i \in DOMAIN log' /\ n + 1 \in DOMAIN log' /\ i # n + 1 /\ log'[i] = log[i]
      BY <2>1
    <3> QED BY <2>1, <3>1, <3>2 DEF RecordsLandOnce
  <2>6. RecordsAt' = Append(RecordsAt, batch)
    <3>1. RecordsAt' = [i \in 1 .. n + 1 |-> Ids(log'[i].batch.records)]
      BY <2>1 DEF RecordsAt
    <3>2. RecordsAt = [i \in 1 .. n |-> Ids(log[i].batch.records)]
      BY <2>1 DEF RecordsAt
    <3> DEFINE before(i) == Ids(log[i].batch.records)
               after(i) == Ids(log'[i].batch.records)
    <3>3. /\ \A i \in 1 .. n : after(i) = before(i)
          /\ after(n + 1) = batch
      BY <2>1
    <3> HIDE DEF before, after, batch
    <3>4. RecordsAt' = [i \in 1 .. n + 1 |-> after(i)] /\ RecordsAt = [i \in 1 .. n |-> before(i)]
      BY <3>1, <3>2 DEF before, after
    <3> DEFINE S == {batch} \cup {before(i) : i \in 1 .. n}
               a == RecordsAt
    <3>5. a \in Seq(S) /\ Len(a) = n /\ \A i \in 1 .. n : a[i] = before(i)
      <4>1. \A i \in 1 .. n : before(i) \in S
        OBVIOUS
      <4> HIDE DEF S
      <4>2. a \in [1 .. n -> S] /\ n \in Nat
        BY <2>1, <3>4, <4>1
      <4> HIDE DEF a
      <4>3. a \in Seq(S)
        BY <4>2
      <4>4. Len(a) = n
        BY <4>2, <4>3, LenProperties
      <4> QED BY <3>4, <4>3, <4>4 DEF a
    <3>6. batch \in S
      OBVIOUS
    <3> HIDE DEF S, a
    <3>7. /\ Append(a, batch) \in Seq(S) /\ Len(Append(a, batch)) = n + 1
          /\ \A i \in 1 .. n : Append(a, batch)[i] = before(i)
          /\ Append(a, batch)[n + 1] = batch
      BY <3>5, <3>6, AppendProperties
    <3>8. RecordsAt' \in [1 .. n + 1 -> S]
      <4>1. \A i \in 1 .. n + 1 : after(i) \in S
        BY <2>1, <3>3 DEF S
      <4> QED BY <3>4, <4>1
    <3>9. RecordsAt' \in Seq(S) /\ Len(RecordsAt') = n + 1
      <4> DEFINE b == RecordsAt'
      <4>1. b \in [1 .. n + 1 -> S] /\ n + 1 \in Nat
        BY <2>1, <3>8
      <4> HIDE DEF b
      <4>2. b \in Seq(S)
        BY <4>1
      <4>3. Len(b) = n + 1
        BY <4>1, <4>2, LenProperties
      <4> QED BY <4>2, <4>3 DEF b
    <3>10. \A i \in 1 .. n + 1 : RecordsAt'[i] = Append(a, batch)[i]
      BY <2>1, <3>3, <3>4, <3>7
    <3> QED BY <3>7, <3>9, <3>10, SeqEqual DEF a
  <2> HIDE DEF batch
  <2>7. Log!Land(batch)
    <3>1. batch \cap (Log!Fate("none") \cup Log!InLog) = {}
      BY <2>4, <2>5
    <3> QED BY <1>1, <2>3, <2>6, <3>1 DEF Log!Land
  <2> QED BY <1>3, <2>3, <2>7 DEF Kept, Maps, Log!Next
<1> QED BY <1>4, <1>5 DEF Execute, AppendBatch

\* What one batch of the tail holds nothing else of the writer does.
LEMMA OnlyInBatch ==
  ASSUME NEW w, WriterOK(w), NEW j \in DOMAIN w.tail, NEW r \in Ids(w.tail[j].batch.records)
  PROVE  /\ \A m \in DOMAIN w.pending : w.pending[m].id # r
         /\ \A i \in DOMAIN w.tail : \A m \in DOMAIN w.tail[i].batch.records :
              w.tail[i].batch.records[m].id = r => i = j
BY DEF WriterOK, IdsAreDistinct, Ids

LEMMA CallSucceedsMaps ==
  ASSUME WInv, AnswersAreTrue, NEW e \in Epochs, CallSucceeds(e)
  PROVE  Kept
<1> DEFINE w == writers[e]
           v == Succeeded(w)
           j == w.next + 1
           ids == Ids(w.tail[j].batch.records)
           offset == w.reply.offset
<1>1. /\ w \in Writer /\ WriterOK(w) /\ w.status = "active" /\ w.reply.is = "stored"
      /\ w.tail \in Seq(Operation) /\ w.next \in Nat /\ w.next < Len(w.tail)
      /\ writers \in [Epochs -> Writer] /\ Active(e)
  BY ActiveIsOK, Parts DEF CallSucceeds, WriterOK
<1>2. /\ writers' = [writers EXCEPT ![e] = v] /\ UNCHANGED <<log, lastRecord>>
      /\ answers' = Answered(ids, "stored", offset)
  BY DEF CallSucceeds, Current
<1>3. j \in DOMAIN w.tail /\ j > w.next /\ ~(j > j)
  BY <1>1, LenProperties
<1>4. /\ v.status = "active" /\ v.pending = w.pending /\ v.tail = w.tail /\ v.next = j
  BY <1>1 DEF Succeeded, Writer
<1>5. offset \in DOMAIN log /\ ids = Ids(log[offset].batch.records)
  <2>1. offset \in DOMAIN log /\ log[offset].epoch = e /\ log[offset].sequence = w.next
    BY <1>1 DEF WInv, ClaimsOK
  <2>2. log[offset].batch = w.tail[j].batch
    BY SMTT(40), <2>1 DEF WInv, LogOK, SentCall
  <2> QED BY <2>1, <2>2
<1>6. \A r \in ids : Owes(w, r)
  BY <1>3 DEF Owes, Ids
<1>7. ASSUME NEW r, Owes(v, r) PROVE Owes(w, r) /\ r \notin ids
  <2>1. Owes(w, r)
    <3>1. \A i \in DOMAIN w.tail : i > j => i > w.next
      BY <1>1, LenProperties
    <3> QED BY <1>4, <1>7, <3>1 DEF Owes
  <2>2. ASSUME r \in ids PROVE FALSE
    <3>1. /\ \A m \in DOMAIN w.pending : w.pending[m].id # r
          /\ \A i \in DOMAIN w.tail : \A m \in DOMAIN w.tail[i].batch.records :
               w.tail[i].batch.records[m].id = r => i = j
      <4> HIDE DEF w, j
      <4> QED BY <1>1, <1>3, <2>2, OnlyInBatch
    <3> HIDE DEF w, v, j, ids
    <3>2. \A i \in DOMAIN v.tail : i > v.next => i # j
      BY <1>3, <1>4
    <3> QED BY <1>4, <1>7, <3>1, <3>2 DEF Owes
  <2> QED BY SMTT(40), <2>1, <2>2
<1> HIDE DEF v, ids, j
<1>8. ASSUME NEW f \in Epochs, writers'[f].status = "active"
      PROVE  /\ writers[f].status = "active"
             /\ \A r : Owes(writers'[f], r) => Owes(writers[f], r) /\ r \notin ids
  <2>1. CASE f = e
    BY <1>1, <1>2, <1>7, <2>1
  <2>2. CASE f # e
    <3>1. writers'[f] = writers[f]
      BY <1>1, <1>2, <2>2
    <3>2. \A r \in ids : ~Owes(writers[f], r)
      BY <1>6, <2>2, OwesHolds
    <3> QED BY <1>8, <3>1, <3>2
  <2> QED BY <2>1, <2>2
<1>9. AnswersAreTrue' /\ ids \subseteq RecordIds /\ \A r \in ids : answers[r].is = "open"
  <2>1. \A r \in ids : \E f \in Epochs : Active(f) /\ Owes(writers[f], r)
    BY <1>1, <1>6
  <2>2. lastRecord' = lastRecord
    BY <1>2
  <2> QED BY <1>2, <1>8, <2>1, <2>2, SomeTold
<1>10. Log!Confirm(ids, offset)
  <2>1. offset \in DOMAIN RecordsAt /\ ids = RecordsAt[offset] /\ RecordsAt' = RecordsAt
    BY <1>2, <1>5 DEF RecordsAt
  <2>2. ids \subseteq Log!Fate("open")
    BY <1>9 DEF Log!Fate
  <2> QED BY <1>2, <2>1, <2>2 DEF Log!Confirm, Log!Tell, Answered
<1>11. offset \in DOMAIN RecordsAt /\ ids \in SUBSET RecordIds
  BY <1>5, <1>9 DEF RecordsAt
<1> QED BY <1>9, <1>10, <1>11 DEF Kept, Maps, Log!Next

\* Callers whose records are given up.
LEMMA GivenUp ==
  ASSUME WInv, AnswersAreTrue, UNCHANGED <<log, lastRecord>>, NEW ids,
         NEW is \in {"rejected", "lost"}, answers' = Answered(ids, is, 0),
         \A r \in ids : \E e \in Epochs : Active(e) /\ Owes(writers[e], r),
         \A e \in Epochs : writers'[e].status = "active" =>
           /\ writers[e].status = "active"
           /\ \A r : Owes(writers'[e], r) => Owes(writers[e], r) /\ r \notin ids
  PROVE  Kept
<1>1. is \in {"stored", "rejected", "lost"} /\ lastRecord' = lastRecord
  OBVIOUS
<1>2. AnswersAreTrue' /\ ids \subseteq RecordIds /\ \A r \in ids : answers[r].is = "open"
  BY <1>1, SomeTold
<1>3. Log!GiveUp(ids, is)
  <2>1. RecordsAt' = RecordsAt
    BY DEF RecordsAt
  <2>2. ids \subseteq Log!Fate("open")
    BY <1>2 DEF Log!Fate
  <2> QED BY <2>1, <2>2 DEF Log!GiveUp, Log!Tell, Answered
<1>4. ids \in SUBSET RecordIds
  BY <1>2
<1> QED BY <1>2, <1>3, <1>4 DEF Kept, Maps, Log!Next

LEMMA RejectOperationMaps ==
  ASSUME WInv, AnswersAreTrue, NEW e \in Epochs, RejectOperation(e)
  PROVE  Kept
<1> DEFINE w == writers[e]
           n == w.next
           t == SubSeq(w.tail, 1, n) \o SubSeq(w.tail, n + 2, Len(w.tail))
           g == IF w.tail[n + 1].flush THEN "rejected" ELSE w.flushing
           v == [w EXCEPT !.tail = t, !.flushing = g]
           ids == Ids(w.tail[n + 1].batch.records)
<1>1. /\ w \in Writer /\ WriterOK(w) /\ w.status = "active" /\ Active(e)
      /\ w.tail \in Seq(Operation) /\ n \in Nat /\ n < Len(w.tail)
      /\ writers \in [Epochs -> Writer]
  BY SMTT(40), ActiveIsOK, Parts DEF RejectOperation, Ready
<1>2. /\ writers' = [writers EXCEPT ![e].tail = t, ![e].flushing = g]
      /\ UNCHANGED <<log, lastRecord>>
      /\ answers' = Answered(ids, "rejected", 0)
  BY DEF RejectOperation, Current
<1>3. /\ DOMAIN t = 1 .. Len(w.tail) - 1
      /\ \A i \in 1 .. Len(w.tail) - 1 : t[i] = IF i <= n THEN w.tail[i] ELSE w.tail[i + 1]
  BY <1>1, ElementRemoved
<1> HIDE DEF t, g
<1>4. /\ writers' = [writers EXCEPT ![e] = v]
      /\ v.status = "active" /\ v.pending = w.pending /\ v.tail = t /\ v.next = n
  BY <1>1, <1>2 DEF Writer
<1> HIDE DEF v
<1>5. n + 1 \in DOMAIN w.tail /\ n + 1 > n /\ DOMAIN w.tail = 1 .. Len(w.tail) /\ Len(w.tail) \in Nat
  BY SMTT(40), <1>1, LenProperties
<1>6. \A r \in ids : Owes(w, r)
  BY SMTT(40), <1>5 DEF Owes, Ids
<1>7. ASSUME NEW r, Owes(v, r) PROVE Owes(w, r) /\ r \notin ids
  <2>1. CASE \E m \in DOMAIN w.pending : w.pending[m].id = r
    BY <1>1, <1>5, <2>1, OnlyInBatch DEF Owes
  <2>2. ASSUME NEW i \in DOMAIN v.tail, i > n, NEW m \in DOMAIN v.tail[i].batch.records,
               v.tail[i].batch.records[m].id = r
        PROVE  Owes(w, r) /\ r \notin ids
    <3>1. i \in 1 .. Len(w.tail) - 1 /\ ~(i <= n)
      BY <1>1, <1>3, <1>4, <2>2
    <3>2. v.tail[i] = w.tail[i + 1]
      BY <1>3, <1>4, <3>1
    <3>3. i + 1 \in DOMAIN w.tail /\ i + 1 > n /\ i + 1 # n + 1
      BY <1>1, <1>5, <3>1
    <3>4. /\ m \in DOMAIN w.tail[i + 1].batch.records
          /\ w.tail[i + 1].batch.records[m].id = r
      BY <2>2, <3>2
    <3>5. Owes(w, r)
      BY <3>3, <3>4 DEF Owes
    <3>6. ASSUME r \in ids PROVE FALSE
      <4>1. \A k \in DOMAIN w.tail : \A a \in DOMAIN w.tail[k].batch.records :
               w.tail[k].batch.records[a].id = r => k = n + 1
        <5> DEFINE j == n + 1
        <5>1. WriterOK(w) /\ j \in DOMAIN w.tail /\ r \in Ids(w.tail[j].batch.records)
          BY <1>1, <1>5, <3>6
        <5> HIDE DEF w, n, ids, j
        <5>2. \A k \in DOMAIN w.tail : \A a \in DOMAIN w.tail[k].batch.records :
                 w.tail[k].batch.records[a].id = r => k = j
          BY <5>1, OnlyInBatch
        <5> QED BY <5>2 DEF j
      <4> QED BY <3>3, <3>4, <4>1
    <3> QED BY <3>5, <3>6
  <2> QED BY <1>4, <1>7, <2>1, <2>2 DEF Owes
<1> HIDE DEF ids
<1>8. ASSUME NEW f \in Epochs, writers'[f].status = "active"
      PROVE  /\ writers[f].status = "active"
             /\ \A r : Owes(writers'[f], r) => Owes(writers[f], r) /\ r \notin ids
  <2>1. CASE f = e
    BY <1>1, <1>4, <1>7, <2>1
  <2>2. CASE f # e
    <3>1. writers'[f] = writers[f]
      BY <1>1, <1>4, <2>2
    <3>2. \A r \in ids : ~Owes(writers[f], r)
      BY <1>6, <2>2, OwesHolds
    <3> QED BY <1>8, <3>1, <3>2
  <2> QED BY <2>1, <2>2
<1>9. \A r \in ids : \E f \in Epochs : Active(f) /\ Owes(writers[f], r)
  BY <1>1, <1>6
<1>10. UNCHANGED <<log, lastRecord>>
  BY <1>2
<1> HIDE DEF w
<1> QED BY <1>2, <1>8, <1>9, <1>10, GivenUp

LEMMA FailMaps ==
  ASSUME WInv, AnswersAreTrue, NEW e \in Epochs, Fail(e)
  PROVE  Kept
<1> DEFINE ids == Owed(writers[e])
<1>1. /\ Active(e) /\ WriterOK(writers[e]) /\ writers \in [Epochs -> Writer]
      /\ writers' = [writers EXCEPT ![e] = Ended(writers[e], "failed")]
      /\ UNCHANGED <<log, lastRecord>> /\ answers' = Answered(ids, "rejected", 0)
  BY Parts DEF Fail, ToldOfFailure
<1>2. Ended(writers[e], "failed").status = "failed"
  BY DEF Ended, NoWriter
<1>3. \A r : r \in ids <=> Owes(writers[e], r)
  BY <1>1, OwedIsOwes
<1> HIDE DEF ids
<1>4. ASSUME NEW f \in Epochs, writers'[f].status = "active"
      PROVE  /\ writers[f].status = "active"
             /\ \A r : Owes(writers'[f], r) => Owes(writers[f], r) /\ r \notin ids
  <2>1. f # e /\ writers'[f] = writers[f]
    BY <1>1, <1>2, <1>4
  <2>2. \A r \in ids : ~Owes(writers[f], r)
    BY <1>3, <2>1, OwesHolds
  <2> QED BY <1>4, <2>1, <2>2
<1>5. \A r \in ids : \E f \in Epochs : Active(f) /\ Owes(writers[f], r)
  BY <1>1, <1>3
<1> QED BY <1>1, <1>4, <1>5, GivenUp

LEMMA CrashMaps ==
  ASSUME WInv, AnswersAreTrue, NEW p \in Producers, Crash(p)
  PROVE  Kept
<1> DEFINE Mine == {f \in Epochs : Active(f) /\ writers[f].producer = p}
           ids == UNION {Owed(writers[f]) : f \in Mine}
<1>1. /\ \A e \in Epochs : WriterOK(writers[e])
      /\ \A e \in Epochs : writers'[e] = IF Active(e) /\ writers[e].producer = p
                                           THEN Ended(writers[e], "gone") ELSE writers[e]
      /\ UNCHANGED <<log, lastRecord>> /\ answers' = Answered(ids, "lost", 0)
  BY Parts DEF Crash
<1>2. \A e \in Epochs : Ended(writers[e], "gone").status = "gone"
  BY DEF Ended, NoWriter
<1>3. \A r : r \in ids <=> \E f \in Mine : Owes(writers[f], r)
  BY <1>1, OwedIsOwes
<1> HIDE DEF ids
<1>4. ASSUME NEW f \in Epochs, writers'[f].status = "active"
      PROVE  /\ writers[f].status = "active"
             /\ \A r : Owes(writers'[f], r) => Owes(writers[f], r) /\ r \notin ids
  <2>1. f \notin Mine /\ writers'[f] = writers[f]
    BY <1>1, <1>2, <1>4
  <2>2. \A r \in ids : ~Owes(writers[f], r)
    BY <1>3, <2>1, OwesHolds
  <2> QED BY <1>4, <2>1, <2>2
<1>5. \A r \in ids : \E f \in Epochs : Active(f) /\ Owes(writers[f], r)
  BY <1>3
<1> HIDE DEF Mine
<1> QED BY <1>1, <1>4, <1>5, GivenUp

-----------------------------------------------------------------------------
(* The promise *)

RInv == WInv /\ AnswersAreTrue

LEMMA InitRInv == Init => RInv /\ Log!Init
<1> SUFFICES ASSUME Init PROVE RInv /\ Log!Init
  OBVIOUS
<1>1. WInv
  BY InitWInv
<1>2. /\ lastRecord = 0 /\ log = <<>> /\ writers = [e \in Epochs |-> NoWriter]
      /\ answers = [r \in RecordIds |-> [is |-> "none", offset |-> 0]]
  BY DEF Init, StreamInit
<1>3. AnswersAreTrue
  BY <1>2 DEF AnswersAreTrue, RecordIds, Active, NoWriter
<1>4. RecordsAt = <<>>
  <2>1. DOMAIN log = {} /\ DOMAIN log = 1 .. 0
    BY <1>2
  <2> QED BY <2>1 DEF RecordsAt
<1> QED BY <1>1, <1>2, <1>3, <1>4 DEF RInv, Log!Init, Log!Unknown

LEMMA NextMaps == RInv /\ WInv' /\ [Next]_vars => RInv' /\ Maps
<1> SUFFICES ASSUME WInv, AnswersAreTrue, WInv', [Next]_vars PROVE Kept
  BY DEF RInv, Kept
<1>1. CASE Create \/ (\E p \in Producers : Open(p))
  BY <1>1, OpenMaps
<1>2. CASE \E p \in Producers : Crash(p)
  BY <1>2, CrashMaps
<1>3. CASE HandStep
  BY <1>3, AppendRecordMaps, EnqueueMaps, FlushMaps DEF HandStep
<1>4. CASE \E e \in Epochs : FlushStep(e) \/ OperationStep(e) \/ ReturnStep(e)
  BY <1>4, FlushMaps, RejectOperationMaps, StartMaps, CallSucceedsMaps, FailMaps
     DEF OperationStep, ReturnStep
<1>5. CASE \E c \in calls, accepted \in BOOLEAN : Execute(c, accepted)
  BY <1>5, ExecuteMaps
<1>6. CASE FoldStep
  BY <1>6, FoldMaps
<1>7. CASE UNCHANGED vars
  BY <1>7, UnseenStep DEF vars, Kept, AnswersAreTrue, Active
<1> QED BY <1>1, <1>2, <1>3, <1>4, <1>5, <1>6, <1>7 DEF Next

\* Whoever writes records through ConversationRecordWriter is kept the promise
\* of DurableLog, for any number of processes, claims and records.
THEOREM WritersKeepPromise == Spec => LogPromiseIsKept
<1>1. RInv /\ [Next]_vars => RInv' /\ [Log!Next]_(Log!vars)
  <2>1. RInv /\ [Next]_vars => WInv'
    BY NextWInv DEF RInv
  <2>2. Maps => [Log!Next]_(Log!vars)
    BY DEF Maps, Log!vars
  <2> QED BY <2>1, <2>2, NextMaps
<1> QED BY <1>1, InitRInv, PTL DEF Spec, LogPromiseIsKept, Log!Spec

=============================================================================
