----------------------- MODULE ConversationWriterProofs -----------------------
(***************************************************************************)
(* Proofs about ConversationWriter, for every set of processes and         *)
(* attempts and every number of claims and records.                        *)
(***************************************************************************)
EXTENDS ConversationWriter, SequenceTheorems, TLAPS

-----------------------------------------------------------------------------
(* One writer *)

\* The record waits for a flush of the writer, or is in its tail.
Holds(w, r) ==
  \/ \E m \in DOMAIN w.pending : w.pending[m].id = r
  \/ \E i \in DOMAIN w.tail : \E m \in DOMAIN w.tail[i].batch.records :
       w.tail[i].batch.records[m].id = r

\* No record is in two places of a writer.
IdsAreDistinct(w) ==
  /\ \A i, j \in DOMAIN w.tail :
       \A m \in DOMAIN w.tail[i].batch.records, n \in DOMAIN w.tail[j].batch.records :
         w.tail[i].batch.records[m].id = w.tail[j].batch.records[n].id => i = j /\ m = n
  /\ \A m, n \in DOMAIN w.pending : w.pending[m].id = w.pending[n].id => m = n
  /\ \A i \in DOMAIN w.tail : \A m \in DOMAIN w.tail[i].batch.records, n \in DOMAIN w.pending :
       w.tail[i].batch.records[m].id # w.pending[n].id

\* A batch has records, all of its attempt; so have those that wait for a flush.
OwnersAgree(w) ==
  /\ \A i \in DOMAIN w.tail :
       /\ w.tail[i].batch.records # <<>>
       /\ \A m \in DOMAIN w.tail[i].batch.records :
            w.tail[i].batch.records[m].owner = w.tail[i].batch.owner
  /\ \A m, n \in DOMAIN w.pending : w.pending[m].owner = w.pending[n].owner

WriterOK(w) ==
  /\ w \in Writer
  /\ w.status = "active" => w.producer \in Producers
  /\ w.next <= Len(w.tail)
  /\ w.try # 0 => w.status = "active" /\ w.next < Len(w.tail)
  /\ w.reply.is # "none" => w.try # 0
  /\ w.load # None => w.memo = None
  /\ w.reduces => w.memo # None
  /\ IdsAreDistinct(w)
  /\ OwnersAgree(w)

\* The operations of the tail, by number, that have been sent to the store.
Sent(w, n) ==
  /\ n < Len(w.tail)
  /\ n < w.next \/ (n = w.next /\ ~(w.status = "active" /\ w.try = 0))

\* A step of the writer that leaves what was sent as it is, and takes in no
\* record but those of S.
Changes(w, v, S) ==
  /\ WriterOK(v)
  /\ \A n \in Nat :
       Sent(w, n) =>
         /\ Sent(v, n)
         /\ v.tail[n + 1].batch = w.tail[n + 1].batch
         /\ v.producer = w.producer
  /\ \A r : Holds(v, r) => Holds(w, r) \/ r \in S

\* Fields that play no part in this.
LEMMA OtherFields ==
  ASSUME NEW w, WriterOK(w), NEW v \in Writer,
         v.status = w.status, v.producer = w.producer, v.next = w.next, v.tail = w.tail,
         v.pending = w.pending, v.try = w.try \/ (w.status = "active" /\ v.try # 0 /\ w.next < Len(w.tail)),
         v.reply.is # "none" => v.try # 0,
         v.load # None => v.memo = None, v.reduces => v.memo # None
  PROVE  Changes(w, v, {})
<1>1. IdsAreDistinct(v) /\ OwnersAgree(v) /\ \A r : Holds(v, r) => Holds(w, r)
  BY DEF WriterOK, IdsAreDistinct, OwnersAgree, Holds
<1>2. WriterOK(v)
  BY <1>1 DEF WriterOK
<1>3. \A n \in Nat : Sent(w, n) => Sent(v, n)
  BY DEF WriterOK, Sent
<1> QED BY SMTT(40), <1>1, <1>2, <1>3 DEF Changes


LEMMA RecordsAreTyped ==
  ASSUME NEW w \in Writer
  PROVE  /\ w.pending \in Seq(Record)
         /\ w.tail \in Seq(Operation)
         /\ \A i \in DOMAIN w.tail : w.tail[i] \in Operation /\ w.tail[i].batch \in Batch
                                     /\ w.tail[i].batch.records \in Seq(Record)
<1>1. w.pending \in Seq(Record) /\ w.tail \in Seq(Operation)
  BY DEF Writer
<1>2. \A i \in DOMAIN w.tail : w.tail[i] \in Operation
  BY <1>1, ElementOfSeq, LenProperties
<1> QED BY <1>1, <1>2 DEF Operation, Batch

LEMMA BatchTyped ==
  ASSUME NEW records \in Seq(Record), records # <<>>,
         \A m, n \in DOMAIN records : records[m].owner = records[n].owner
  PROVE  /\ BatchOf(records) \in Batch
         /\ BatchOf(records).records = records
         /\ \A m \in DOMAIN records : records[m].owner = BatchOf(records).owner
<1>1. Len(records) \in Nat \ {0} /\ DOMAIN records = 1 .. Len(records)
  BY EmptySeq, LenProperties
<1>2. records[Len(records)] \in Record
  BY <1>1, ElementOfSeq
<1> QED BY <1>1, <1>2 DEF BatchOf, Batch, Record

\* A batch of new records at the end of the tail.
LEMMA OperationAdded ==
  ASSUME NEW w, WriterOK(w), NEW o \in Operation, NEW v,
         v = [w EXCEPT !.tail = Append(w.tail, o)],
         o.batch.records # <<>>,
         \A m \in DOMAIN o.batch.records : o.batch.records[m].owner = o.batch.owner,
         \A m, n \in DOMAIN o.batch.records :
           o.batch.records[m].id = o.batch.records[n].id => m = n,
         \A m \in DOMAIN o.batch.records : ~Holds(w, o.batch.records[m].id)
  PROVE  Changes(w, v, Ids(o.batch.records))
<1>1. w \in Writer /\ w.tail \in Seq(Operation) /\ w.next \in Nat
  BY DEF WriterOK, Writer
<1>2. /\ Append(w.tail, o) \in Seq(Operation)
      /\ Len(Append(w.tail, o)) = Len(w.tail) + 1 /\ Len(w.tail) \in Nat
      /\ DOMAIN w.tail = 1 .. Len(w.tail) /\ DOMAIN Append(w.tail, o) = 1 .. (Len(w.tail) + 1)
      /\ \A i \in DOMAIN w.tail : Append(w.tail, o)[i] = w.tail[i]
      /\ Append(w.tail, o)[Len(w.tail) + 1] = o
  BY <1>1, AppendProperties, LenProperties
<1>3. /\ v \in Writer /\ v.tail = Append(w.tail, o)
      /\ v.pending = w.pending /\ v.status = w.status /\ v.producer = w.producer
      /\ v.next = w.next /\ v.try = w.try
      /\ v.reply = w.reply /\ v.load = w.load /\ v.memo = w.memo /\ v.reduces = w.reduces
  BY <1>1, <1>2 DEF Writer
<1>4. ASSUME NEW r, Holds(v, r) PROVE Holds(w, r) \/ r \in Ids(o.batch.records)
  BY <1>2, <1>3, <1>4 DEF Holds, Ids
<1>5. IdsAreDistinct(v)
  <2>1. IdsAreDistinct(w)
    BY DEF WriterOK
  <2>2. /\ \A i \in DOMAIN w.tail : \A m \in DOMAIN w.tail[i].batch.records :
             Holds(w, w.tail[i].batch.records[m].id)
        /\ \A m \in DOMAIN w.pending : Holds(w, w.pending[m].id)
    BY DEF Holds
  <2> QED BY <1>2, <1>3, <2>1, <2>2 DEF IdsAreDistinct
<1>6. OwnersAgree(v)
  BY <1>2, <1>3 DEF OwnersAgree, WriterOK
<1>7. WriterOK(v)
  BY <1>1, <1>2, <1>3, <1>5, <1>6 DEF WriterOK
<1>8. \A n \in Nat : Sent(w, n) => Sent(v, n) /\ v.tail[n + 1].batch = w.tail[n + 1].batch
  BY <1>1, <1>2, <1>3 DEF Sent
<1> QED BY <1>3, <1>4, <1>7, <1>8 DEF Changes

\* A new record that waits for a flush.
LEMMA RecordPending ==
  ASSUME NEW w, WriterOK(w), NEW r \in Record, NEW v,
         v = [w EXCEPT !.pending = Append(w.pending, r)],
         MayJoin(w, r.owner), ~Holds(w, r.id)
  PROVE  Changes(w, v, {r.id})
<1>1. w \in Writer /\ w.pending \in Seq(Record) /\ w.next \in Nat
  BY DEF WriterOK, Writer
<1>2. /\ Append(w.pending, r) \in Seq(Record) /\ Len(w.pending) \in Nat
      /\ DOMAIN w.pending = 1 .. Len(w.pending)
      /\ DOMAIN Append(w.pending, r) = 1 .. (Len(w.pending) + 1)
      /\ \A i \in DOMAIN w.pending : Append(w.pending, r)[i] = w.pending[i]
      /\ Append(w.pending, r)[Len(w.pending) + 1] = r
  BY <1>1, AppendProperties, LenProperties
<1>3. /\ v \in Writer /\ v.tail = w.tail
      /\ v.pending = Append(w.pending, r) /\ v.status = w.status /\ v.producer = w.producer
      /\ v.next = w.next /\ v.try = w.try
      /\ v.reply = w.reply /\ v.load = w.load /\ v.memo = w.memo /\ v.reduces = w.reduces
  BY <1>1, <1>2 DEF Writer
<1>4. ASSUME NEW x, Holds(v, x) PROVE Holds(w, x) \/ x \in {r.id}
  BY <1>2, <1>3, <1>4 DEF Holds
<1>5. IdsAreDistinct(v)
  <2>1. IdsAreDistinct(w)
    BY DEF WriterOK
  <2>2. /\ \A i \in DOMAIN w.tail : \A m \in DOMAIN w.tail[i].batch.records :
             w.tail[i].batch.records[m].id # r.id
        /\ \A m \in DOMAIN w.pending : w.pending[m].id # r.id
    BY DEF Holds
  <2> QED BY <1>2, <1>3, <2>1, <2>2 DEF IdsAreDistinct
<1>6. OwnersAgree(v)
  BY <1>2, <1>3 DEF OwnersAgree, WriterOK, MayJoin
<1>7. WriterOK(v)
  BY <1>1, <1>3, <1>5, <1>6 DEF WriterOK
<1>8. \A n \in Nat : Sent(w, n) => Sent(v, n) /\ v.tail[n + 1].batch = w.tail[n + 1].batch
  BY <1>1, <1>3 DEF Sent
<1> QED BY <1>3, <1>4, <1>7, <1>8 DEF Changes

\* What waited is an operation of the tail.
LEMMA PendingFlushed ==
  ASSUME NEW w, WriterOK(w), w.pending # <<>>, NEW v,
         v = [w EXCEPT !.timer = "none", !.pending = <<>>, !.flushing = "running",
                !.tail = Append(w.tail, [batch |-> BatchOf(w.pending), flush |-> TRUE])]
  PROVE  Changes(w, v, {})
<1> DEFINE o == [batch |-> BatchOf(w.pending), flush |-> TRUE]
<1>1. w \in Writer /\ w.tail \in Seq(Operation) /\ w.next \in Nat /\ w.pending \in Seq(Record)
  BY DEF WriterOK, Writer
<1>2. /\ BatchOf(w.pending) \in Batch
      /\ BatchOf(w.pending).records = w.pending
      /\ \A m \in DOMAIN w.pending : w.pending[m].owner = BatchOf(w.pending).owner
  BY <1>1, BatchTyped DEF WriterOK, OwnersAgree
<1>3. o \in Operation /\ o.batch.records = w.pending /\ o.batch.owner = BatchOf(w.pending).owner
  BY <1>2 DEF Operation
<1>4. v = [w EXCEPT !.timer = "none", !.pending = <<>>, !.flushing = "running",
                    !.tail = Append(w.tail, o)]
  OBVIOUS
<1> HIDE DEF o
<1>5. /\ Append(w.tail, o) \in Seq(Operation)
      /\ Len(Append(w.tail, o)) = Len(w.tail) + 1 /\ Len(w.tail) \in Nat
      /\ DOMAIN w.tail = 1 .. Len(w.tail) /\ DOMAIN Append(w.tail, o) = 1 .. (Len(w.tail) + 1)
      /\ \A i \in DOMAIN w.tail : Append(w.tail, o)[i] = w.tail[i]
      /\ Append(w.tail, o)[Len(w.tail) + 1] = o
  BY <1>1, <1>3, AppendProperties, LenProperties
<1> DEFINE t == Append(w.tail, o)
<1> HIDE DEF t
<1>6. /\ v \in Writer /\ v.tail = t /\ v.pending = <<>>
      /\ v.status = w.status /\ v.producer = w.producer /\ v.next = w.next /\ v.try = w.try
      /\ v.reply = w.reply /\ v.load = w.load /\ v.memo = w.memo /\ v.reduces = w.reduces
  <2>1. v = [w EXCEPT !.timer = "none", !.pending = <<>>, !.flushing = "running", !.tail = t]
    BY <1>4 DEF t
  <2>2. t \in Seq(Operation) /\ <<>> \in Seq(Record)
    BY <1>5, EmptySeq DEF t
  <2> QED BY ZenonT(60), <1>1, <2>1, <2>2 DEF Writer
<1>7. DOMAIN v.pending = {}
  BY <1>6
<1>8. ASSUME NEW x, Holds(v, x) PROVE Holds(w, x) \/ x \in {}
  BY <1>3, <1>5, <1>6, <1>7, <1>8 DEF Holds, t
<1>9. IdsAreDistinct(v)
  BY <1>3, <1>5, <1>6, <1>7 DEF IdsAreDistinct, WriterOK, t
<1>10. OwnersAgree(v)
  BY <1>2, <1>3, <1>5, <1>6, <1>7 DEF OwnersAgree, WriterOK, t
<1>11. WriterOK(v)
  BY <1>1, <1>5, <1>6, <1>9, <1>10 DEF WriterOK, t
<1>12. \A n \in Nat : Sent(w, n) => Sent(v, n) /\ v.tail[n + 1].batch = w.tail[n + 1].batch
  BY <1>1, <1>5, <1>6 DEF Sent, t
<1> QED BY <1>6, <1>8, <1>11, <1>12 DEF Changes

LEMMA Composed ==
  ASSUME NEW w, NEW v, NEW u, NEW S, Changes(w, v, S), Changes(v, u, {}), WriterOK(w)
  PROVE  Changes(w, u, S)
BY DEF Changes

\* Fields that only say when to flush.
LEMMA TimersOK ==
  ASSUME NEW w, WriterOK(w), NEW v \in Writer,
         \E timer, woken, flushing, chained :
           v = [w EXCEPT !.timer = timer, !.woken = woken, !.flushing = flushing,
                         !.chained = chained]
  PROVE  Changes(w, v, {})
<1>1. w \in Writer
  BY DEF WriterOK
<1>2. /\ v.status = w.status /\ v.producer = w.producer /\ v.next = w.next /\ v.tail = w.tail
      /\ v.pending = w.pending /\ v.try = w.try /\ v.reply = w.reply /\ v.load = w.load
      /\ v.memo = w.memo /\ v.reduces = w.reduces
  BY <1>1 DEF Writer
<1> QED BY <1>2, OtherFields DEF WriterOK

LEMMA TimerSet ==
  ASSUME NEW w, WriterOK(w), NEW timer \in {"none", "armed", "fired"}
  PROVE  Changes(w, [w EXCEPT !.timer = timer], {})
<1>1. w \in Writer
  BY DEF WriterOK
<1>2. /\ [w EXCEPT !.timer = timer] \in Writer
      /\ [w EXCEPT !.timer = timer] =
           [w EXCEPT !.timer = timer, !.woken = w.woken, !.flushing = w.flushing,
                     !.chained = w.chained]
  BY <1>1 DEF Writer
<1> QED BY <1>2, TimersOK

LEMMA WokenSet ==
  ASSUME NEW w, WriterOK(w), NEW woken \in BOOLEAN
  PROVE  Changes(w, [w EXCEPT !.woken = woken], {})
<1>1. w \in Writer
  BY DEF WriterOK
<1>2. /\ [w EXCEPT !.woken = woken] \in Writer
      /\ [w EXCEPT !.woken = woken] =
           [w EXCEPT !.timer = w.timer, !.woken = woken, !.flushing = w.flushing,
                     !.chained = w.chained]
  BY <1>1 DEF Writer
<1> QED BY <1>2, TimersOK

LEMMA ChainedSet ==
  ASSUME NEW w, WriterOK(w), NEW chained \in BOOLEAN
  PROVE  Changes(w, [w EXCEPT !.chained = chained], {})
<1>1. w \in Writer
  BY DEF WriterOK
<1>2. /\ [w EXCEPT !.chained = chained] \in Writer
      /\ [w EXCEPT !.chained = chained] =
           [w EXCEPT !.timer = w.timer, !.woken = w.woken, !.flushing = w.flushing,
                     !.chained = chained]
  BY <1>1 DEF Writer
<1> QED BY <1>2, TimersOK

LEMMA Unchanged ==
  ASSUME NEW w, WriterOK(w)
  PROVE  Changes(w, w, {})
BY DEF Changes

LEMMA FlushedOK ==
  ASSUME NEW w, WriterOK(w)
  PROVE  Changes(w, Flushed(w), {})
<1>1. w.flushing \in {"none", "running", "rejected"}
  BY DEF WriterOK, Writer
<1>2. CASE w.pending = <<>>
  BY <1>2, TimerSet, Unchanged DEF Flushed
<1>3. CASE w.pending # <<>> /\ w.flushing = "running"
  BY <1>3, ChainedSet DEF Flushed
<1>4. CASE w.pending # <<>> /\ w.flushing = "rejected"
  BY <1>4, Unchanged DEF Flushed
<1>5. CASE w.pending # <<>> /\ w.flushing = "none"
  BY <1>5, PendingFlushed DEF Flushed
<1> QED BY <1>1, <1>2, <1>3, <1>4, <1>5

\* An element is taken out of a sequence.
LEMMA PartsJoined ==
  ASSUME NEW L \in Nat, NEW n \in Nat, n < L, NEW s, NEW front, NEW back, NEW t,
         \A i \in 1 .. n : front[i] = s[i],
         \A i \in 1 .. L - n - 1 : back[i] = s[n + 1 + i],
         \A i \in 1 .. L - 1 : t[i] = IF i <= n THEN front[i] ELSE back[i - n]
  PROVE  \A i \in 1 .. L - 1 : t[i] = IF i <= n THEN s[i] ELSE s[i + 1]
<1> TAKE i \in 1 .. L - 1
<1>1. CASE i <= n
  BY <1>1
<1>2. CASE ~(i <= n)
  <2>1. t[i] = back[i - n] /\ i - n \in 1 .. L - n - 1 /\ n + 1 + (i - n) = i + 1
    BY <1>2
  <2>2. back[i - n] = s[n + 1 + (i - n)]
    BY <2>1
  <2> QED BY <1>2, <2>1, <2>2
<1> QED BY <1>1, <1>2

LEMMA FrontOf ==
  ASSUME NEW S, NEW s \in Seq(S), NEW n \in Nat, n < Len(s)
  PROVE  /\ SubSeq(s, 1, n) \in Seq(S) /\ Len(SubSeq(s, 1, n)) = n
         /\ \A i \in 1 .. n : SubSeq(s, 1, n)[i] = s[i]
<1>1. Len(s) \in Nat /\ \A i \in 1 .. n : s[i] \in S
  BY LenProperties, ElementOfSeq
<1> DEFINE u == SubSeq(s, 1, n)
<1>2. /\ u \in Seq(S) /\ Len(u) = IF 1 <= n THEN n - 1 + 1 ELSE 0
      /\ \A i \in 1 .. n - 1 + 1 : u[i] = s[1 + i - 1]
  BY <1>1, SubSeqProperties
<1> HIDE DEF u
<1>3. Len(u) = n /\ \A i \in 1 .. n : u[i] = s[i]
  BY <1>2
<1> QED BY <1>2, <1>3 DEF u

LEMMA BackOf ==
  ASSUME NEW S, NEW s \in Seq(S), NEW n \in Nat, n < Len(s)
  PROVE  /\ SubSeq(s, n + 2, Len(s)) \in Seq(S)
         /\ Len(SubSeq(s, n + 2, Len(s))) = Len(s) - n - 1
         /\ \A i \in 1 .. Len(s) - n - 1 : SubSeq(s, n + 2, Len(s))[i] = s[n + 1 + i]
<1> DEFINE L == Len(s)
           u == SubSeq(s, n + 2, L)
<1>1. L \in Nat /\ \A i \in n + 2 .. L : s[i] \in S
  BY LenProperties, ElementOfSeq
<1>2. /\ u \in Seq(S) /\ Len(u) = IF n + 2 <= L THEN L - (n + 2) + 1 ELSE 0
      /\ \A i \in 1 .. L - (n + 2) + 1 : u[i] = s[(n + 2) + i - 1]
  BY <1>1, SubSeqProperties
<1> HIDE DEF u
<1>3. L \in Nat /\ n < L
  BY <1>1
<1> HIDE DEF L
<1>4. Len(u) = L - n - 1
  BY <1>2, <1>3
<1>5. ASSUME NEW i \in 1 .. L - n - 1 PROVE u[i] = s[n + 1 + i]
  <2>1. i \in 1 .. L - (n + 2) + 1 /\ (n + 2) + i - 1 = n + 1 + i
    BY <1>3
  <2> QED BY <1>2, <2>1
<1> QED BY <1>2, <1>4, <1>5 DEF u, L

LEMMA ElementRemoved ==
  ASSUME NEW S, NEW s \in Seq(S), NEW n \in Nat, n < Len(s)
  PROVE  LET t == SubSeq(s, 1, n) \o SubSeq(s, n + 2, Len(s)) IN
         /\ t \in Seq(S) /\ Len(t) = Len(s) - 1 /\ DOMAIN t = 1 .. Len(s) - 1
         /\ \A i \in 1 .. Len(s) - 1 : t[i] = IF i <= n THEN s[i] ELSE s[i + 1]
<1> DEFINE L == Len(s)
           front == SubSeq(s, 1, n)
           back == SubSeq(s, n + 2, L)
           t == front \o back
<1>1. L \in Nat /\ n < L
  BY LenProperties
<1>2. /\ front \in Seq(S) /\ Len(front) = n
      /\ \A i \in 1 .. n : front[i] = s[i]
  BY FrontOf
<1>3. /\ back \in Seq(S) /\ Len(back) = L - n - 1
      /\ \A i \in 1 .. L - n - 1 : back[i] = s[n + 1 + i]
  BY BackOf
<1> HIDE DEF L, front, back
<1>4. /\ t \in Seq(S) /\ Len(t) = Len(front) + Len(back)
      /\ \A i \in 1 .. Len(front) + Len(back) :
           t[i] = IF i <= Len(front) THEN front[i] ELSE back[i - Len(front)]
  BY <1>2, <1>3, ConcatProperties
<1>5. DOMAIN t = 1 .. Len(t)
  BY <1>4, LenProperties
<1> HIDE DEF t
<1>6. Len(front) + Len(back) = L - 1
  BY <1>1, <1>2, <1>3
<1>7. \A i \in 1 .. L - 1 : t[i] = IF i <= n THEN front[i] ELSE back[i - n]
  BY <1>2, <1>4, <1>6
<1>8. \A i \in 1 .. L - 1 : t[i] = IF i <= n THEN s[i] ELSE s[i + 1]
  BY <1>1, <1>2, <1>3, <1>7, PartsJoined
<1>9. t \in Seq(S) /\ Len(t) = L - 1 /\ DOMAIN t = 1 .. L - 1
  BY <1>4, <1>5, <1>6
<1> QED BY <1>8, <1>9 DEF t, L, front, back

\* An operation that was never sent leaves the tail.
LEMMA TailCut ==
  ASSUME NEW w, WriterOK(w), w.status = "active", w.try = 0, w.next < Len(w.tail),
         NEW v \in Writer,
         DOMAIN v.tail = 1 .. Len(w.tail) - 1, Len(v.tail) = Len(w.tail) - 1,
         \A i \in 1 .. Len(w.tail) - 1 :
           v.tail[i] = IF i <= w.next THEN w.tail[i] ELSE w.tail[i + 1],
         v.pending = w.pending, v.status = w.status, v.producer = w.producer,
         v.next = w.next, v.try = w.try, v.reply = w.reply, v.load = w.load,
         v.memo = w.memo, v.reduces = w.reduces
  PROVE  Changes(w, v, {})
<1> DEFINE old(i) == IF i <= w.next THEN i ELSE i + 1
<1>1. w.next \in Nat /\ Len(w.tail) \in Nat /\ DOMAIN w.tail = 1 .. Len(w.tail)
  <2>1. w.next \in Nat /\ w.tail \in Seq(Operation)
    BY DEF WriterOK, Writer
  <2> QED BY <2>1, LenProperties
<1>2. ASSUME NEW i \in DOMAIN v.tail PROVE old(i) \in DOMAIN w.tail /\ v.tail[i] = w.tail[old(i)]
  <2>1. i \in Nat /\ i \in 1 .. Len(w.tail) - 1
    BY <1>1
  <2>2. CASE i <= w.next
    BY <1>1, <2>1, <2>2
  <2>3. CASE ~(i <= w.next)
    BY <1>1, <2>1, <2>3
  <2> QED BY <2>2, <2>3
<1>3. \A i, j \in DOMAIN v.tail : old(i) = old(j) => i = j
  BY <1>1
<1>4. w.next <= Len(v.tail)
  BY <1>1
<1>5. ASSUME NEW k \in Nat, Sent(w, k)
      PROVE  Sent(v, k) /\ v.tail[k + 1].batch = w.tail[k + 1].batch
  <2>1. k < w.next
    BY <1>5 DEF Sent
  <2>2. k + 1 \in 1 .. Len(w.tail) - 1 /\ k + 1 <= w.next /\ k < Len(v.tail)
    BY <1>1, <2>1
  <2> QED BY <2>1, <2>2 DEF Sent
<1> HIDE DEF old
<1>6. ASSUME NEW x, Holds(v, x) PROVE Holds(w, x) \/ x \in {}
  BY <1>2, <1>6 DEF Holds
<1>7. IdsAreDistinct(v)
  <2>1. IdsAreDistinct(w)
    BY DEF WriterOK
  <2>2. ASSUME NEW i \in DOMAIN v.tail, NEW j \in DOMAIN v.tail,
               NEW m \in DOMAIN v.tail[i].batch.records, NEW n \in DOMAIN v.tail[j].batch.records,
               v.tail[i].batch.records[m].id = v.tail[j].batch.records[n].id
        PROVE  i = j /\ m = n
    <3>1. /\ old(i) \in DOMAIN w.tail /\ v.tail[i] = w.tail[old(i)]
          /\ old(j) \in DOMAIN w.tail /\ v.tail[j] = w.tail[old(j)]
      BY <1>2
    <3>2. old(i) = old(j) /\ m = n
      BY <2>1, <2>2, <3>1 DEF IdsAreDistinct
    <3> QED BY <1>3, <3>2
  <2>3. ASSUME NEW i \in DOMAIN v.tail, NEW m \in DOMAIN v.tail[i].batch.records,
               NEW n \in DOMAIN v.pending
        PROVE  v.tail[i].batch.records[m].id # v.pending[n].id
    BY <1>2, <2>1 DEF IdsAreDistinct
  <2> QED BY <2>1, <2>2, <2>3 DEF IdsAreDistinct
<1>8. OwnersAgree(v)
  BY <1>2 DEF OwnersAgree, WriterOK
<1>9. WriterOK(v)
  BY <1>4, <1>7, <1>8 DEF WriterOK
<1> QED BY <1>5, <1>6, <1>9 DEF Changes

LEMMA OperationRejected ==
  ASSUME NEW w, WriterOK(w), w.status = "active", w.try = 0, w.next < Len(w.tail),
         NEW flushing \in {"none", "running", "rejected"}
  PROVE  Changes(w, [w EXCEPT !.flushing = flushing,
                !.tail = SubSeq(w.tail, 1, w.next) \o SubSeq(w.tail, w.next + 2, Len(w.tail))], {})
<1> DEFINE t == SubSeq(w.tail, 1, w.next) \o SubSeq(w.tail, w.next + 2, Len(w.tail))
           v == [w EXCEPT !.flushing = flushing, !.tail = t]
<1>1. w \in Writer /\ w.tail \in Seq(Operation) /\ w.next \in Nat
  BY DEF WriterOK, Writer
<1>2. /\ t \in Seq(Operation) /\ Len(t) = Len(w.tail) - 1 /\ DOMAIN t = 1 .. Len(w.tail) - 1
      /\ \A i \in 1 .. Len(w.tail) - 1 : t[i] = IF i <= w.next THEN w.tail[i] ELSE w.tail[i + 1]
  BY <1>1, ElementRemoved
<1> HIDE DEF t
<1>4. /\ v \in Writer /\ v.tail = t /\ v.pending = w.pending
      /\ v.status = w.status /\ v.producer = w.producer /\ v.next = w.next /\ v.try = w.try
      /\ v.reply = w.reply /\ v.load = w.load /\ v.memo = w.memo /\ v.reduces = w.reduces
  BY ZenonT(60), <1>1, <1>2 DEF Writer
<1> HIDE DEF v
<1>5. Changes(w, v, {})
  BY <1>2, <1>4, TailCut
<1> QED BY <1>5 DEF v, t

\* The operation at the head of the tail starts, is tried again, or hears of a
\* call.
LEMMA OperationMoves ==
  ASSUME NEW w, WriterOK(w), w.status = "active", w.next < Len(w.tail),
         NEW try \in 1 .. 2,
         NEW reply \in [is : {"none", "stored", "refused"}, offset : Nat],
         NEW reduces \in BOOLEAN, reduces => w.memo # None
  PROVE  Changes(w, [w EXCEPT !.try = try, !.reply = reply, !.reduces = reduces], {})
<1> DEFINE v == [w EXCEPT !.try = try, !.reply = reply, !.reduces = reduces]
<1>1. w \in Writer
  BY DEF WriterOK
<1>6. try \in 0 .. 2
  OBVIOUS
<1>7. v \in Writer
  BY <1>1, <1>6 DEF Writer
<1>2. /\ v \in Writer /\ v.status = w.status /\ v.producer = w.producer /\ v.next = w.next
      /\ v.tail = w.tail /\ v.pending = w.pending /\ v.try = try /\ v.reply = reply
      /\ v.load = w.load /\ v.memo = w.memo /\ v.reduces = reduces
  BY <1>1, <1>7 DEF Writer
<1>3. v.try # 0
  BY <1>2
<1>4. v.load # None => v.memo = None
  BY <1>2 DEF WriterOK
<1> HIDE DEF v
<1>5. Changes(w, v, {})
  BY <1>2, <1>3, <1>4, OtherFields
<1> QED BY <1>5 DEF v

\* A load of the writer's state begins, is answered, or ends.
LEMMA LoadMoves ==
  ASSUME NEW w, WriterOK(w),
         NEW load \in {None} \cup [before : Nat, loaded : Fold \cup {None}],
         NEW memo \in Fold \cup {None}, load # None => memo = None, w.reduces => memo # None
  PROVE  Changes(w, [w EXCEPT !.memo = memo, !.load = load], {})
<1> DEFINE v == [w EXCEPT !.memo = memo, !.load = load]
<1>1. w \in Writer
  BY DEF WriterOK
<1>2. /\ v \in Writer /\ v.status = w.status /\ v.producer = w.producer /\ v.next = w.next
      /\ v.tail = w.tail /\ v.pending = w.pending /\ v.try = w.try /\ v.reply = w.reply
      /\ v.load = load /\ v.memo = memo /\ v.reduces = w.reduces
  BY <1>1 DEF Writer
<1>3. v.reply.is # "none" => v.try # 0
  BY <1>2 DEF WriterOK
<1> HIDE DEF v
<1>5. Changes(w, v, {})
  BY <1>2, <1>3, OtherFields
<1> QED BY <1>5 DEF v

\* The operation is done.
LEMMA SucceededOK ==
  ASSUME NEW w, WriterOK(w), w.reply.is = "stored"
  PROVE  Changes(w, Succeeded(w), {})
<1> DEFINE v == Succeeded(w)
<1>1. w \in Writer /\ w.status = "active" /\ w.try # 0 /\ w.next < Len(w.tail) /\ w.next \in Nat
      /\ w.tail \in Seq(Operation)
  BY DEF WriterOK, Writer
<1>2. Len(w.tail) \in Nat /\ w.tail[w.next + 1] \in Operation
  BY <1>1, LenProperties, ElementOfSeq
<1>3. Append(w.memo, w.reply.offset) \in Fold \/ ~w.reduces
  BY <1>1, AppendProperties DEF WriterOK, Writer, Fold
<1>4. v \in Writer
  <2> DEFINE memo == IF w.reduces THEN Append(w.memo, w.reply.offset) ELSE w.memo
             flushing == IF w.tail[w.next + 1].flush THEN "none" ELSE w.flushing
  <2>1. memo \in Fold \cup {None} /\ flushing \in {"none", "running", "rejected"}
    BY <1>1, <1>3 DEF Writer
  <2>2. v = [w EXCEPT !.next = w.next + 1, !.try = 0, !.reply = NoReply, !.reduces = FALSE,
                      !.memo = memo, !.flushing = flushing]
    BY DEF Succeeded
  <2> HIDE DEF v, memo, flushing
  <2>3. w.next + 1 \in Nat /\ 0 \in 0 .. 2 /\ FALSE \in BOOLEAN
        /\ NoReply \in [is : {"none", "stored", "refused"}, offset : Nat]
    BY <1>1 DEF NoReply
  <2> QED BY <1>1, <2>1, <2>2, <2>3 DEF Writer
<1>5. /\ v.status = w.status /\ v.producer = w.producer /\ v.next = w.next + 1
      /\ v.tail = w.tail /\ v.pending = w.pending /\ v.try = 0 /\ v.reply.is = "none"
      /\ v.load = w.load /\ v.reduces = FALSE
      /\ w.load # None => v.memo = None
  BY <1>1 DEF Succeeded, Writer, NoReply, WriterOK
<1> HIDE DEF v
<1>6. IdsAreDistinct(v) /\ OwnersAgree(v) /\ \A r : Holds(v, r) => Holds(w, r)
  BY <1>5 DEF WriterOK, IdsAreDistinct, OwnersAgree, Holds
<1>7. WriterOK(v)
  BY <1>1, <1>2, <1>4, <1>5, <1>6 DEF WriterOK
<1>8. \A n \in Nat : Sent(w, n) => Sent(v, n)
  BY <1>1, <1>5 DEF Sent
<1>9. Changes(w, v, {})
  BY <1>5, <1>6, <1>7, <1>8 DEF Changes
<1> QED BY <1>9 DEF v

LEMMA NoWriterTyped == NoWriter \in Writer
<1>1. <<>> \in Seq(Record) /\ <<>> \in Seq(Operation)
  BY EmptySeq
<1>2. NoReply \in [is : {"none", "stored", "refused"}, offset : Nat] /\ 0 \in 0 .. 2
  BY DEF NoReply
<1> QED BY <1>1, <1>2 DEF NoWriter, Writer

\* The writer fails, or its process ends.
LEMMA EndedOK ==
  ASSUME NEW w, WriterOK(w), w.status = "active", NEW status \in {"failed", "gone"}
  PROVE  Changes(w, Ended(w, status), {})
<1> DEFINE v == Ended(w, status)
<1>1. w \in Writer /\ w.next \in Nat
  BY DEF WriterOK, Writer
<1>2. <<>> \in Seq(Record)
  BY EmptySeq
<1>3. v \in Writer
  <2>1. v = [NoWriter EXCEPT !.status = status, !.producer = w.producer, !.next = w.next,
                             !.tail = w.tail]
    BY DEF Ended
  <2> HIDE DEF v
  <2> QED BY <1>1, <2>1, NoWriterTyped DEF Writer
<1>4. /\ v.status = status /\ v.producer = w.producer /\ v.next = w.next
      /\ v.tail = w.tail /\ v.pending = <<>> /\ v.try = 0 /\ v.reply.is = "none"
      /\ v.load = None /\ v.memo = None /\ v.reduces = FALSE
  BY DEF Ended, NoWriter, NoReply
<1>5. DOMAIN v.pending = {}
  BY <1>4
<1> HIDE DEF v
<1>6. IdsAreDistinct(v) /\ OwnersAgree(v) /\ \A r : Holds(v, r) => Holds(w, r)
  BY <1>4, <1>5 DEF WriterOK, IdsAreDistinct, OwnersAgree, Holds
<1>7. WriterOK(v)
  BY <1>3, <1>4, <1>6 DEF WriterOK
<1>8. \A n \in Nat : Sent(w, n) => Sent(v, n)
  BY <1>1, <1>4 DEF Sent
<1>9. Changes(w, v, {})
  BY <1>4, <1>6, <1>7, <1>8 DEF Changes
<1> QED BY <1>9 DEF v

LEMMA NoWriterOK == WriterOK(NoWriter) /\ \A r : ~Holds(NoWriter, r)
<1>1. <<>> \in Seq(Record) /\ <<>> \in Seq(Operation) /\ Len(<<>>) = 0
  BY EmptySeq
<1>2. NoWriter \in Writer /\ NoWriter.pending = <<>> /\ NoWriter.tail = <<>>
  BY NoWriterTyped DEF NoWriter
<1>3. DOMAIN NoWriter.pending = {} /\ DOMAIN NoWriter.tail = {}
  BY <1>2
<1>4. IdsAreDistinct(NoWriter) /\ OwnersAgree(NoWriter)
  BY <1>3 DEF IdsAreDistinct, OwnersAgree
<1>5. WriterOK(NoWriter)
  BY <1>1, <1>2, <1>4 DEF WriterOK, NoWriter, NoReply
<1> QED BY <1>3, <1>5 DEF Holds

\* A new writer.
LEMMA OpenedOK ==
  ASSUME NEW p \in Producers
  PROVE  Changes(NoWriter, [NoWriter EXCEPT !.status = "active", !.producer = p], {})
<1> DEFINE v == [NoWriter EXCEPT !.status = "active", !.producer = p]
<1>1. <<>> \in Seq(Record) /\ <<>> \in Seq(Operation) /\ Len(<<>>) = 0
  BY EmptySeq
<1>2. v \in Writer
  BY NoWriterTyped DEF Writer
<1>3. /\ v.status = "active" /\ v.producer = p /\ v.next = 0
      /\ v.tail = <<>> /\ v.pending = <<>> /\ v.try = 0 /\ v.reply.is = "none"
      /\ v.load = None /\ v.memo = None /\ v.reduces = FALSE
      /\ NoWriter.tail = <<>>
  BY DEF NoWriter, NoReply
<1> HIDE DEF v
<1>4. DOMAIN v.pending = {} /\ DOMAIN v.tail = {}
  BY <1>3
<1>5. IdsAreDistinct(v) /\ OwnersAgree(v) /\ \A r : ~Holds(v, r)
  BY <1>4 DEF IdsAreDistinct, OwnersAgree, Holds
<1>6. WriterOK(v)
  BY <1>1, <1>2, <1>3, <1>5 DEF WriterOK
<1>7. \A n \in Nat : ~Sent(NoWriter, n)
  BY <1>1, <1>3 DEF Sent
<1>8. Changes(NoWriter, v, {})
  BY <1>5, <1>6, <1>7 DEF Changes
<1> QED BY <1>8 DEF v

-----------------------------------------------------------------------------
(* All writers, their calls and the log *)

WritersOK ==
  /\ \A e \in Epochs : WriterOK(writers[e])
  /\ \A e \in Epochs : \A r : Holds(writers[e], r) => r \in 1 .. lastRecord
  /\ \A e, f \in Epochs : \A r : Holds(writers[e], r) /\ Holds(writers[f], r) => e = f

\* The call carries an operation that its writer has sent.
SentCall(c) ==
  /\ c.epoch \in Epochs
  /\ c.producer = writers[c.epoch].producer
  /\ Sent(writers[c.epoch], c.sequence)
  /\ c.batch = writers[c.epoch].tail[c.sequence + 1].batch

NextNumber ==
  IF log # <<>> /\ log[Len(log)].epoch = stream.epoch THEN log[Len(log)].sequence + 1 ELSE 0

LogOK ==
  /\ stream.epoch <= MaxEpochs
  /\ stream.nextSequence = NextNumber
  /\ \A i \in DOMAIN log :
       /\ SentCall(log[i])
       /\ log[i].epoch <= stream.epoch
       /\ log[i].epoch = stream.epoch => log[i].sequence < stream.nextSequence
  /\ \A i, j \in DOMAIN log :
       log[i].epoch = log[j].epoch /\ log[i].sequence = log[j].sequence => i = j
  /\ ClaimsFollowEachOther

ClaimsOK ==
  /\ \A e \in Epochs : e > stream.epoch => writers[e] = NoWriter
  /\ stream.epoch \in Epochs /\ writers[stream.epoch].status # "none" =>
       stream.producer = writers[stream.epoch].producer
  /\ \A c \in calls : SentCall(c.call)
  /\ \A e \in Epochs :
       writers[e].reply.is = "stored" =>
         /\ writers[e].reply.offset \in DOMAIN log
         /\ log[writers[e].reply.offset].epoch = e
         /\ log[writers[e].reply.offset].sequence = writers[e].next

WInv == TypeOK /\ WritersOK /\ LogOK /\ ClaimsOK

RestTyped ==
  /\ hosts \in [Producers -> Host]
  /\ lastRecord \in 0 .. MaxRecords
  /\ answers \in [RecordIds -> Answer]

\* A step of the writer that is neither its opening nor an answer to it.
Calm(w, v) ==
  /\ w = NoWriter => v = NoWriter
  /\ v.status # "none" => w.status # "none"
  /\ v.producer = w.producer
  /\ v.reply.is = "stored" => v.reply = w.reply /\ v.next = w.next

LEMMA WritersStep ==
  ASSUME WritersOK, lastRecord \in Nat, lastRecord' \in Nat, lastRecord <= lastRecord',
         NEW e0, NEW S, \A r \in S : r \in lastRecord + 1 .. lastRecord',
         \A e \in Epochs : Changes(writers[e], writers'[e], IF e = e0 THEN S ELSE {})
  PROVE  WritersOK'
<1>1. \A e \in Epochs : WriterOK(writers'[e])
  BY DEF Changes
<1>2. ASSUME NEW e \in Epochs, NEW r, Holds(writers'[e], r)
      PROVE  Holds(writers[e], r) \/ (e = e0 /\ r \in S)
  BY <1>2 DEF Changes
<1>3. ASSUME NEW e \in Epochs, NEW r, Holds(writers'[e], r)
      PROVE  r \in 1 .. lastRecord'
  <2>1. CASE Holds(writers[e], r)
    <3>1. r \in 1 .. lastRecord
      BY <2>1 DEF WritersOK
    <3> QED BY <3>1
  <2>2. CASE r \in S
    BY <2>2
  <2> QED BY <1>2, <1>3, <2>1, <2>2
<1>4. ASSUME NEW e \in Epochs, NEW f \in Epochs, NEW r,
             Holds(writers'[e], r), Holds(writers'[f], r)
      PROVE  e = f
  <2>1. \A g \in Epochs : Holds(writers[g], r) => r \notin S
    BY DEF WritersOK
  <2> QED BY <1>2, <1>4, <2>1 DEF WritersOK
<1> QED BY <1>1, <1>3, <1>4 DEF WritersOK, Epochs

LEMMA CallsStaySent ==
  ASSUME NEW c, SentCall(c), c.sequence \in Nat, NEW S,
         Changes(writers[c.epoch], writers'[c.epoch], S)
  PROVE  SentCall(c)'
BY DEF SentCall, Changes, Epochs

LEMMA QuietStep ==
  ASSUME WInv, UNCHANGED <<stream, log>>, RestTyped', writers' \in [Epochs -> Writer],
         lastRecord <= lastRecord',
         NEW e0, NEW S, \A r \in S : r \in lastRecord + 1 .. lastRecord',
         \A e \in Epochs : Changes(writers[e], writers'[e], IF e = e0 THEN S ELSE {}),
         \A e \in Epochs : Calm(writers[e], writers'[e]),
         calls' \subseteq [try : 1 .. 2, call : Call],
         \A c \in calls' : c \in calls \/ SentCall(c.call)'
  PROVE  WInv'
<1>1. /\ TypeOK /\ WritersOK /\ LogOK /\ ClaimsOK
      /\ lastRecord \in Nat /\ lastRecord' \in Nat
  BY DEF WInv, TypeOK, RestTyped
<1>2. TypeOK'
  BY <1>1 DEF TypeOK, RestTyped
<1>3. WritersOK'
  BY <1>1, WritersStep
<1>4. \A c \in Call : SentCall(c) => SentCall(c)'
  <2> TAKE c \in Call
  <2> HAVE SentCall(c)
  <2>1. c.sequence \in Nat /\ c.epoch \in Epochs
    BY DEF Call, SentCall
  <2> QED BY <2>1, CallsStaySent
<1>5. \A i \in DOMAIN log : log[i] \in Call
  BY <1>1, ElementOfSeq, LenProperties DEF TypeOK
<1>6. LogOK'
  <2>1. \A i \in DOMAIN log : SentCall(log[i])'
    BY <1>1, <1>4, <1>5 DEF LogOK
  <2>2. log' = log /\ stream' = stream
    OBVIOUS
  <2>3. NextNumber' = NextNumber /\ ClaimsFollowEachOther'
    BY <1>1, <2>2 DEF LogOK, NextNumber, ClaimsFollowEachOther
  <2>4. \A i \in DOMAIN log' : SentCall(log[i])'
    BY <2>1, <2>2 DEF SentCall
  <2> QED BY <1>1, <2>2, <2>3, <2>4 DEF LogOK
<1>7. ClaimsOK'
  <2>1. \A c \in calls' : SentCall(c.call)'
    <3> TAKE c \in calls'
    <3>1. c.call \in Call
      OBVIOUS
    <3> QED BY <1>1, <1>4, <3>1 DEF ClaimsOK
  <2>2. \A e \in Epochs : e > stream.epoch => writers'[e] = NoWriter
    BY <1>1 DEF ClaimsOK, Calm
  <2>3. stream.epoch \in Epochs /\ writers'[stream.epoch].status # "none" =>
          stream.producer = writers'[stream.epoch].producer
    BY <1>1 DEF ClaimsOK, Calm
  <2>4. \A e \in Epochs :
          writers'[e].reply.is = "stored" =>
            /\ writers'[e].reply.offset \in DOMAIN log
            /\ log[writers'[e].reply.offset].epoch = e
            /\ log[writers'[e].reply.offset].sequence = writers'[e].next
    BY <1>1 DEF ClaimsOK, Calm
  <2> QED BY <2>1, <2>2, <2>3, <2>4 DEF ClaimsOK, Epochs
<1> QED BY <1>2, <1>3, <1>6, <1>7 DEF WInv

\* What one writer does when it alone moves: it takes the records of S in, and
\* calls that it has sent go out.
Steady(w, v) ==
  /\ v.producer = w.producer
  /\ v.reply.is = "stored" => v.reply = w.reply /\ v.next = w.next
NewRecords(S) ==
  /\ lastRecord <= lastRecord'
  /\ \A r \in S : r \in lastRecord + 1 .. lastRecord'
CallsGoOut ==
  /\ calls' \subseteq [try : 1 .. 2, call : Call]
  /\ \A c \in calls' : c \in calls \/ SentCall(c.call)'

LEMMA OneMoves ==
  ASSUME WInv, UNCHANGED <<stream, log>>, RestTyped', NEW e \in Epochs, Active(e),
         NEW v, NEW S, NewRecords(S), CallsGoOut,
         Changes(writers[e], v, S), Steady(writers[e], v),
         writers' = [writers EXCEPT ![e] = v]
  PROVE  WInv'
<1>1. writers \in [Epochs -> Writer] /\ v \in Writer
  BY DEF WInv, TypeOK, Changes, WriterOK
<1>2. writers' \in [Epochs -> Writer]
  BY <1>1
<1>3. writers[e] # NoWriter
  BY DEF Active, NoWriter
<1>4. \A f \in Epochs : Changes(writers[f], writers'[f], IF f = e THEN S ELSE {})
  BY <1>1, Unchanged DEF WInv, WritersOK
<1>5. \A f \in Epochs : Calm(writers[f], writers'[f])
  BY <1>1, <1>3 DEF Calm, Active, Steady
<1> QED BY <1>2, <1>4, <1>5, QuietStep DEF NewRecords, CallsGoOut

LEMMA Parts == WInv => /\ TypeOK /\ RestTyped /\ writers \in [Epochs -> Writer]
                       /\ calls \subseteq [try : 1 .. 2, call : Call]
                       /\ \A e \in Epochs : WriterOK(writers[e])
BY DEF WInv, TypeOK, RestTyped, WritersOK

LEMMA ActiveIsOK ==
  ASSUME WInv, NEW e \in Epochs, Active(e)
  PROVE  /\ WriterOK(writers[e]) /\ writers[e] \in Writer /\ writers[e].status = "active"
         /\ writers[e].producer \in Producers /\ writers[e].tail \in Seq(Operation)
         /\ writers[e].next \in Nat /\ Len(writers[e].tail) \in Nat
BY Parts, LenProperties DEF Active, WriterOK, Writer

\* A new record is nobody's yet.
LEMMA FreshRecord ==
  ASSUME WInv
  PROVE  \A e \in Epochs : ~Holds(writers[e], lastRecord + 1)
BY DEF WInv, TypeOK, WritersOK

LEMMA Handed ==
  ASSUME WInv, lastRecord < MaxRecords, lastRecord' = lastRecord + 1,
         answers' = [answers EXCEPT ![lastRecord + 1] = Unanswered],
         UNCHANGED <<calls, hosts>>
  PROVE  RestTyped' /\ NewRecords({lastRecord + 1}) /\ CallsGoOut
<1>1. /\ lastRecord \in 0 .. MaxRecords /\ answers \in [RecordIds -> Answer]
      /\ hosts \in [Producers -> Host] /\ calls \subseteq [try : 1 .. 2, call : Call]
  BY DEF WInv, TypeOK
<1>2. MaxRecords \in Nat
  BY WriterAssumption
<1>3. Unanswered \in Answer
  BY DEF Unanswered, Answer
<1>4. answers' \in [RecordIds -> Answer]
  BY <1>1, <1>3
<1>5. hosts' = hosts /\ calls' = calls /\ lastRecord' \in 0 .. MaxRecords
  BY <1>1, <1>2
<1>6. NewRecords({lastRecord + 1})
  BY <1>1 DEF NewRecords
<1> QED BY <1>1, <1>4, <1>5, <1>6 DEF RestTyped, CallsGoOut

LEMMA AppendRecordKeeps ==
  ASSUME WInv, NEW e \in Epochs, NEW owner \in Attempts \cup {None}, AppendRecord(e, owner)
  PROVE  WInv'
<1> DEFINE r == [id |-> lastRecord + 1, owner |-> owner]
           o == [batch |-> BatchOf(<<r>>), flush |-> FALSE]
           w == writers[e]
           v == [w EXCEPT !.tail = Append(w.tail, o)]
<1>1. Active(e) /\ WriterOK(w) /\ w \in Writer
  BY ActiveIsOK DEF AppendRecord
<1>2. lastRecord \in Nat /\ lastRecord < MaxRecords /\ MaxRecords \in Nat
  BY WriterAssumption DEF WInv, TypeOK, AppendRecord, Hand
<1>3. r \in Record /\ <<r>> \in Seq(Record) /\ <<r>> # <<>> /\ DOMAIN <<r>> = {1} /\ <<r>>[1] = r
  BY <1>2 DEF Record
<1>4. /\ BatchOf(<<r>>) \in Batch /\ BatchOf(<<r>>).records = <<r>>
      /\ BatchOf(<<r>>).owner = owner
  <2> HIDE DEF r
  <2>1. \A m, n \in DOMAIN <<r>> : <<r>>[m].owner = <<r>>[n].owner
    BY <1>3
  <2>2. BatchOf(<<r>>) \in Batch /\ BatchOf(<<r>>).records = <<r>>
        /\ \A m \in DOMAIN <<r>> : <<r>>[m].owner = BatchOf(<<r>>).owner
    BY <1>3, <2>1, BatchTyped
  <2> QED BY <1>3, <2>2 DEF r
<1>5. o \in Operation /\ o.batch.records = <<r>> /\ o.batch.owner = owner
  BY <1>4 DEF Operation
<1>6. Changes(w, v, {lastRecord + 1})
  <2>1. ~Holds(w, r.id)
    BY FreshRecord
  <2>2. Ids(o.batch.records) = {lastRecord + 1}
    BY <1>3, <1>5 DEF Ids
  <2>3. /\ o.batch.records # <<>>
        /\ \A m \in DOMAIN o.batch.records : o.batch.records[m].owner = o.batch.owner
        /\ \A m, n \in DOMAIN o.batch.records : o.batch.records[m].id = o.batch.records[n].id => m = n
        /\ \A m \in DOMAIN o.batch.records : ~Holds(w, o.batch.records[m].id)
    BY <1>3, <1>5, <2>1
  <2> HIDE DEF o, w
  <2>4. Changes(w, v, Ids(o.batch.records))
    BY <1>1, <1>5, <2>3, OperationAdded
  <2> QED BY <2>2, <2>4
<1>7. v.producer = w.producer /\ v.reply = w.reply /\ v.next = w.next
  BY <1>1 DEF Writer
<1>8. /\ writers' = [writers EXCEPT ![e] = v] /\ lastRecord' = lastRecord + 1
      /\ answers' = [answers EXCEPT ![lastRecord + 1] = Unanswered]
      /\ UNCHANGED <<stream, log, calls, hosts>>
  BY DEF AppendRecord, Hand
<1>9. RestTyped' /\ NewRecords({lastRecord + 1}) /\ CallsGoOut
  BY <1>2, <1>8, Handed
<1> HIDE DEF v, w
<1>10. Steady(w, v)
  BY <1>7 DEF Steady
<1>11. UNCHANGED <<stream, log>>
  BY <1>8
<1> QED BY <1>1, <1>6, <1>8, <1>9, <1>10, <1>11, OneMoves DEF w

LEMMA EnqueueKeeps ==
  ASSUME WInv, NEW e \in Epochs, NEW owner \in Attempts \cup {None}, Enqueue(e, owner)
  PROVE  WInv'
<1> DEFINE r == [id |-> lastRecord + 1, owner |-> owner]
           w == writers[e]
           u == [w EXCEPT !.pending = Append(w.pending, r)]
<1>1. Active(e) /\ WriterOK(w) /\ w \in Writer /\ MayJoin(w, owner)
  BY ActiveIsOK DEF Enqueue
<1>2. lastRecord \in Nat /\ lastRecord < MaxRecords /\ MaxRecords \in Nat
  BY WriterAssumption DEF WInv, TypeOK, Enqueue, Hand
<1>3. r \in Record /\ r.id = lastRecord + 1 /\ r.owner = owner
  BY <1>2 DEF Record
<1>4. ~Holds(w, r.id)
  BY FreshRecord
<1>5. PICK v \in Woken(u) : Hand(e, v)
  BY DEF Enqueue
<1> HIDE DEF r
<1>6. Changes(w, u, {lastRecord + 1})
  BY <1>1, <1>3, <1>4, RecordPending
<1>7. u.producer = w.producer /\ u.reply = w.reply /\ u.next = w.next /\ u \in Writer
  BY <1>1, <1>6 DEF Writer, Changes, WriterOK
<1> HIDE DEF u, w
<1>8. WriterOK(u)
  BY <1>6 DEF Changes
<1>9. v = u \/ v = [u EXCEPT !.woken = TRUE] \/ v = [u EXCEPT !.timer = "armed"]
  BY <1>5 DEF Woken
<1>10. Changes(u, v, {})
  BY <1>8, <1>9, Unchanged, WokenSet, TimerSet
<1>11. Changes(w, v, {lastRecord + 1})
  BY <1>1, <1>6, <1>10, Composed
<1>12. v.producer = w.producer /\ v.reply = w.reply /\ v.next = w.next
  BY <1>7, <1>9 DEF Writer
<1>13. /\ writers' = [writers EXCEPT ![e] = v] /\ lastRecord' = lastRecord + 1
       /\ answers' = [answers EXCEPT ![lastRecord + 1] = Unanswered]
       /\ UNCHANGED <<stream, log, calls, hosts>>
  BY <1>5 DEF Hand
<1>14. RestTyped' /\ NewRecords({lastRecord + 1}) /\ CallsGoOut
  BY <1>2, <1>13, Handed
<1>15. Steady(w, v)
  BY <1>12 DEF Steady
<1>16. UNCHANGED <<stream, log>>
  BY <1>13
<1> QED BY <1>1, <1>11, <1>13, <1>14, <1>15, <1>16, OneMoves DEF w

LEMMA Rest ==
  ASSUME WInv, UNCHANGED <<calls, hosts, lastRecord, answers>>
  PROVE  RestTyped' /\ NewRecords({}) /\ CallsGoOut
BY DEF WInv, TypeOK, RestTyped, NewRecords, CallsGoOut

\* A step that only writes a writer.
LEMMA WriteKeeps ==
  ASSUME WInv, NEW e \in Epochs, Active(e), NEW v, Write(e, v), Changes(writers[e], v, {}),
         v.producer = writers[e].producer,
         v.reply = writers[e].reply, v.next = writers[e].next
  PROVE  WInv'
<1>1. /\ writers' = [writers EXCEPT ![e] = v]
      /\ UNCHANGED <<stream, log, calls, hosts, lastRecord, answers>>
  BY DEF Write
<1>2. RestTyped' /\ NewRecords({}) /\ CallsGoOut
  BY <1>1, Rest
<1>3. Steady(writers[e], v) /\ UNCHANGED <<stream, log>>
  BY <1>1 DEF Steady
<1> QED BY <1>1, <1>2, <1>3, OneMoves

LEMMA FlushedFields ==
  ASSUME NEW w \in Writer
  PROVE  /\ Flushed(w).producer = w.producer /\ Flushed(w).reply = w.reply
         /\ Flushed(w).next = w.next
<1>1. w.flushing \in {"none", "running", "rejected"}
  BY DEF Writer
<1> QED BY <1>1 DEF Writer, Flushed

LEMMA FlushKeeps ==
  ASSUME WInv, NEW e \in Epochs, FlushNow(e) \/ FlushStep(e)
  PROVE  WInv'
<1> DEFINE w == writers[e]
<1>1. Active(e)
  BY DEF FlushNow, FlushStep, TimerFires, MicrotaskFlushes, ChainedFlush
<1>2. WriterOK(w) /\ w \in Writer
  BY <1>1, ActiveIsOK
<1>3. \A u : /\ Changes(w, u, {}) /\ u.producer = w.producer /\ u.reply = w.reply /\ u.next = w.next
             /\ Write(e, Flushed(u)) \/ Write(e, u)
             => WInv'
  <2> SUFFICES ASSUME NEW u, Changes(w, u, {}), u.producer = w.producer, u.reply = w.reply,
                      u.next = w.next, Write(e, Flushed(u)) \/ Write(e, u)
               PROVE  WInv'
    OBVIOUS
  <2>1. WriterOK(u) /\ u \in Writer
    BY DEF Changes, WriterOK
  <2>2. Changes(u, Flushed(u), {}) /\ Flushed(u).producer = w.producer
        /\ Flushed(u).reply = w.reply /\ Flushed(u).next = w.next
    BY <2>1, FlushedOK, FlushedFields
  <2>3. Changes(w, Flushed(u), {})
    BY <1>2, <2>2, Composed
  <2> QED BY <1>1, <2>2, <2>3, WriteKeeps
<1>4. \A timer \in {"none", "armed", "fired"}, flag \in BOOLEAN :
        /\ [w EXCEPT !.timer = timer].producer = w.producer
        /\ [w EXCEPT !.timer = timer].reply = w.reply
        /\ [w EXCEPT !.timer = timer].next = w.next
        /\ [w EXCEPT !.woken = flag].producer = w.producer
        /\ [w EXCEPT !.woken = flag].reply = w.reply
        /\ [w EXCEPT !.woken = flag].next = w.next
        /\ [w EXCEPT !.chained = flag].producer = w.producer
        /\ [w EXCEPT !.chained = flag].reply = w.reply
        /\ [w EXCEPT !.chained = flag].next = w.next
  BY <1>2 DEF Writer
<1>5. CASE FlushNow(e)
  BY <1>2, <1>3, <1>5, Unchanged DEF FlushNow
<1>6. CASE TimerFires(e)
  <2> DEFINE u == [w EXCEPT !.timer = "fired"]
  <2>1. Write(e, Flushed(u))
    BY <1>6 DEF TimerFires
  <2>2. Changes(w, u, {}) /\ u.producer = w.producer /\ u.reply = w.reply /\ u.next = w.next
    BY <1>2, <1>4, TimerSet
  <2> HIDE DEF u, w
  <2> QED BY <1>3, <2>1, <2>2
<1>7. CASE MicrotaskFlushes(e)
  <2> DEFINE u == [w EXCEPT !.woken = FALSE]
  <2>1. Write(e, Flushed(u))
    BY <1>7 DEF MicrotaskFlushes
  <2>2. Changes(w, u, {}) /\ u.producer = w.producer /\ u.reply = w.reply /\ u.next = w.next
    BY <1>2, <1>4, WokenSet
  <2> HIDE DEF u, w
  <2> QED BY <1>3, <2>1, <2>2
<1>8. CASE ChainedFlush(e)
  <2> DEFINE u == [w EXCEPT !.chained = FALSE]
  <2>1. Write(e, Flushed(u)) \/ Write(e, u)
    BY <1>8 DEF ChainedFlush
  <2>2. Changes(w, u, {}) /\ u.producer = w.producer /\ u.reply = w.reply /\ u.next = w.next
    BY <1>2, <1>4, ChainedSet
  <2> HIDE DEF u, w
  <2> QED BY <1>3, <2>1, <2>2
<1> QED BY <1>5, <1>6, <1>7, <1>8 DEF FlushStep

-----------------------------------------------------------------------------
(* The stream's own steps *)

LEMMA WritersStay ==
  ASSUME WInv, UNCHANGED lastRecord,
         \A e \in Epochs : Changes(writers[e], writers'[e], {})
  PROVE  /\ WritersOK'
         /\ \A c \in Call : SentCall(c) => SentCall(c)'
<1>1. lastRecord \in Nat /\ WritersOK
  BY DEF WInv, TypeOK
<1>2. \A e \in Epochs : Changes(writers[e], writers'[e], IF e = 0 THEN {} ELSE {})
  OBVIOUS
<1>3. lastRecord' \in Nat /\ lastRecord <= lastRecord'
      /\ \A r \in {} : r \in lastRecord + 1 .. lastRecord'
  BY <1>1
<1>5. WritersOK'
  BY <1>1, <1>2, <1>3, WritersStep
<1>4. \A c \in Call : SentCall(c) => SentCall(c)'
  <2> TAKE c \in Call
  <2> HAVE SentCall(c)
  <2>1. c.sequence \in Nat /\ c.epoch \in Epochs
    BY DEF Call, SentCall
  <2> QED BY <2>1, CallsStaySent
<1> QED BY <1>4, <1>5

LEMMA RowsAreCalls ==
  ASSUME WInv
  PROVE  /\ log \in Seq(Call) /\ Len(log) \in Nat /\ DOMAIN log = 1 .. Len(log)
         /\ \A i \in DOMAIN log : log[i] \in Call /\ log[i].epoch \in Nat /\ log[i].sequence \in Nat
         /\ stream \in Stream /\ stream.epoch \in Nat /\ stream.nextSequence \in Nat
<1>1. log \in Seq(Call) /\ stream \in Stream
  BY DEF WInv, TypeOK
<1>2. Len(log) \in Nat /\ DOMAIN log = 1 .. Len(log) /\ \A i \in DOMAIN log : log[i] \in Call
  BY <1>1, LenProperties, ElementOfSeq
<1> QED BY <1>1, <1>2 DEF Call, Stream

LEMMA CreateKeeps ==
  ASSUME WInv, Create
  PROVE  WInv'
<1>1. /\ UNCHANGED <<log, writers, calls, hosts, lastRecord, answers>>
      /\ stream' \in Stream /\ stream'.epoch = stream.epoch
      /\ stream'.nextSequence = stream.nextSequence /\ stream'.producer = stream.producer
  BY DEF Create, CreateStream, WInv, TypeOK, Stream
<1>2. TypeOK'
  BY <1>1 DEF WInv, TypeOK
<1>3. WritersOK'
  BY <1>1 DEF WInv, WritersOK
<1>4. \A c : SentCall(c) => SentCall(c)'
  BY <1>1 DEF SentCall
<1>5. NextNumber' = NextNumber /\ (ClaimsFollowEachOther => ClaimsFollowEachOther')
  BY <1>1 DEF NextNumber, ClaimsFollowEachOther
<1>6. LogOK'
  BY <1>1, <1>4, <1>5 DEF WInv, LogOK
<1>7. ClaimsOK'
  BY <1>1, <1>4 DEF WInv, ClaimsOK
<1> QED BY <1>2, <1>3, <1>6, <1>7 DEF WInv

LEMMA OpenKeeps ==
  ASSUME WInv, NEW p \in Producers, Open(p)
  PROVE  WInv'
<1> DEFINE n == stream.epoch + 1
           v == [NoWriter EXCEPT !.status = "active", !.producer = p]
<1>1. /\ stream.epoch \in Nat /\ stream.epoch < MaxEpochs /\ MaxEpochs \in Nat /\ n \in Epochs
      /\ UNCHANGED <<log, calls, hosts, lastRecord, answers>>
      /\ stream' \in Stream /\ stream'.epoch = n /\ stream'.nextSequence = 0
      /\ stream'.producer = p
  <2>1. stream.epoch \in Nat /\ stream \in Stream /\ MaxEpochs \in Nat
    BY RowsAreCalls, WriterAssumption
  <2>2. /\ stream' = [stream EXCEPT !.producer = p, !.epoch = n, !.nextSequence = 0]
        /\ stream.epoch < MaxEpochs
        /\ UNCHANGED <<log, calls, hosts, lastRecord, answers>>
    BY DEF Open, AcquireProducer
  <2>3. n \in Epochs /\ n \in Nat
    BY <2>1, <2>2 DEF Epochs
  <2> HIDE DEF n
  <2> QED BY <2>1, <2>2, <2>3 DEF Stream
<1>2. writers \in [Epochs -> Writer] /\ writers[n] = NoWriter
  BY <1>1 DEF WInv, TypeOK, ClaimsOK
<1>3. writers' = [writers EXCEPT ![n] = v] \/ writers' = writers
  BY <1>1 DEF Open
<1>4. Changes(NoWriter, v, {})
  BY OpenedOK
<1>5. v \in Writer /\ v.producer = p /\ v.reply.is = "none"
  BY <1>4 DEF Changes, WriterOK, NoWriter, NoReply
<1> HIDE DEF v
<1>6. \A e \in Epochs : WriterOK(writers[e])
  BY DEF WInv, WritersOK
<1>7. \A e \in Epochs : Changes(writers[e], writers'[e], {})
  BY <1>2, <1>3, <1>4, <1>6, Unchanged
<1>8. writers' \in [Epochs -> Writer]
  BY <1>2, <1>3, <1>5
<1>9. WritersOK' /\ \A c \in Call : SentCall(c) => SentCall(c)'
  BY <1>1, <1>7, WritersStay
<1>10. TypeOK'
  BY <1>1, <1>8 DEF WInv, TypeOK
<1>11. LogOK'
  <2>1. \A i \in DOMAIN log : SentCall(log[i])' /\ log[i].epoch < n
    BY <1>1, <1>9, RowsAreCalls DEF WInv, LogOK
  <2>2. log' = log /\ ClaimsFollowEachOther'
    BY <1>1 DEF WInv, LogOK, ClaimsFollowEachOther
  <2>3. \A i \in DOMAIN log' : SentCall(log[i])'
    BY <2>1, <2>2 DEF SentCall
  <2>4. \A i \in DOMAIN log' :
          SentCall(log[i])' /\ log'[i].epoch < n /\ log'[i].epoch \in Nat
    BY <2>1, <2>2, <2>3, RowsAreCalls
  <2>5. NextNumber' = 0
    <3>1. log' # <<>> => Len(log') \in DOMAIN log'
      BY <2>2, RowsAreCalls, EmptySeq
    <3> QED BY <1>1, <2>4, <3>1 DEF NextNumber
  <2>6. \A i, j \in DOMAIN log' :
          log'[i].epoch = log'[j].epoch /\ log'[i].sequence = log'[j].sequence => i = j
    BY <2>2 DEF WInv, LogOK
  <2>7. n <= MaxEpochs
    BY <1>1
  <2> QED BY <1>1, <2>2, <2>4, <2>5, <2>6, <2>7 DEF LogOK
<1>12. ClaimsOK'
  <2>1. \A e \in Epochs : e > n => writers'[e] = NoWriter
    BY <1>1, <1>2, <1>3 DEF WInv, ClaimsOK, Epochs
  <2>2. writers'[n].status # "none" => p = writers'[n].producer
    BY <1>1, <1>2, <1>3, <1>5 DEF NoWriter
  <2>3. \A c \in calls' : SentCall(c.call)'
    <3>1. \A c \in calls : c.call \in Call /\ SentCall(c.call)
      BY DEF WInv, TypeOK, ClaimsOK
    <3> QED BY <1>1, <1>9, <3>1
  <2>4. \A e \in Epochs : writers'[e].reply.is = "stored" => writers'[e] = writers[e]
    BY <1>1, <1>2, <1>3, <1>5
  <2>5. \A e \in Epochs :
       writers'[e].reply.is = "stored" =>
         /\ writers'[e].reply.offset \in DOMAIN log'
         /\ log'[writers'[e].reply.offset].epoch = e
         /\ log'[writers'[e].reply.offset].sequence = writers'[e].next
    BY <1>1, <2>4 DEF WInv, ClaimsOK
  <2> QED BY <1>1, <2>1, <2>2, <2>3, <2>5 DEF ClaimsOK
<1> QED BY <1>9, <1>10, <1>11, <1>12 DEF WInv

-----------------------------------------------------------------------------
(* The operations of a writer *)

LEMMA AnsweredTyped ==
  ASSUME WInv, NEW ids, NEW is \in {"stored", "rejected", "lost"}, NEW offset \in Nat
  PROVE  Answered(ids, is, offset) \in [RecordIds -> Answer]
<1>1. [is |-> is, offset |-> offset] \in Answer
  BY DEF Answer
<1>2. answers \in [RecordIds -> Answer]
  BY DEF WInv, TypeOK
<1> QED BY <1>1, <1>2 DEF Answered

LEMMA RestAnswered ==
  ASSUME WInv, answers' \in [RecordIds -> Answer], UNCHANGED <<hosts, lastRecord>>
  PROVE  RestTyped' /\ NewRecords({})
BY DEF WInv, TypeOK, RestTyped, NewRecords

LEMMA CallsStay ==
  ASSUME WInv, UNCHANGED calls
  PROVE  CallsGoOut
BY DEF WInv, TypeOK, CallsGoOut

LEMMA CallGoesOut ==
  ASSUME WInv, NEW e \in Epochs, Active(e), writers[e].next < Len(writers[e].tail),
         NEW v, writers' = [writers EXCEPT ![e] = v], v.try # 0,
         v.tail = writers[e].tail, v.next = writers[e].next, v.producer = writers[e].producer,
         NEW try \in 1 .. 2, calls' = calls \cup {[try |-> try, call |-> CallOf(e)]}
  PROVE  CallsGoOut
<1> DEFINE w == writers[e]
           c == CallOf(e)
<1>1. /\ w \in Writer /\ w.producer \in Producers /\ w.next \in Nat /\ Len(w.tail) \in Nat
      /\ w.tail \in Seq(Operation)
  BY ActiveIsOK
<1>2. w.next + 1 \in DOMAIN w.tail /\ e \in Nat
  BY <1>1, LenProperties DEF Epochs
<1>3. Current(e) \in Batch
  BY <1>1, <1>2, RecordsAreTyped DEF Current
<1>4. /\ c \in Call /\ c.producer = w.producer /\ c.epoch = e /\ c.sequence = w.next
      /\ c.batch = w.tail[w.next + 1].batch
  BY <1>1, <1>2, <1>3 DEF CallOf, Call, Current
<1> HIDE DEF c
<1>5. writers'[e] = v
  BY DEF WInv, TypeOK
<1>6. Sent(v, w.next)
  BY <1>1 DEF Sent
<1>7. /\ c.producer = writers'[c.epoch].producer
      /\ Sent(writers'[c.epoch], c.sequence)
      /\ c.batch = writers'[c.epoch].tail[c.sequence + 1].batch
  BY <1>4, <1>5, <1>6
<1>8. \A d \in calls' : d \in calls \/ d = [try |-> try, call |-> c]
  BY DEF c
<1>9. \A d \in calls' : d \in calls \/ d.call = c
  BY <1>8
<1>10. \A d \in calls' : d \in calls \/ SentCall(d.call)'
  BY <1>4, <1>7, <1>9 DEF SentCall
<1>11. calls' \subseteq [try : 1 .. 2, call : Call]
  BY <1>4, <1>8 DEF WInv, TypeOK
<1> QED BY <1>10, <1>11 DEF CallsGoOut

LEMMA RejectOperationKeeps ==
  ASSUME WInv, NEW e \in Epochs, RejectOperation(e)
  PROVE  WInv'
<1> DEFINE w == writers[e]
           t == SubSeq(w.tail, 1, w.next) \o SubSeq(w.tail, w.next + 2, Len(w.tail))
           f == IF w.tail[w.next + 1].flush THEN "rejected" ELSE w.flushing
           v == [w EXCEPT !.flushing = f, !.tail = t]
<1>1. /\ Active(e) /\ w.status = "active" /\ w.try = 0 /\ w.next < Len(w.tail)
      /\ WriterOK(w) /\ w \in Writer
  BY SMTT(40), ActiveIsOK DEF RejectOperation, Ready
<1>2. f \in {"none", "running", "rejected"}
  BY <1>1 DEF Writer
<1>3. Changes(w, v, {})
  <2> HIDE DEF f, w
  <2> QED BY <1>1, <1>2, OperationRejected
<1> HIDE DEF t, f
<1>4. writers' = [writers EXCEPT ![e] = v]
  <2>1. writers' = [writers EXCEPT ![e].tail = t, ![e].flushing = f]
    BY DEF RejectOperation, t, f
  <2>2. writers \in [Epochs -> Writer]
    BY Parts
  <2> QED BY <1>1, <2>1, <2>2 DEF Writer
<1>5. Steady(w, v)
  BY <1>1 DEF Writer, Steady
<1> HIDE DEF v
<1>6. answers' \in [RecordIds -> Answer] /\ UNCHANGED <<stream, log, calls, hosts, lastRecord>>
  BY AnsweredTyped DEF RejectOperation
<1>7. RestTyped' /\ NewRecords({}) /\ CallsGoOut /\ UNCHANGED <<stream, log>>
  BY <1>6, RestAnswered, CallsStay
<1> QED BY <1>1, <1>3, <1>4, <1>5, <1>7, OneMoves

LEMMA StartOperationKeeps ==
  ASSUME WInv, NEW e \in Epochs, StartOperation(e)
  PROVE  WInv'
<1> DEFINE w == writers[e]
           b == (w.memo # None)
           v == [w EXCEPT !.try = 1, !.reply = w.reply, !.reduces = b]
<1>1. /\ Active(e) /\ w.status = "active" /\ w.try = 0 /\ w.next < Len(w.tail)
      /\ WriterOK(w) /\ w \in Writer
  BY ActiveIsOK DEF StartOperation, Ready
<1>2. w.reply \in [is : {"none", "stored", "refused"}, offset : Nat] /\ b \in BOOLEAN
      /\ (b => w.memo # None)
  BY <1>1 DEF Writer
<1>3. writers' = [writers EXCEPT ![e] = v]
  <2>1. writers' = [writers EXCEPT ![e].try = 1, ![e].reduces = b]
    BY DEF StartOperation
  <2>2. writers \in [Epochs -> Writer]
    BY Parts
  <2> QED BY ZenonT(60), <1>1, <2>1, <2>2 DEF Writer
<1> HIDE DEF b
<1>4. Changes(w, v, {})
  <2>1. 1 \in 1 .. 2
    OBVIOUS
  <2> HIDE DEF w
  <2> QED BY <1>1, <1>2, <2>1, OperationMoves
<1>5. Steady(w, v) /\ v.try = 1 /\ v.tail = w.tail /\ v.next = w.next /\ v.producer = w.producer
  BY <1>1 DEF Writer, Steady
<1> HIDE DEF v
<1>6. calls' = calls \cup {[try |-> 1, call |-> CallOf(e)]}
      /\ UNCHANGED <<stream, log, hosts, lastRecord, answers>>
  BY DEF StartOperation
<1>9. 1 \in 1 .. 2 /\ v.try # 0
  BY <1>5
<1>7. CallsGoOut
  BY <1>1, <1>3, <1>5, <1>6, <1>9, CallGoesOut
<1>8. RestTyped' /\ NewRecords({}) /\ UNCHANGED <<stream, log>>
  BY <1>6, RestAnswered, Parts DEF RestTyped
<1> QED BY <1>1, <1>3, <1>4, <1>5, <1>7, <1>8, OneMoves

LEMMA RetryKeeps ==
  ASSUME WInv, NEW e \in Epochs, Retry(e)
  PROVE  WInv'
<1> DEFINE w == writers[e]
           v == [w EXCEPT !.try = 2, !.reply = NoReply, !.reduces = w.reduces]
<1>1. /\ Active(e) /\ w.status = "active" /\ w.try = 1 /\ WriterOK(w) /\ w \in Writer
  BY ActiveIsOK DEF Retry
<1>2. /\ NoReply \in [is : {"none", "stored", "refused"}, offset : Nat]
      /\ w.next < Len(w.tail) /\ w.reduces \in BOOLEAN /\ (w.reduces => w.memo # None)
  BY <1>1 DEF Writer, WriterOK, NoReply
<1>3. writers' = [writers EXCEPT ![e] = v]
  <2>1. writers' = [writers EXCEPT ![e].try = 2, ![e].reply = NoReply]
    BY DEF Retry
  <2>2. writers \in [Epochs -> Writer]
    BY Parts
  <2> QED BY <1>1, <2>1, <2>2 DEF Writer
<1>4. Changes(w, v, {})
  <2>1. 2 \in 1 .. 2
    OBVIOUS
  <2> HIDE DEF w
  <2> QED BY <1>1, <1>2, <2>1, OperationMoves
<1>5. Steady(w, v) /\ v.try = 2 /\ v.tail = w.tail /\ v.next = w.next /\ v.producer = w.producer
  BY <1>1 DEF Writer, Steady, NoReply
<1> HIDE DEF v
<1>6. calls' = calls \cup {[try |-> 2, call |-> CallOf(e)]}
      /\ UNCHANGED <<stream, log, hosts, lastRecord, answers>>
  BY DEF Retry
<1>9. 2 \in 1 .. 2 /\ v.try # 0
  BY <1>5
<1>7. CallsGoOut
  BY <1>1, <1>2, <1>3, <1>5, <1>6, <1>9, CallGoesOut
<1>8. RestTyped' /\ NewRecords({}) /\ UNCHANGED <<stream, log>>
  BY <1>6, RestAnswered, Parts DEF RestTyped
<1> QED BY <1>1, <1>3, <1>4, <1>5, <1>7, <1>8, OneMoves

LEMMA FailKeeps ==
  ASSUME WInv, NEW e \in Epochs, Fail(e)
  PROVE  WInv'
<1> DEFINE w == writers[e]
           v == Ended(w, "failed")
<1>1. Active(e) /\ w.status = "active" /\ WriterOK(w) /\ w \in Writer
  BY ActiveIsOK DEF Fail
<1>2. Changes(w, v, {})
  BY <1>1, EndedOK
<1>3. writers' = [writers EXCEPT ![e] = v]
  BY DEF Fail
<1>4. Steady(w, v)
  BY DEF Steady, Ended, NoWriter, NoReply
<1> HIDE DEF v
<1>5. answers' \in [RecordIds -> Answer] /\ UNCHANGED <<stream, log, calls, hosts, lastRecord>>
  BY AnsweredTyped DEF Fail
<1>6. RestTyped' /\ NewRecords({}) /\ CallsGoOut /\ UNCHANGED <<stream, log>>
  BY <1>5, RestAnswered, CallsStay
<1> QED BY <1>1, <1>2, <1>3, <1>4, <1>6, OneMoves

LEMMA CallSucceedsKeeps ==
  ASSUME WInv, NEW e \in Epochs, CallSucceeds(e)
  PROVE  WInv'
<1> DEFINE w == writers[e]
           v == Succeeded(w)
<1>1. Active(e) /\ w.status = "active" /\ WriterOK(w) /\ w \in Writer /\ w.reply.is = "stored"
      /\ w.producer \in Producers
  BY ActiveIsOK DEF CallSucceeds
<1>2. Changes(w, v, {})
  BY <1>1, SucceededOK
<1>3. writers' = [writers EXCEPT ![e] = v]
  BY DEF CallSucceeds
<1>4. Steady(w, v)
  BY <1>1 DEF Steady, Succeeded, NoReply, Writer
<1>5. answers' \in [RecordIds -> Answer]
  <2>1. w.reply.offset \in Nat
    BY <1>1 DEF Writer
  <2> QED BY <2>1, AnsweredTyped DEF CallSucceeds
<1>6. w.reduces => v.memo \in Fold
  <2> SUFFICES ASSUME w.reduces PROVE v.memo \in Fold
    OBVIOUS
  <2>1. w.memo \in Seq(Nat) /\ w.reply.offset \in Nat
    BY <1>1 DEF Writer, WriterOK, Fold
  <2>2. v.memo = Append(w.memo, w.reply.offset)
    BY <1>1 DEF Succeeded, Writer
  <2> QED BY <2>1, <2>2, AppendProperties DEF Fold
<1>7. hosts' \in [Producers -> Host]
  <2>1. hosts \in [Producers -> Host]
    BY DEF WInv, TypeOK
  <2>2. CASE ~w.reduces
    BY <2>1, <2>2 DEF CallSucceeds
  <2>3. CASE w.reduces
    <3> DEFINE s == Adopted(hosts[w.producer].state, v.memo)
    <3>1. hosts[w.producer] \in Host
      BY <1>1, <2>1
    <3>2. s \in Fold \cup {None}
      BY <1>6, <2>3, <3>1 DEF Adopted, Host
    <3>3. hosts' = [hosts EXCEPT ![w.producer].state = s]
      BY <2>3 DEF CallSucceeds
    <3> HIDE DEF s
    <3>4. [hosts[w.producer] EXCEPT !.state = s] \in Host
      BY <3>1, <3>2 DEF Host
    <3> QED BY <1>1, <2>1, <3>3, <3>4
  <2> QED BY <2>2, <2>3
<1> HIDE DEF v
<1>8. UNCHANGED <<stream, log, calls, lastRecord>>
  BY DEF CallSucceeds
<1>9. RestTyped' /\ NewRecords({}) /\ CallsGoOut
  BY <1>5, <1>7, <1>8, CallsStay, Parts DEF RestTyped, NewRecords
<1>10. UNCHANGED <<stream, log>>
  BY <1>8
<1> QED BY <1>1, <1>2, <1>3, <1>4, <1>9, <1>10, OneMoves

-----------------------------------------------------------------------------
(* A call is executed *)

\* The writer of the call may hear the answer, and nobody else does.
Heard(c, is, offset) ==
  /\ writers' \in [Epochs -> Writer]
  /\ \A e \in Epochs :
       /\ Changes(writers[e], writers'[e], {})
       /\ writers[e] = NoWriter => writers'[e] = NoWriter
       /\ writers'[e].status = writers[e].status
       /\ writers'[e].producer = writers[e].producer
       /\ writers'[e].next = writers[e].next
       /\ \/ writers'[e] = writers[e]
          \/ /\ e = c.call.epoch
             /\ writers[e].next = c.call.sequence
             /\ writers'[e].reply = [is |-> is, offset |-> offset]

LEMMA ReplyHeard ==
  ASSUME WInv, NEW c \in calls, NEW is \in {"stored", "refused"}, NEW offset \in Nat,
         writers' = Replied(c, is, offset)
  PROVE  Heard(c, is, offset)
<1> DEFINE e0 == c.call.epoch
           w == writers[e0]
           r == [is |-> is, offset |-> offset]
           v == [w EXCEPT !.try = w.try, !.reply = r, !.reduces = w.reduces]
<1>1. /\ e0 \in Epochs /\ c.try \in 1 .. 2 /\ writers \in [Epochs -> Writer]
      /\ \A e \in Epochs : WriterOK(writers[e])
  BY Parts DEF WInv, ClaimsOK, SentCall
<1>2. CASE writers' = writers
  BY SMTT(40), <1>1, <1>2, Unchanged DEF Heard
<1>3. CASE /\ Active(e0) /\ w.try = c.try /\ w.next = c.call.sequence
           /\ writers' = [writers EXCEPT ![e0].reply = r]
  <2>1. w \in Writer /\ WriterOK(w) /\ w.status = "active" /\ w.try \in 1 .. 2
        /\ w.next < Len(w.tail)
    BY <1>1, <1>3 DEF Active, WriterOK
  <2>2. r \in [is : {"none", "stored", "refused"}, offset : Nat] /\ w.reduces \in BOOLEAN
        /\ (w.reduces => w.memo # None)
    BY <2>1 DEF Writer, WriterOK
  <2>3. Changes(w, v, {})
    <3> HIDE DEF w, r
    <3> QED BY <2>1, <2>2, OperationMoves
  <2>4. /\ v.status = w.status /\ v.producer = w.producer /\ v.next = w.next /\ v.reply = r
        /\ v = [w EXCEPT !.reply = r]
    BY <2>1 DEF Writer
  <2>5. writers' = [writers EXCEPT ![e0] = v]
    BY <1>3, <2>4
  <2>6. w # NoWriter /\ v \in Writer
    BY <2>1, <2>3 DEF NoWriter, Changes, WriterOK
  <2> HIDE DEF v, r
  <2>7. writers' \in [Epochs -> Writer]
    BY <1>1, <2>5, <2>6
  <2>8. ASSUME NEW e \in Epochs, e # e0 PROVE writers'[e] = writers[e]
    BY <1>1, <2>5, <2>8
  <2>9. writers'[e0] = v
    BY <1>1, <2>5
  <2> QED BY <1>1, <1>3, <2>3, <2>4, <2>6, <2>7, <2>8, <2>9, Unchanged DEF Heard, r
<1> QED BY <1>2, <1>3 DEF Replied

LEMMA HeardKeeps ==
  ASSUME WInv, NEW c \in calls, NEW is, NEW offset, Heard(c, is, offset),
         calls' = calls \ {c}, UNCHANGED <<hosts, lastRecord, answers>>
  PROVE  /\ WritersOK' /\ \A d \in Call : SentCall(d) => SentCall(d)'
         /\ \A d \in calls' : SentCall(d.call)'
         /\ c.call \in Call /\ SentCall(c.call)
<1>1. \A d \in calls : d.call \in Call /\ SentCall(d.call)
  BY Parts DEF WInv, ClaimsOK
<1>2. WritersOK' /\ \A d \in Call : SentCall(d) => SentCall(d)'
  BY WritersStay DEF Heard
<1> QED BY <1>1, <1>2

\* The stream and its log stay as they are.
LEMMA AnsweredKeeps ==
  ASSUME WInv, NEW c \in calls, NEW is, NEW offset, Heard(c, is, offset),
         calls' = calls \ {c}, UNCHANGED <<stream, log, hosts, lastRecord, answers>>,
         is = "stored" => offset \in DOMAIN log /\ log[offset].epoch = c.call.epoch
                          /\ log[offset].sequence = c.call.sequence
  PROVE  WInv'
<1>1. /\ WritersOK' /\ \A d \in Call : SentCall(d) => SentCall(d)'
      /\ \A d \in calls' : SentCall(d.call)'
  BY HeardKeeps
<1>2. TypeOK'
  BY DEF WInv, TypeOK, Heard
<1>3. LogOK'
  <2>1. \A i \in DOMAIN log : SentCall(log[i])'
    BY <1>1, RowsAreCalls DEF WInv, LogOK
  <2>2. log' = log /\ stream' = stream
    OBVIOUS
  <2>3. NextNumber' = NextNumber /\ ClaimsFollowEachOther'
    BY <2>2 DEF WInv, LogOK, NextNumber, ClaimsFollowEachOther
  <2>4. \A i \in DOMAIN log' : SentCall(log[i])'
    BY <2>1, <2>2 DEF SentCall
  <2> QED BY <2>2, <2>3, <2>4 DEF WInv, LogOK
<1>4. ClaimsOK'
  <2>1. \A e \in Epochs : e > stream.epoch => writers'[e] = NoWriter
    BY DEF WInv, ClaimsOK, Heard
  <2>2. stream.epoch \in Epochs /\ writers'[stream.epoch].status # "none" =>
          stream.producer = writers'[stream.epoch].producer
    BY DEF WInv, ClaimsOK, Heard
  <2>3. ASSUME NEW e \in Epochs, writers'[e].reply.is = "stored"
        PROVE  /\ writers'[e].reply.offset \in DOMAIN log
               /\ log[writers'[e].reply.offset].epoch = e
               /\ log[writers'[e].reply.offset].sequence = writers'[e].next
    <3>1. CASE writers'[e] = writers[e]
      BY <2>3, <3>1 DEF WInv, ClaimsOK
    <3>2. CASE /\ e = c.call.epoch
               /\ writers[e].next = c.call.sequence
               /\ writers'[e].reply = [is |-> is, offset |-> offset]
      BY <2>3, <3>2 DEF Heard
    <3> QED BY <3>1, <3>2 DEF Heard
  <2> QED BY <1>1, <2>1, <2>2, <2>3 DEF ClaimsOK
<1> QED BY <1>1, <1>2, <1>3, <1>4 DEF WInv

\* The batch lands.
LEMMA LandedKeeps ==
  ASSUME WInv, NEW c \in calls, NEW accepted, Admits(c.call, accepted), AppendBatch(c.call),
         Heard(c, "stored", Len(log) + 1),
         calls' = calls \ {c}, UNCHANGED <<hosts, lastRecord, answers>>
  PROVE  WInv'
<1> DEFINE call == c.call
           n == Len(log) + 1
<1>1. /\ WritersOK' /\ \A d \in Call : SentCall(d) => SentCall(d)'
      /\ \A d \in calls' : SentCall(d.call)'
      /\ call \in Call /\ SentCall(call)
  BY HeardKeeps
<1>2. /\ log \in Seq(Call) /\ Len(log) \in Nat /\ DOMAIN log = 1 .. Len(log)
      /\ \A i \in DOMAIN log : log[i] \in Call /\ log[i].epoch \in Nat /\ log[i].sequence \in Nat
      /\ stream \in Stream /\ stream.epoch \in Nat /\ stream.nextSequence \in Nat
  BY RowsAreCalls
<1>3. /\ call.epoch = stream.epoch /\ call.producer = stream.producer
      /\ call.sequence = stream.nextSequence /\ StoredAt(call) = {}
  BY DEF Admits, Owns
<1>4. log' = Append(log, call) /\ stream' = [stream EXCEPT !.nextSequence = stream.nextSequence + 1]
  BY DEF AppendBatch
<1> HIDE DEF call
<1>5. /\ log' \in Seq(Call) /\ Len(log') = n /\ DOMAIN log' = 1 .. n /\ n \in Nat /\ log' # <<>>
      /\ \A i \in DOMAIN log : log'[i] = log[i]
      /\ log'[n] = call
  <2>1. /\ log' \in Seq(Call) /\ Len(log') = n
        /\ \A i \in 1 .. Len(log) : log'[i] = log[i]
        /\ log'[n] = call
    BY <1>1, <1>2, <1>4, AppendProperties
  <2> QED BY <1>2, <2>1, LenProperties, EmptySeq
<1>6. /\ stream' \in Stream /\ stream'.epoch = stream.epoch /\ stream'.producer = stream.producer
      /\ stream'.nextSequence = stream.nextSequence + 1
  BY <1>2, <1>4 DEF Stream
<1>7. \A i \in DOMAIN log' : (i \in DOMAIN log /\ i # n) \/ i = n
  BY <1>2, <1>5
<1>8. TypeOK'
  BY <1>5, <1>6 DEF WInv, TypeOK, Heard
<1>9. \A i \in DOMAIN log' : SentCall(log[i])'
  <2>1. \A i \in DOMAIN log : SentCall(log[i])
    BY SMTT(40) DEF WInv, LogOK
  <2>2. ASSUME NEW d \in Call, SentCall(d)
        PROVE  /\ d.epoch \in Epochs /\ d.producer = writers'[d.epoch].producer
               /\ Sent(writers'[d.epoch], d.sequence)
               /\ d.batch = writers'[d.epoch].tail[d.sequence + 1].batch
    BY SMTT(40), <1>1, <2>2 DEF SentCall
  <2>3. \A i \in DOMAIN log' : log'[i] \in Call /\ SentCall(log'[i])
    BY SMTT(40), <1>1, <1>2, <1>5, <1>7, <2>1 DEF SentCall
  <2> QED BY <2>2, <2>3 DEF SentCall
<1>10. ASSUME NEW i \in DOMAIN log, log[i].epoch = call.epoch PROVE log[i].sequence # call.sequence
  <2>1. log[i].producer = call.producer
    BY <1>1, <1>10 DEF WInv, LogOK, SentCall
  <2> QED BY <1>3, <1>10, <2>1 DEF StoredAt, SameKey
<1>11. ClaimsFollowEachOther'
  <2>1. \A i \in DOMAIN log :
          \/ log[i].sequence = 0 /\ (i > 1 => log[i - 1].epoch < log[i].epoch)
          \/ i > 1 /\ log[i].epoch = log[i - 1].epoch /\ log[i].sequence = log[i - 1].sequence + 1
    BY DEF WInv, LogOK, ClaimsFollowEachOther
  <2>2. ASSUME NEW i \in DOMAIN log
        PROVE \/ log'[i].sequence = 0 /\ (i > 1 => log'[i - 1].epoch < log'[i].epoch)
              \/ i > 1 /\ log'[i].epoch = log'[i - 1].epoch /\ log'[i].sequence = log'[i - 1].sequence + 1
    <3>1. log'[i] = log[i] /\ (i > 1 => log'[i - 1] = log[i - 1])
      BY <1>2, <1>5
    <3> QED BY <2>1, <3>1
  <2>3. \/ call.sequence = 0 /\ (n > 1 => log'[n - 1].epoch < call.epoch)
        \/ n > 1 /\ call.epoch = log'[n - 1].epoch /\ call.sequence = log'[n - 1].sequence + 1
    <3>1. call.sequence = NextNumber
      BY <1>3 DEF WInv, LogOK
    <3>2. CASE log = <<>>
      BY <1>2, <3>1, <3>2, EmptySeq DEF NextNumber
    <3>3. CASE log # <<>>
      <4>1. Len(log) \in DOMAIN log /\ n > 1 /\ n - 1 = Len(log)
        BY <1>2, <3>3, EmptySeq
      <4>2. log'[n - 1] = log[Len(log)] /\ log[Len(log)].epoch <= stream.epoch
        BY <1>5, <4>1 DEF WInv, LogOK
      <4> QED BY <1>2, <1>3, <3>1, <3>3, <4>1, <4>2 DEF NextNumber
    <3> QED BY <3>2, <3>3
  <2> QED BY <1>5, <1>7, <2>2, <2>3 DEF ClaimsFollowEachOther
<1>12. LogOK'
  <2>1. stream'.nextSequence = NextNumber'
    BY <1>3, <1>5, <1>6 DEF NextNumber
  <2>2. ASSUME NEW i \in DOMAIN log'
        PROVE  /\ log'[i].epoch <= stream'.epoch
               /\ log'[i].epoch = stream'.epoch => log'[i].sequence < stream'.nextSequence
    <3>1. CASE i = n
      BY <1>2, <1>3, <1>5, <1>6, <3>1
    <3>2. CASE i \in DOMAIN log
      <4>1. /\ log[i].epoch <= stream.epoch
            /\ log[i].epoch = stream.epoch => log[i].sequence < stream.nextSequence
        BY <3>2 DEF WInv, LogOK
      <4> QED BY <1>2, <1>5, <1>6, <3>2, <4>1
    <3> QED BY <1>7, <3>1, <3>2
  <2>3. \A i, j \in DOMAIN log' :
          log'[i].epoch = log'[j].epoch /\ log'[i].sequence = log'[j].sequence => i = j
    <3>1. \A i, j \in DOMAIN log :
            log[i].epoch = log[j].epoch /\ log[i].sequence = log[j].sequence => i = j
      BY DEF WInv, LogOK
    <3> QED BY <1>5, <1>7, <1>10, <3>1
  <2>4. stream'.epoch <= MaxEpochs
    BY <1>6 DEF WInv, LogOK
  <2> QED BY <1>9, <1>11, <2>1, <2>2, <2>3, <2>4 DEF LogOK
<1>13. ClaimsOK'
  <2>1. \A e \in Epochs : e > stream'.epoch => writers'[e] = NoWriter
    BY <1>6 DEF WInv, ClaimsOK, Heard
  <2>2. stream'.epoch \in Epochs /\ writers'[stream'.epoch].status # "none" =>
          stream'.producer = writers'[stream'.epoch].producer
    BY <1>6 DEF WInv, ClaimsOK, Heard
  <2>3. ASSUME NEW e \in Epochs, writers'[e].reply.is = "stored"
        PROVE  /\ writers'[e].reply.offset \in DOMAIN log'
               /\ log'[writers'[e].reply.offset].epoch = e
               /\ log'[writers'[e].reply.offset].sequence = writers'[e].next
    <3>1. CASE writers'[e] = writers[e]
      <4>1. /\ writers[e].reply.offset \in DOMAIN log
            /\ log[writers[e].reply.offset].epoch = e
            /\ log[writers[e].reply.offset].sequence = writers[e].next
        BY <2>3, <3>1 DEF WInv, ClaimsOK
      <4> QED BY SMTT(40), <1>2, <1>5, <3>1, <4>1
    <3>2. CASE /\ e = call.epoch
               /\ writers[e].next = call.sequence
               /\ writers'[e].reply = [is |-> "stored", offset |-> n]
      <4>1. writers'[e].next = writers[e].next
        BY DEF Heard
      <4>2. n \in DOMAIN log'
        BY <1>5, <1>2
      <4> QED BY <1>5, <3>2, <4>1, <4>2
    <3> QED BY <3>1, <3>2 DEF Heard, call
  <2> QED BY <1>1, <2>1, <2>2, <2>3 DEF ClaimsOK
<1> QED BY <1>1, <1>8, <1>12, <1>13 DEF WInv

LEMMA ExecuteKeeps ==
  ASSUME WInv, NEW c \in calls, NEW accepted \in BOOLEAN, Execute(c, accepted)
  PROVE  WInv'
<1>1. calls' = calls \ {c} /\ UNCHANGED <<hosts, lastRecord, answers>>
  BY DEF Execute
<1>2. Len(log) + 1 \in Nat /\ 0 \in Nat /\ DOMAIN log \subseteq Nat
  BY RowsAreCalls
<1>3. CASE /\ Admits(c.call, accepted) /\ AppendBatch(c.call)
           /\ writers' = Replied(c, "stored", Len(log) + 1)
  <2>1. Heard(c, "stored", Len(log) + 1)
    BY <1>2, <1>3, ReplyHeard
  <2> QED BY <1>1, <1>3, <2>1, LandedKeeps
<1>4. ASSUME NEW offset \in DOMAIN log, Repeats(c.call, offset),
             writers' = Replied(c, "stored", offset), UNCHANGED <<stream, log>>
      PROVE  WInv'
  <2>1. Heard(c, "stored", offset)
    BY <1>2, <1>4, ReplyHeard
  <2>2. log[offset].epoch = c.call.epoch /\ log[offset].sequence = c.call.sequence
    BY <1>4 DEF Repeats, StoredAt, SameKey
  <2> QED BY <1>1, <1>4, <2>1, <2>2, AnsweredKeeps
<1>5. CASE writers' = Replied(c, "refused", 0) /\ UNCHANGED <<stream, log>>
  <2>1. Heard(c, "refused", 0)
    BY <1>2, <1>5, ReplyHeard
  <2> QED BY <1>1, <1>5, <2>1, AnsweredKeeps
<1> QED BY <1>3, <1>4, <1>5 DEF Execute

-----------------------------------------------------------------------------
(* A process ends *)

LEMMA CrashKeeps ==
  ASSUME WInv, NEW p \in Producers, Crash(p)
  PROVE  WInv'
<1>1. /\ writers \in [Epochs -> Writer] /\ \A e \in Epochs : WriterOK(writers[e])
  BY Parts
<1>2. /\ hosts' = [hosts EXCEPT ![p] = NoHost] /\ UNCHANGED <<stream, log, calls, lastRecord>>
      /\ answers' \in [RecordIds -> Answer]
  BY AnsweredTyped DEF Crash
<1>3. ASSUME NEW e \in Epochs
      PROVE  Changes(writers[e], writers'[e], {}) /\ Calm(writers[e], writers'[e])
  <2>1. CASE writers'[e] = writers[e]
    BY <1>1, <2>1, Unchanged DEF Calm
  <2>2. CASE Active(e) /\ writers'[e] = Ended(writers[e], "gone")
    <3>1. writers[e].status = "active" /\ writers[e] # NoWriter
      BY <2>2 DEF Active, NoWriter
    <3>2. Changes(writers[e], Ended(writers[e], "gone"), {})
      BY <1>1, <3>1, EndedOK
    <3>3. Ended(writers[e], "gone").producer = writers[e].producer
          /\ Ended(writers[e], "gone").reply.is = "none"
      BY DEF Ended, NoWriter, NoReply
    <3> QED BY <2>2, <3>1, <3>2, <3>3 DEF Calm
  <2> QED BY <2>1, <2>2 DEF Crash
<1>4. writers' \in [Epochs -> Writer]
  <2>1. DOMAIN writers' = Epochs /\ writers' = [e \in Epochs |-> writers'[e]]
    BY DEF Crash
  <2>2. \A e \in Epochs : writers'[e] \in Writer
    BY <1>3 DEF Changes, WriterOK
  <2> QED BY <2>1, <2>2
<1>5. NoHost \in Host
  BY DEF NoHost, Host
<1>6. hosts' \in [Producers -> Host] /\ lastRecord' \in 0 .. MaxRecords /\ lastRecord <= lastRecord'
      /\ calls' \subseteq [try : 1 .. 2, call : Call] /\ UNCHANGED <<stream, log>>
      /\ \A c \in calls' : c \in calls \/ SentCall(c.call)'
  BY <1>2, <1>5, Parts DEF RestTyped
<1>7. RestTyped'
  BY <1>2, <1>6 DEF RestTyped
<1>8. \A e \in Epochs : Changes(writers[e], writers'[e], IF e = 0 THEN {} ELSE {})
  BY <1>3
<1>9. \A e \in Epochs : Calm(writers[e], writers'[e])
  BY <1>3
<1>10. \A r \in {} : r \in lastRecord + 1 .. lastRecord'
  OBVIOUS
<1> QED BY <1>4, <1>6, <1>7, <1>8, <1>9, <1>10, QuietStep

-----------------------------------------------------------------------------
(* The fold hosts *)

LEMMA BeginLoadKeeps ==
  ASSUME WInv, NEW e \in Epochs, BeginLoad(e)
  PROVE  WInv'
<1> DEFINE w == writers[e]
           load == [before |-> w.next, loaded |-> None]
           v == [w EXCEPT !.memo = w.memo, !.load = load]
<1>1. Active(e) /\ WriterOK(w) /\ w \in Writer /\ w.next \in Nat /\ w.memo = None
  BY ActiveIsOK DEF BeginLoad
<1>2. /\ load \in {None} \cup [before : Nat, loaded : Fold \cup {None}]
      /\ w.memo \in Fold \cup {None} /\ (load # None => w.memo = None)
      /\ (w.reduces => w.memo # None)
  BY <1>1 DEF WriterOK
<1>3. Changes(w, v, {})
  <2> HIDE DEF w, load
  <2> QED BY <1>1, <1>2, LoadMoves
<1>4. v = [w EXCEPT !.load = load] /\ v.producer = w.producer /\ v.reply = w.reply /\ v.next = w.next
  BY <1>1 DEF Writer
<1>5. Write(e, v)
  BY <1>4 DEF BeginLoad
<1> HIDE DEF v
<1> QED BY <1>1, <1>3, <1>4, <1>5, WriteKeeps

LEMMA ReturnLoadKeeps ==
  ASSUME WInv, NEW e \in Epochs, ReturnLoad(e)
  PROVE  WInv'
<1> DEFINE w == writers[e]
           again == [before |-> w.next, loaded |-> None]
           u == [w EXCEPT !.memo = w.load.loaded, !.load = None]
           v == [w EXCEPT !.memo = w.memo, !.load = again]
<1>1. Active(e) /\ WriterOK(w) /\ w \in Writer /\ w.next \in Nat /\ w.load # None
      /\ w.load.loaded # None
  BY ActiveIsOK DEF ReturnLoad
<1>2. w.load.loaded \in Fold /\ w.memo \in Fold \cup {None} /\ w.memo = None
      /\ (w.reduces => w.memo # None) /\ again \in [before : Nat, loaded : Fold \cup {None}]
  BY <1>1 DEF WriterOK, Writer
<1>3. Changes(w, u, {})
  <2>1. /\ None \in {None} \cup [before : Nat, loaded : Fold \cup {None}]
        /\ w.load.loaded \in Fold \cup {None} /\ (w.reduces => w.load.loaded # None)
    BY <1>1, <1>2
  <2> DEFINE none == None
             loaded == w.load.loaded
  <2> HIDE DEF w, loaded
  <2>2. (none # None => loaded = None) /\ (w.reduces => loaded # None)
    BY <2>1 DEF loaded
  <2>3. none \in {None} \cup [before : Nat, loaded : Fold \cup {None}] /\ loaded \in Fold \cup {None}
    BY <2>1 DEF loaded
  <2>4. Changes(w, [w EXCEPT !.memo = loaded, !.load = none], {})
    BY <1>1, <2>2, <2>3, LoadMoves
  <2> QED BY <2>4 DEF loaded
<1>4. Changes(w, v, {})
  <2>1. again \in {None} \cup [before : Nat, loaded : Fold \cup {None}]
        /\ (again # None => w.memo = None)
    BY <1>2
  <2> HIDE DEF w, again
  <2> QED BY <1>1, <1>2, <2>1, LoadMoves
<1>5. /\ v = [w EXCEPT !.load = again]
      /\ v.producer = w.producer /\ v.reply = w.reply /\ v.next = w.next
      /\ u.producer = w.producer /\ u.reply = w.reply /\ u.next = w.next
  BY <1>1 DEF Writer
<1>6. Write(e, u) \/ Write(e, v)
  BY <1>5 DEF ReturnLoad
<1> HIDE DEF u, v
<1> QED BY <1>1, <1>3, <1>4, <1>5, <1>6, WriteKeeps

\* A step that only writes the hosts.
LEMMA HostKeeps ==
  ASSUME WInv, hosts' \in [Producers -> Host],
         UNCHANGED <<stream, log, writers, calls, lastRecord, answers>>
  PROVE  WInv'
<1>1. TypeOK'
  BY DEF WInv, TypeOK
<1>2. WritersOK' /\ LogOK' /\ ClaimsOK'
  <2>1. WritersOK'
    BY DEF WInv, WritersOK
  <2>2. \A c : SentCall(c) => SentCall(c)'
    BY DEF SentCall
  <2>3. NextNumber' = NextNumber /\ (ClaimsFollowEachOther => ClaimsFollowEachOther')
    BY DEF NextNumber, ClaimsFollowEachOther
  <2>4. LogOK'
    BY <2>2, <2>3 DEF WInv, LogOK
  <2>5. ClaimsOK'
    BY <2>2 DEF WInv, ClaimsOK
  <2> QED BY <2>1, <2>4, <2>5
<1> QED BY <1>1, <1>2 DEF WInv

\* A step of a host that also answers a writer's load, or rejects it.
LEMMA LoadAnswered ==
  ASSUME WInv, NEW p \in Producers, NEW for \in Epochs, Loading(for, p),
         NEW load \in {None} \cup [before : Nat, loaded : Fold \cup {None}],
         writers' = [writers EXCEPT ![for].load = load], hosts' \in [Producers -> Host],
         UNCHANGED <<stream, log, calls, lastRecord, answers>>
  PROVE  WInv'
<1> DEFINE w == writers[for]
           v == [w EXCEPT !.memo = w.memo, !.load = load]
<1>1. Active(for) /\ WriterOK(w) /\ w \in Writer /\ w.load # None
  BY ActiveIsOK DEF Loading
<1>2. w.memo \in Fold \cup {None} /\ w.memo = None /\ (w.reduces => w.memo # None)
      /\ (load # None => w.memo = None)
  BY <1>1 DEF WriterOK, Writer
<1>3. Changes(w, v, {})
  <2> HIDE DEF w
  <2> QED BY <1>1, <1>2, LoadMoves
<1>4. v = [w EXCEPT !.load = load] /\ v.producer = w.producer /\ v.reply = w.reply /\ v.next = w.next
  BY <1>1 DEF Writer
<1>5. writers' = [writers EXCEPT ![for] = v]
  BY <1>4
<1>6. Steady(w, v)
  BY <1>4 DEF Steady
<1> HIDE DEF v
<1>7. RestTyped' /\ NewRecords({}) /\ CallsGoOut /\ UNCHANGED <<stream, log>>
  BY CallsStay, Parts DEF RestTyped, NewRecords
<1> QED BY <1>1, <1>3, <1>5, <1>6, <1>7, OneMoves

LEMMA StartAdvanceKeeps ==
  ASSUME WInv, NEW p \in Producers, NEW for \in Epochs \cup {None}, StartAdvance(p, for)
  PROVE  WInv'
<1> DEFINE a == [for |-> for, base |-> hosts[p].state, read |-> None]
<1>1. hosts \in [Producers -> Host] /\ hosts[p] \in Host
  BY Parts DEF RestTyped
<1>2. a \in [for : Epochs \cup {None}, base : Fold \cup {None}, read : Fold \cup {None}]
  BY <1>1 DEF Host
<1>3. hosts' = [hosts EXCEPT ![p].advance = a]
      /\ UNCHANGED <<stream, log, writers, calls, lastRecord, answers>>
  BY DEF StartAdvance
<1> HIDE DEF a
<1>4. [hosts[p] EXCEPT !.advance = a] \in Host
  BY <1>1, <1>2 DEF Host
<1>5. hosts' \in [Producers -> Host]
  BY <1>1, <1>3, <1>4
<1> QED BY <1>3, <1>5, HostKeeps

LEMMA HostTyped ==
  ASSUME WInv, NEW p \in Producers, hosts[p].advance # None
  PROVE  /\ hosts \in [Producers -> Host] /\ hosts[p] \in Host
         /\ hosts[p].state \in Fold \cup {None}
         /\ hosts[p].advance \in [for : Epochs \cup {None}, base : Fold \cup {None},
                                  read : Fold \cup {None}]
         /\ BaseOf(hosts[p]) \in Fold
<1>1. hosts \in [Producers -> Host] /\ hosts[p] \in Host
  BY Parts DEF RestTyped
<1>2. <<>> \in Fold
  BY EmptySeq DEF Fold
<1> QED BY <1>1, <1>2 DEF Host, BaseOf

LEMMA ThroughTyped ==
  ASSUME NEW fold \in Fold
  PROVE  Through(fold) \in Nat
BY ElementOfSeq, LenProperties, EmptySeq DEF Fold, Through

LEMMA SuffixTyped ==
  ASSUME WInv, NEW fold \in Fold
  PROVE  Suffix(fold) \in Fold
<1> DEFINE t == Through(fold)
           n == Len(log) - t
<1>1. t \in Nat /\ Len(log) \in Nat
  BY ThroughTyped, RowsAreCalls
<1>2. Suffix(fold) = [i \in 1 .. n |-> t + i]
  BY DEF Suffix
<1> HIDE DEF t
<1>3. CASE n > 0
  <2>1. n \in Nat /\ \A i \in 1 .. n : t + i \in Nat
    BY <1>1, <1>3
  <2> QED BY <1>2, <2>1 DEF Fold
<1>4. CASE ~(n > 0)
  <2>1. 1 .. n = {} /\ 1 .. n = 1 .. 0
    BY <1>1, <1>4
  <2>2. Suffix(fold) = [i \in 1 .. 0 |-> t + i]
    BY <1>2, <2>1
  <2>3. [i \in 1 .. 0 |-> t + i] \in Seq(Nat)
    BY <1>1
  <2> QED BY <2>2, <2>3 DEF Fold
<1> QED BY <1>3, <1>4

LEMMA ReadAdvanceKeeps ==
  ASSUME WInv, NEW p \in Producers, ReadAdvance(p)
  PROVE  WInv'
<1> DEFINE h == hosts[p]
           for == h.advance.for
           read == BaseOf(h) \o Suffix(BaseOf(h))
<1>1. h.advance # None /\ UNCHANGED <<stream, log, calls, lastRecord, answers>>
  BY DEF ReadAdvance
<1>2. /\ hosts \in [Producers -> Host] /\ h \in Host
      /\ h.advance \in [for : Epochs \cup {None}, base : Fold \cup {None}, read : Fold \cup {None}]
      /\ BaseOf(h) \in Fold
  BY <1>1, HostTyped
<1>3. read \in Fold
  BY <1>2, SuffixTyped, ConcatProperties DEF Fold
<1>4. CASE hosts' = [hosts EXCEPT ![p].advance.read = read] /\ UNCHANGED writers
  <2> HIDE DEF read
  <2>1. [h.advance EXCEPT !.read = read] \in
          [for : Epochs \cup {None}, base : Fold \cup {None}, read : Fold \cup {None}]
    BY <1>2, <1>3
  <2>2. [h EXCEPT !.advance = [h.advance EXCEPT !.read = read]] \in Host
    BY <1>2, <2>1 DEF Host
  <2>3. hosts' = [hosts EXCEPT ![p] = [h EXCEPT !.advance = [h.advance EXCEPT !.read = read]]]
    BY <1>2, <1>4
  <2>4. hosts' \in [Producers -> Host]
    BY <1>2, <2>2, <2>3
  <2> QED BY <1>1, <1>4, <2>4, HostKeeps
<1>5. CASE /\ hosts' = [hosts EXCEPT ![p].advance = None]
           /\ writers' = IF for # None /\ Loading(for, p)
                           THEN [writers EXCEPT ![for].load = None] ELSE writers
  <2>1. [h EXCEPT !.advance = None] \in Host
    BY <1>2 DEF Host
  <2>2. hosts' \in [Producers -> Host]
    BY <1>2, <1>5, <2>1
  <2>3. CASE for # None /\ Loading(for, p)
    <3>1. for \in Epochs /\ None \in {None} \cup [before : Nat, loaded : Fold \cup {None}]
      BY <1>2, <2>3
    <3>2. writers' = [writers EXCEPT ![for].load = None]
      BY <1>5, <2>3
    <3> HIDE DEF for, h
    <3> QED BY <1>1, <2>2, <2>3, <3>1, <3>2, LoadAnswered
  <2>4. CASE ~(for # None /\ Loading(for, p))
    BY <1>1, <1>5, <2>2, <2>4, HostKeeps
  <2> QED BY <2>3, <2>4
<1> QED BY <1>4, <1>5 DEF ReadAdvance

LEMMA FinishAdvanceKeeps ==
  ASSUME WInv, NEW p \in Producers, FinishAdvance(p)
  PROVE  WInv'
<1> DEFINE h == hosts[p]
           for == h.advance.for
           s == Advanced(h)
<1>1. /\ h.advance # None /\ h.advance.read # None
      /\ UNCHANGED <<stream, log, calls, lastRecord, answers>>
      /\ hosts' = [hosts EXCEPT ![p] = [state |-> s, advance |-> None]]
      /\ writers' = IF for # None /\ Loading(for, p)
                      THEN [writers EXCEPT ![for].load.loaded = s] ELSE writers
  BY DEF FinishAdvance
<1>2. /\ hosts \in [Producers -> Host] /\ h \in Host /\ h.state \in Fold \cup {None}
      /\ h.advance \in [for : Epochs \cup {None}, base : Fold \cup {None}, read : Fold \cup {None}]
  BY <1>1, HostTyped
<1>3. s \in Fold \cup {None}
  BY <1>2 DEF Advanced
<1> HIDE DEF s
<1>4. [state |-> s, advance |-> None] \in Host
  BY <1>3 DEF Host
<1>5. hosts' \in [Producers -> Host]
  BY <1>1, <1>2, <1>4
<1>6. CASE for # None /\ Loading(for, p)
  <2> DEFINE load == [writers[for].load EXCEPT !.loaded = s]
  <2>1. for \in Epochs
    BY <1>2, <1>6
  <2>2. writers[for] \in Writer /\ writers[for].load # None
    BY <1>6, <2>1, Parts DEF Loading
  <2>3. load \in {None} \cup [before : Nat, loaded : Fold \cup {None}]
    BY <1>3, <2>2 DEF Writer
  <2>4. writers' = [writers EXCEPT ![for].load = load]
    <3>1. writers' = [writers EXCEPT ![for].load.loaded = s]
      BY <1>1, <1>6
    <3> QED BY <2>1, <2>2, <3>1 DEF Writer
  <2> HIDE DEF for, h, load
  <2> QED BY <1>1, <1>5, <1>6, <2>1, <2>3, <2>4, LoadAnswered
<1>7. CASE ~(for # None /\ Loading(for, p))
  BY <1>1, <1>5, <1>7, HostKeeps
<1> QED BY <1>6, <1>7

-----------------------------------------------------------------------------
(* The invariant *)

LEMMA InitWInv == Init => WInv
<1> SUFFICES ASSUME Init PROVE WInv
  OBVIOUS
<1>1. /\ stream = [created |-> FALSE, producer |-> None, epoch |-> 0, nextSequence |-> 0]
      /\ log = <<>> /\ calls = {} /\ lastRecord = 0
      /\ writers = [e \in Epochs |-> NoWriter]
      /\ hosts = [p \in Producers |-> NoHost]
      /\ answers = [r \in RecordIds |-> [is |-> "none", offset |-> 0]]
      /\ MaxEpochs \in Nat /\ MaxRecords \in Nat
  BY WriterAssumption DEF Init, StreamInit
<1>2. DOMAIN log = {}
  BY <1>1
<1>3. TypeOK
  <2>1. stream \in Stream
    BY <1>1 DEF Stream
  <2>2. log \in Seq(Call)
    BY <1>1, EmptySeq
  <2>3. writers \in [Epochs -> Writer]
    BY <1>1, NoWriterTyped
  <2>4. hosts \in [Producers -> Host]
    BY <1>1 DEF NoHost, Host
  <2>5. answers \in [RecordIds -> Answer] /\ lastRecord \in 0 .. MaxRecords
    BY <1>1 DEF Answer
  <2> QED BY <1>1, <2>1, <2>2, <2>3, <2>4, <2>5 DEF TypeOK
<1>4. \A e \in Epochs : writers[e] = NoWriter
  BY <1>1
<1>5. WritersOK
  BY <1>4, NoWriterOK DEF WritersOK
<1>6. LogOK
  BY <1>1, <1>2 DEF LogOK, NextNumber, ClaimsFollowEachOther
<1>7. ClaimsOK
  BY <1>1, <1>4 DEF ClaimsOK, Epochs, NoWriter, NoReply
<1> QED BY <1>3, <1>5, <1>6, <1>7 DEF WInv

LEMMA NextWInv == WInv /\ [Next]_vars => WInv'
<1> SUFFICES ASSUME WInv, [Next]_vars PROVE WInv'
  OBVIOUS
<1>1. CASE Create
  BY <1>1, CreateKeeps
<1>2. CASE \E p \in Producers : Open(p) \/ Crash(p)
  BY <1>2, OpenKeeps, CrashKeeps
<1>3. CASE HandStep
  BY <1>3, AppendRecordKeeps, EnqueueKeeps, FlushKeeps DEF HandStep
<1>4. CASE \E e \in Epochs : FlushStep(e) \/ OperationStep(e) \/ ReturnStep(e)
  BY <1>4, FlushKeeps, RejectOperationKeeps, StartOperationKeeps, CallSucceedsKeeps, RetryKeeps,
     FailKeeps DEF OperationStep, ReturnStep
<1>5. CASE \E c \in calls, accepted \in BOOLEAN : Execute(c, accepted)
  BY <1>5, ExecuteKeeps
<1>6. CASE FoldStep
  BY <1>6, BeginLoadKeeps, ReturnLoadKeeps, StartAdvanceKeeps, ReadAdvanceKeeps,
     FinishAdvanceKeeps DEF FoldStep
<1>7. CASE UNCHANGED vars
  <2>1. UNCHANGED <<stream, log, writers, calls, lastRecord, answers>> /\ hosts' = hosts
    BY <1>7 DEF vars
  <2> QED BY <2>1, HostKeeps DEF WInv, TypeOK
<1> QED BY <1>1, <1>2, <1>3, <1>4, <1>5, <1>6, <1>7 DEF Next

LEMMA SpecWInv == Spec => []WInv
BY InitWInv, NextWInv, PTL DEF Spec

-----------------------------------------------------------------------------
(* What follows from it *)

\* Every variable has its type.
THEOREM TypeIsOK == Spec => []TypeOK
<1>1. WInv => TypeOK
  BY DEF WInv
<1> QED BY <1>1, SpecWInv, PTL

LEMMA LandOnce == WInv => RecordsLandOnce
<1> SUFFICES ASSUME WInv, NEW i \in DOMAIN log, NEW j \in DOMAIN log,
                    NEW m \in DOMAIN log[i].batch.records, NEW n \in DOMAIN log[j].batch.records,
                    log[i].batch.records[m].id = log[j].batch.records[n].id
             PROVE  i = j /\ m = n
  BY DEF RecordsLandOnce
<1> DEFINE e == log[i].epoch
           f == log[j].epoch
           k == log[i].sequence + 1
           l == log[j].sequence + 1
           r == log[i].batch.records[m].id
<1>1. /\ e \in Epochs /\ Sent(writers[e], log[i].sequence)
      /\ log[i].batch = writers[e].tail[k].batch
      /\ f \in Epochs /\ Sent(writers[f], log[j].sequence)
      /\ log[j].batch = writers[f].tail[l].batch
  BY DEF WInv, LogOK, SentCall
<1>2. log[i].sequence \in Nat /\ log[j].sequence \in Nat
  BY SMTT(40), RowsAreCalls
<1>3. /\ writers[e].tail \in Seq(Operation) /\ writers[f].tail \in Seq(Operation)
      /\ WriterOK(writers[e]) /\ WriterOK(writers[f])
  BY ZenonT(60), <1>1, Parts DEF WriterOK, Writer
<1>4. k \in DOMAIN writers[e].tail /\ l \in DOMAIN writers[f].tail
  BY SMTT(40), <1>1, <1>2, <1>3, LenProperties DEF Sent
<1> HIDE DEF e, f, k, l
<1>5. /\ m \in DOMAIN writers[e].tail[k].batch.records
      /\ n \in DOMAIN writers[f].tail[l].batch.records
      /\ writers[e].tail[k].batch.records[m].id = r
      /\ writers[f].tail[l].batch.records[n].id = r
  BY <1>1
<1>6. Holds(writers[e], r) /\ Holds(writers[f], r)
  BY ZenonT(60), <1>4, <1>5 DEF Holds
<1>7. e = f
  BY <1>1, <1>6 DEF WInv, WritersOK
<1>8. k = l /\ m = n
  <2> DEFINE t == writers[e].tail
  <2>1. \A a, b \in DOMAIN t :
          \A c \in DOMAIN t[a].batch.records, d \in DOMAIN t[b].batch.records :
            t[a].batch.records[c].id = t[b].batch.records[d].id => a = b /\ c = d
    BY <1>3 DEF WriterOK, IdsAreDistinct
  <2>2. /\ k \in DOMAIN t /\ l \in DOMAIN t
        /\ m \in DOMAIN t[k].batch.records /\ n \in DOMAIN t[l].batch.records
        /\ t[k].batch.records[m].id = t[l].batch.records[n].id
    BY <1>4, <1>5, <1>7
  <2> HIDE DEF t
  <2> QED BY SMTT(40), <2>1, <2>2
<1>9. i = j
  BY <1>2, <1>7, <1>8 DEF WInv, LogOK, e, f, k, l
<1> QED BY <1>8, <1>9

\* A record lands once, whatever was repeated, lost or executed late
\* (ConversationRecordWriter.appendBatch and the append of the store).
THEOREM RecordsAreStoredOnce == Spec => []RecordsLandOnce
BY LandOnce, SpecWInv, PTL

\* The log tells its claims apart: their batches are numbered from zero without
\* a gap, and none of an earlier claim follows one of a later (the fence of
\* acquireProducer and append).
THEOREM ClaimsFollow == Spec => []ClaimsFollowEachOther
<1>1. WInv => ClaimsFollowEachOther
  BY DEF WInv, LogOK
<1> QED BY <1>1, SpecWInv, PTL

\* What was handed to a writer lands in the order of its tail, at most one batch
\* ahead of what the writer knows.
THEOREM TailsLandInOrder == Spec => []TailLandsInOrder
<1>1. WInv => TailLandsInOrder
  <2> SUFFICES ASSUME WInv, NEW e \in Epochs, NEW i \in DOMAIN log, log[i].epoch = e
               PROVE  /\ log[i].sequence <= writers[e].next
                      /\ log[i].sequence < Len(writers[e].tail)
                      /\ log[i].batch = writers[e].tail[log[i].sequence + 1].batch
    BY DEF TailLandsInOrder, Landed
  <2>1. SentCall(log[i]) /\ log[i].sequence \in Nat /\ writers[e].next \in Nat
    BY Parts, RowsAreCalls DEF WInv, LogOK, WriterOK, Writer
  <2> QED BY <2>1 DEF SentCall, Sent
<1> QED BY <1>1, SpecWInv, PTL

\* A batch is written under the attempt that made every record of it
\* (ConversationRecordWriter.enqueue): to authorize the one is to authorize all.
THEOREM OwnersOfBatches == Spec => []BatchesHaveOneOwner
<1>1. WInv => BatchesHaveOneOwner
  <2> SUFFICES ASSUME WInv, NEW i \in DOMAIN log, NEW m \in DOMAIN log[i].batch.records
               PROVE  log[i].batch.records[m].owner = log[i].batch.owner
    BY DEF BatchesHaveOneOwner
  <2> DEFINE w == writers[log[i].epoch]
             k == log[i].sequence + 1
  <2>1. /\ log[i].epoch \in Epochs /\ Sent(w, log[i].sequence) /\ log[i].batch = w.tail[k].batch
    BY DEF WInv, LogOK, SentCall
  <2>2. log[i].sequence \in Nat /\ WriterOK(w) /\ w.tail \in Seq(Operation)
    BY <2>1, RowsAreCalls, Parts DEF WriterOK, Writer
  <2>3. k \in DOMAIN w.tail
    BY <2>1, <2>2, LenProperties DEF Sent
  <2> HIDE DEF w, k
  <2> QED BY <2>1, <2>2, <2>3 DEF WriterOK, OwnersAgree
<1> QED BY <1>1, SpecWInv, PTL

-----------------------------------------------------------------------------
(* Folds *)

\* The fold applies offsets of the first n, each once and in order.
Climbs(fold, n) ==
  fold # None =>
    \A i \in DOMAIN fold : fold[i] \in 1 .. n /\ (i > 1 => fold[i - 1] < fold[i])

FoldsOf(w, n) == Climbs(w.memo, n) /\ (w.load # None => Climbs(w.load.loaded, n))

\* The writer's state lags behind the batch that it has reduced and waits to
\* hear of, wherever that has landed.
LagsBehind(w, e, rows) ==
  w.reduces =>
    \A i \in DOMAIN rows : rows[i].epoch = e /\ rows[i].sequence = w.next => Through(w.memo) < i

\* What the writer has or is about to have of a state, its host has shown it.
Shown(w, hs) ==
  w.status = "active" /\ (w.memo # None \/ (w.load # None /\ w.load.loaded # None))
    => hs[w.producer].state # None

\* A host that began without a state gets none before it is done.
HostFolds(h, n) ==
  /\ Climbs(h.state, n)
  /\ h.advance # None =>
       /\ Climbs(h.advance.base, n) /\ Climbs(h.advance.read, n)
       /\ h.advance.base = None => h.state = None

FInv ==
  /\ \A e \in Epochs :
       FoldsOf(writers[e], Len(log)) /\ LagsBehind(writers[e], e, log) /\ Shown(writers[e], hosts)
  /\ \A p \in Producers : HostFolds(hosts[p], Len(log))

SameFolds(w, v) ==
  /\ v.memo = w.memo /\ v.load = w.load /\ v.next = w.next
  /\ v.status = w.status /\ v.producer = w.producer
NoFolds(v) == v.memo = None /\ v.load = None

LEMMA FoldsStay ==
  ASSUME FInv, UNCHANGED <<log, hosts>>,
         \A e \in Epochs :
           /\ SameFolds(writers[e], writers'[e]) \/ NoFolds(writers'[e])
           /\ writers'[e].reduces => writers'[e] = writers[e]
                                     \/ (SameFolds(writers[e], writers'[e]) /\ writers[e].reduces)
  PROVE  FInv'
<1> SUFFICES ASSUME NEW e \in Epochs
             PROVE  /\ FoldsOf(writers'[e], Len(log)) /\ LagsBehind(writers'[e], e, log)
                    /\ Shown(writers'[e], hosts)
  BY DEF FInv
<1>1. FoldsOf(writers[e], Len(log)) /\ LagsBehind(writers[e], e, log) /\ Shown(writers[e], hosts)
  BY DEF FInv
<1>2. FoldsOf(writers'[e], Len(log)) /\ Shown(writers'[e], hosts)
  BY <1>1 DEF FoldsOf, Shown, SameFolds, NoFolds, Climbs
<1>3. LagsBehind(writers'[e], e, log)
  BY <1>1 DEF LagsBehind, SameFolds
<1> QED BY <1>2, <1>3

\* A step of one writer that is no business of its folds.
LEMMA FoldsOfOneStay ==
  ASSUME WInv, FInv, UNCHANGED <<log, hosts>>, NEW e \in Epochs, NEW v,
         writers' = [writers EXCEPT ![e] = v],
         SameFolds(writers[e], v) \/ NoFolds(v), v.reduces => SameFolds(writers[e], v) /\ writers[e].reduces
  PROVE  FInv'
<1>1. writers \in [Epochs -> Writer]
  BY Parts
<1>2. writers'[e] = v /\ \A f \in Epochs : f # e => writers'[f] = writers[f]
  BY <1>1
<1>3. \A f \in Epochs :
        /\ SameFolds(writers[f], writers'[f]) \/ NoFolds(writers'[f])
        /\ writers'[f].reduces => writers'[f] = writers[f]
                                  \/ (SameFolds(writers[f], writers'[f]) /\ writers[f].reduces)
  BY <1>2 DEF SameFolds
<1> QED BY <1>3, FoldsStay

LEMMA HandFolds ==
  ASSUME WInv, FInv, NEW e \in Epochs, NEW owner \in Attempts \cup {None},
         AppendRecord(e, owner) \/ Enqueue(e, owner)
  PROVE  FInv'
<1> DEFINE w == writers[e]
<1>1. w \in Writer
  BY Parts
<1>2. ASSUME NEW v, Hand(e, v), SameFolds(w, v), v.reduces = w.reduces PROVE FInv'
  <2>1. writers' = [writers EXCEPT ![e] = v] /\ UNCHANGED <<log, hosts>>
    BY <1>2 DEF Hand
  <2> QED BY <1>2, <2>1, FoldsOfOneStay
<1>3. CASE AppendRecord(e, owner)
  <2> DEFINE t == Append(w.tail, [batch |-> BatchOf(<<[id |-> lastRecord + 1, owner |-> owner]>>),
                                  flush |-> FALSE])
             v == [w EXCEPT !.tail = t]
  <2>1. Hand(e, v)
    BY <1>3 DEF AppendRecord
  <2> HIDE DEF t
  <2>2. SameFolds(w, v) /\ v.reduces = w.reduces
    BY <1>1 DEF SameFolds, Writer
  <2> HIDE DEF v
  <2> QED BY <1>2, <2>1, <2>2
<1>4. CASE Enqueue(e, owner)
  <2> DEFINE t == Append(w.pending, [id |-> lastRecord + 1, owner |-> owner])
             u == [w EXCEPT !.pending = t]
  <2>1. PICK v \in Woken(u) : Hand(e, v)
    BY <1>4 DEF Enqueue
  <2> HIDE DEF t
  <2>2. v = u \/ v = [u EXCEPT !.woken = TRUE] \/ v = [u EXCEPT !.timer = "armed"]
    BY <2>1 DEF Woken
  <2>3. SameFolds(w, v) /\ v.reduces = w.reduces
    BY ZenonT(60), <1>1, <2>2 DEF SameFolds, Writer
  <2> HIDE DEF u
  <2> QED BY <1>2, <2>1, <2>3
<1> QED BY <1>3, <1>4

LEMMA FlushFolds ==
  ASSUME WInv, FInv, NEW e \in Epochs, FlushNow(e) \/ FlushStep(e)
  PROVE  FInv'
<1> DEFINE w == writers[e]
<1>1. w \in Writer
  BY Parts
<1>2. ASSUME NEW v, Write(e, v), SameFolds(w, v), v.reduces = w.reduces PROVE FInv'
  <2>1. writers' = [writers EXCEPT ![e] = v] /\ UNCHANGED <<log, hosts>>
    BY <1>2 DEF Write
  <2> QED BY <1>2, <2>1, FoldsOfOneStay
<1>3. \A u \in Writer : SameFolds(u, Flushed(u)) /\ Flushed(u).reduces = u.reduces
  <2> TAKE u \in Writer
  <2>1. u.flushing \in {"none", "running", "rejected"}
    BY DEF Writer
  <2> QED BY <2>1 DEF Flushed, SameFolds, Writer
<1>4. ASSUME NEW u \in Writer, SameFolds(w, u), u.reduces = w.reduces,
             Write(e, Flushed(u)) \/ Write(e, u)
      PROVE  FInv'
  <2>1. SameFolds(w, Flushed(u)) /\ Flushed(u).reduces = w.reduces
    BY <1>3, <1>4 DEF SameFolds
  <2> HIDE DEF w
  <2> QED BY <1>2, <1>4, <2>1
<1>5. CASE FlushNow(e)
  BY <1>1, <1>4, <1>5 DEF FlushNow, SameFolds
<1>6. CASE TimerFires(e)
  <2> DEFINE u == [w EXCEPT !.timer = "fired"]
  <2>1. Write(e, Flushed(u))
    BY <1>6 DEF TimerFires
  <2>2. u \in Writer /\ SameFolds(w, u) /\ u.reduces = w.reduces
    BY <1>1 DEF SameFolds, Writer
  <2> HIDE DEF u
  <2> QED BY <1>4, <2>1, <2>2
<1>7. CASE MicrotaskFlushes(e)
  <2> DEFINE u == [w EXCEPT !.woken = FALSE]
  <2>1. Write(e, Flushed(u))
    BY <1>7 DEF MicrotaskFlushes
  <2>2. u \in Writer /\ SameFolds(w, u) /\ u.reduces = w.reduces
    BY <1>1 DEF SameFolds, Writer
  <2> HIDE DEF u
  <2> QED BY <1>4, <2>1, <2>2
<1>8. CASE ChainedFlush(e)
  <2> DEFINE u == [w EXCEPT !.chained = FALSE]
  <2>1. Write(e, Flushed(u)) \/ Write(e, u)
    BY <1>8 DEF ChainedFlush
  <2>2. u \in Writer /\ SameFolds(w, u) /\ u.reduces = w.reduces
    BY <1>1 DEF SameFolds, Writer
  <2> HIDE DEF u
  <2> QED BY <1>4, <2>1, <2>2
<1> QED BY <1>5, <1>6, <1>7, <1>8 DEF FlushStep

LEMMA OperationFolds ==
  ASSUME WInv, FInv, NEW e \in Epochs, RejectOperation(e) \/ Retry(e) \/ Fail(e)
  PROVE  FInv'
<1> DEFINE w == writers[e]
<1>1. w \in Writer /\ writers \in [Epochs -> Writer]
  BY Parts
<1>2. UNCHANGED <<log, hosts>>
  BY DEF RejectOperation, Retry, Fail
<1>3. CASE RejectOperation(e)
  <2> DEFINE t == SubSeq(w.tail, 1, w.next) \o SubSeq(w.tail, w.next + 2, Len(w.tail))
             f == IF w.tail[w.next + 1].flush THEN "rejected" ELSE w.flushing
             v == [w EXCEPT !.flushing = f, !.tail = t]
  <2>1. writers' = [writers EXCEPT ![e].tail = t, ![e].flushing = f]
    BY <1>3 DEF RejectOperation
  <2> HIDE DEF t, f
  <2>2. writers' = [writers EXCEPT ![e] = v]
    BY <1>1, <2>1 DEF Writer
  <2>3. SameFolds(w, v) /\ v.reduces = w.reduces
    BY <1>1 DEF SameFolds, Writer
  <2> HIDE DEF v
  <2> QED BY <1>2, <2>2, <2>3, FoldsOfOneStay
<1>4. CASE Retry(e)
  <2> DEFINE v == [w EXCEPT !.try = 2, !.reply = NoReply]
  <2>1. writers' = [writers EXCEPT ![e] = v]
    BY <1>1, <1>4 DEF Retry, Writer
  <2>2. SameFolds(w, v) /\ v.reduces = w.reduces
    BY <1>1 DEF SameFolds, Writer
  <2> HIDE DEF v
  <2> QED BY <1>2, <2>1, <2>2, FoldsOfOneStay
<1>5. CASE Fail(e)
  <2> DEFINE v == Ended(w, "failed")
  <2>1. writers' = [writers EXCEPT ![e] = v]
    BY <1>5 DEF Fail
  <2>2. NoFolds(v) /\ v.reduces = FALSE
    BY DEF NoFolds, Ended, NoWriter
  <2> HIDE DEF v
  <2> QED BY <1>2, <2>1, <2>2, FoldsOfOneStay
<1> QED BY <1>3, <1>4, <1>5

LEMMA OpenFolds ==
  ASSUME WInv, FInv, NEW p \in Producers, Open(p)
  PROVE  FInv'
<1> DEFINE v == [NoWriter EXCEPT !.status = "active", !.producer = p]
<1>1. UNCHANGED <<log, hosts>> /\ writers \in [Epochs -> Writer]
  BY Parts DEF Open, AcquireProducer
<1>2. writers' = [writers EXCEPT ![stream'.epoch] = v] \/ writers' = writers
  BY DEF Open
<1>3. NoFolds(v) /\ v.reduces = FALSE
  BY DEF NoFolds, NoWriter
<1> HIDE DEF v
<1>4. \A e \in Epochs : writers'[e] = writers[e] \/ writers'[e] = v
  BY <1>1, <1>2
<1>5. \A e \in Epochs :
        /\ SameFolds(writers[e], writers'[e]) \/ NoFolds(writers'[e])
        /\ writers'[e].reduces => writers'[e] = writers[e]
                                  \/ (SameFolds(writers[e], writers'[e]) /\ writers[e].reduces)
  BY <1>3, <1>4 DEF SameFolds
<1> QED BY <1>1, <1>5, FoldsStay

\* The operation reduces its batch before any copy of it lands.
LEMMA StartOperationFolds ==
  ASSUME WInv, FInv, NEW e \in Epochs, StartOperation(e)
  PROVE  FInv'
<1> DEFINE w == writers[e]
           b == (w.memo # None)
           v == [w EXCEPT !.try = 1, !.reduces = b]
<1>1. w \in Writer /\ writers \in [Epochs -> Writer] /\ w.status = "active" /\ w.try = 0
      /\ w.next \in Nat
  BY ActiveIsOK, Parts DEF StartOperation, Ready
<1>2. UNCHANGED <<log, hosts>> /\ writers' = [writers EXCEPT ![e].try = 1, ![e].reduces = b]
  BY DEF StartOperation
<1> HIDE DEF b
<1>3. writers' = [writers EXCEPT ![e] = v]
  BY <1>1, <1>2 DEF Writer
<1>4. SameFolds(w, v)
  BY <1>1 DEF SameFolds, Writer
<1> HIDE DEF v
<1>5. \A i \in DOMAIN log : log[i].epoch = e => log[i].sequence # w.next
  <2> SUFFICES ASSUME NEW i \in DOMAIN log, log[i].epoch = e, log[i].sequence = w.next PROVE FALSE
    OBVIOUS
  <2>1. Sent(w, w.next)
    BY DEF WInv, LogOK, SentCall
  <2> QED BY <1>1, <2>1 DEF Sent
<1>6. \A f \in Epochs : writers'[f] = IF f = e THEN v ELSE writers[f]
  BY <1>1, <1>3
<1> SUFFICES ASSUME NEW f \in Epochs
             PROVE  /\ FoldsOf(writers'[f], Len(log)) /\ LagsBehind(writers'[f], f, log)
                    /\ Shown(writers'[f], hosts)
  BY <1>2 DEF FInv
<1>7. FoldsOf(writers[f], Len(log)) /\ LagsBehind(writers[f], f, log) /\ Shown(writers[f], hosts)
  BY DEF FInv
<1>8. CASE f # e
  BY <1>6, <1>7, <1>8
<1>9. CASE f = e
  <2>1. writers'[f] = v
    BY <1>6, <1>9
  <2>2. LagsBehind(v, e, log)
    BY <1>4, <1>5 DEF LagsBehind, SameFolds
  <2>3. FoldsOf(v, Len(log)) /\ Shown(v, hosts)
    BY <1>4, <1>7, <1>9 DEF FoldsOf, Shown, SameFolds
  <2> QED BY <1>9, <2>1, <2>2, <2>3
<1> QED BY <1>8, <1>9

LEMMA ThroughClimbed ==
  ASSUME NEW fold \in Fold, NEW n \in Nat, Climbs(fold, n)
  PROVE  Through(fold) \in 0 .. n
<1>1. Len(fold) \in Nat /\ DOMAIN fold = 1 .. Len(fold)
  BY LenProperties DEF Fold
<1>2. fold # None
  BY WriterAssumption DEF Fold
<1>3. fold # <<>> => Len(fold) \in DOMAIN fold
  BY <1>1, EmptySeq
<1> QED BY <1>2, <1>3 DEF Climbs, Through

\* A longer log takes nothing from a fold.
LEMMA ClimbsOn ==
  ASSUME NEW fold, NEW n \in Nat, NEW m \in Nat, n <= m, Climbs(fold, n)
  PROVE  Climbs(fold, m)
BY DEF Climbs

\* A fold takes in a later offset.
LEMMA OneMore ==
  ASSUME NEW fold \in Fold, NEW n \in Nat, Climbs(fold, n), NEW offset \in 1 .. n,
         Through(fold) < offset
  PROVE  /\ Append(fold, offset) \in Fold /\ Climbs(Append(fold, offset), n)
         /\ Through(Append(fold, offset)) = offset
<1> DEFINE g == Append(fold, offset)
           L == Len(fold)
<1>1. /\ g \in Seq(Nat) /\ Len(g) = L + 1 /\ L \in Nat /\ DOMAIN g = 1 .. (L + 1)
      /\ DOMAIN fold = 1 .. L
      /\ \A i \in 1 .. L : g[i] = fold[i]
      /\ g[L + 1] = offset
  BY AppendProperties, LenProperties DEF Fold
<1>2. fold # None
  BY WriterAssumption DEF Fold
<1>3. L > 0 => fold[L] = Through(fold)
  BY <1>1, EmptySeq DEF Through
<1> HIDE DEF g, L
<1>4. \A i \in 1 .. L : fold[i] \in 1 .. n /\ (i > 1 => fold[i - 1] < fold[i])
  BY <1>1, <1>2 DEF Climbs
<1>5. ASSUME NEW i \in DOMAIN g PROVE g[i] \in 1 .. n /\ (i > 1 => g[i - 1] < g[i])
  <2>1. CASE i = L + 1
    <3>1. i > 1 => i - 1 = L /\ L \in 1 .. L
      BY <1>1, <2>1
    <3> QED BY <1>1, <1>3, <2>1, <3>1
  <2>2. CASE i \in 1 .. L
    <3>1. i > 1 => i - 1 \in 1 .. L
      BY <1>1, <2>2
    <3> QED BY <1>1, <1>4, <2>2, <3>1
  <2> QED BY <1>1, <2>1, <2>2
<1>6. g # <<>>
  BY <1>1, EmptySeq
<1> QED BY <1>1, <1>5, <1>6 DEF Climbs, Through, Fold, g

\* The rest of the log behind a fold.
LEMMA SuffixClimbs ==
  ASSUME WInv, NEW fold \in Fold, Climbs(fold, Len(log))
  PROVE  Climbs(fold \o Suffix(fold), Len(log))
<1> DEFINE n == Len(log)
           t == Through(fold)
           s == Suffix(fold)
           L == Len(fold)
           g == fold \o s
<1>1. n \in Nat /\ t \in 0 .. n /\ L \in Nat /\ DOMAIN fold = 1 .. L /\ fold # None
  BY RowsAreCalls, ThroughClimbed, LenProperties, WriterAssumption DEF Fold
<1>2. s \in Seq(Nat) /\ Len(s) = n - t /\ \A i \in 1 .. n - t : s[i] = t + i
  <2>1. s \in Seq(Nat)
    BY SuffixTyped DEF Fold
  <2>2. s = [i \in 1 .. n - t |-> t + i]
    BY DEF Suffix
  <2> HIDE DEF s, t
  <2>3. DOMAIN s = 1 .. n - t /\ n - t \in Nat
    BY <1>1, <2>2
  <2>4. Len(s) = n - t
    BY <2>1, <2>3, LenProperties
  <2> QED BY <2>1, <2>2, <2>4
<1>3. L > 0 => fold[L] = t
  BY <1>1, EmptySeq DEF Through
<1>4. \A i \in 1 .. L : fold[i] \in 1 .. n /\ (i > 1 => fold[i - 1] < fold[i])
  BY <1>1 DEF Climbs
<1> HIDE DEF s, t, n
<1>5. /\ g \in Seq(Nat) /\ Len(g) = L + (n - t)
      /\ \A i \in 1 .. L + (n - t) : g[i] = IF i <= L THEN fold[i] ELSE s[i - L]
  BY <1>2, ConcatProperties DEF Fold
<1>6. DOMAIN g = 1 .. L + (n - t)
  BY <1>5, LenProperties
<1> HIDE DEF g, L
<1>7. ASSUME NEW i \in 1 .. L + (n - t)
      PROVE  g[i] = IF i <= L THEN fold[i] ELSE t + (i - L)
  <2>1. CASE i <= L
    BY <1>5, <2>1
  <2>2. CASE ~(i <= L)
    <3>1. i - L \in 1 .. n - t
      BY <1>1, <2>2
    <3> QED BY <1>2, <1>5, <2>2, <3>1
  <2> QED BY <2>1, <2>2
<1>8. ASSUME NEW i \in 1 .. L + (n - t)
      PROVE  g[i] \in 1 .. n /\ (i > 1 => g[i - 1] < g[i])
  <2>1. CASE i <= L
    <3>1. i \in 1 .. L /\ (i > 1 => i - 1 \in 1 .. L + (n - t) /\ i - 1 <= L)
      BY <1>1, <2>1
    <3> QED BY <1>4, <1>7, <2>1, <3>1
  <2>2. CASE i = L + 1
    <3>1. g[i] = t + 1 /\ t + 1 \in 1 .. n
      BY <1>1, <1>7, <2>2
    <3>2. i > 1 => g[i - 1] = t
      <4> SUFFICES ASSUME i > 1 PROVE g[i - 1] = t
        OBVIOUS
      <4>1. i - 1 = L /\ L > 0 /\ L \in 1 .. L + (n - t)
        BY <1>1, <2>2
      <4> QED BY <1>3, <1>7, <4>1
    <3> QED BY <1>1, <3>1, <3>2
  <2>3. CASE i > L + 1
    <3>1. i - 1 \in 1 .. L + (n - t) /\ ~(i - 1 <= L) /\ ~(i <= L)
      BY <1>1, <2>3
    <3>2. g[i] = t + (i - L) /\ g[i - 1] = t + ((i - 1) - L)
      BY <1>7, <3>1
    <3> QED BY <1>1, <2>3, <3>2
  <2> QED BY <1>1, <2>1, <2>2, <2>3
<1>9. Climbs(g, n)
  BY <1>6, <1>8 DEF Climbs
<1> QED BY <1>9 DEF g, s, n

\* The log only grows under the folds.
LEMMA ExecuteFolds ==
  ASSUME WInv, FInv, NEW c \in calls, NEW accepted \in BOOLEAN, Execute(c, accepted)
  PROVE  FInv'
<1>1. hosts' = hosts /\ writers \in [Epochs -> Writer]
  BY Parts DEF Execute
<1>2. \A is, offset : writers' = Replied(c, is, offset) =>
        \A e \in Epochs : SameFolds(writers[e], writers'[e]) /\ writers'[e].reduces = writers[e].reduces
  <2> TAKE is, offset
  <2> HAVE writers' = Replied(c, is, offset)
  <2> DEFINE r == [is |-> is, offset |-> offset]
             e0 == c.call.epoch
  <2>1. writers' = writers \/ writers' = [writers EXCEPT ![e0].reply = r]
    BY DEF Replied
  <2> HIDE DEF r, e0
  <2> TAKE e \in Epochs
  <2>2. writers[e] \in Writer
    BY <1>1
  <2>3. writers'[e] = writers[e] \/ writers'[e] = [writers[e] EXCEPT !.reply = r]
    BY <1>1, <2>1
  <2> QED BY <2>2, <2>3 DEF SameFolds, Writer
<1>3. \A e \in Epochs : SameFolds(writers[e], writers'[e]) /\ writers'[e].reduces = writers[e].reduces
  BY <1>2 DEF Execute
<1>4. CASE UNCHANGED log
  BY <1>1, <1>3, <1>4, FoldsStay
<1>5. CASE log' = Append(log, c.call)
  <2> DEFINE n == Len(log)
  <2>1. /\ n \in Nat /\ Len(log') = n + 1 /\ DOMAIN log' = 1 .. n + 1 /\ DOMAIN log = 1 .. n
        /\ \A i \in 1 .. n : log'[i] = log[i]
    <3>1. c.call \in Call /\ log \in Seq(Call) /\ n \in Nat /\ DOMAIN log = 1 .. n
      BY Parts, RowsAreCalls
    <3>2. /\ log' \in Seq(Call) /\ Len(log') = n + 1 /\ \A i \in 1 .. n : log'[i] = log[i]
      BY <1>5, <3>1, AppendProperties
    <3> QED BY <3>1, <3>2, LenProperties
  <2> HIDE DEF n
  <2>2. \A fold : Climbs(fold, n) => Climbs(fold, n + 1)
    BY <2>1, ClimbsOn
  <2>3. ASSUME NEW e \in Epochs
        PROVE  /\ FoldsOf(writers'[e], n + 1) /\ LagsBehind(writers'[e], e, log')
               /\ Shown(writers'[e], hosts)
    <3>1. /\ FoldsOf(writers[e], n) /\ LagsBehind(writers[e], e, log) /\ Shown(writers[e], hosts)
      BY DEF FInv, n
    <3>2. FoldsOf(writers'[e], n + 1) /\ Shown(writers'[e], hosts)
      BY <1>3, <2>2, <3>1 DEF FoldsOf, Shown, SameFolds
    <3>3. LagsBehind(writers'[e], e, log')
      <4> SUFFICES ASSUME writers[e].reduces, NEW i \in 1 .. n + 1, log'[i].epoch = e,
                          log'[i].sequence = writers[e].next
                   PROVE  Through(writers[e].memo) < i
        BY <1>3, <2>1 DEF LagsBehind, SameFolds
      <4>1. CASE i \in 1 .. n
        BY <2>1, <3>1, <4>1 DEF LagsBehind
      <4>2. CASE i = n + 1
        <5>1. writers[e].memo \in Fold
          BY Parts DEF WriterOK, Writer
        <5>2. Through(writers[e].memo) \in 0 .. n
          BY <2>1, <3>1, <5>1, ThroughClimbed DEF FoldsOf
        <5> QED BY <2>1, <4>2, <5>2
      <4> QED BY <2>1, <4>1, <4>2
    <3> QED BY <3>2, <3>3
  <2>4. \A p \in Producers : HostFolds(hosts[p], n + 1)
    <3> TAKE p \in Producers
    <3>1. HostFolds(hosts[p], n)
      BY DEF FInv, n
    <3> QED BY <2>2, <3>1 DEF HostFolds
  <2> QED BY <1>1, <2>1, <2>3, <2>4 DEF FInv
<1> QED BY <1>4, <1>5 DEF Execute, AppendBatch

\* The batch that a writer hears of lies behind the state it reduced it onto.
LEMMA CallSucceedsFolds ==
  ASSUME WInv, FInv, NEW e \in Epochs, CallSucceeds(e)
  PROVE  FInv'
<1> DEFINE w == writers[e]
           v == Succeeded(w)
           p == w.producer
           n == Len(log)
<1>1. /\ WriterOK(w) /\ w \in Writer /\ w.status = "active" /\ p \in Producers
      /\ w.reply.is = "stored" /\ writers \in [Epochs -> Writer]
      /\ hosts \in [Producers -> Host] /\ n \in Nat /\ DOMAIN log = 1 .. n
  BY ActiveIsOK, Parts, RowsAreCalls DEF CallSucceeds, RestTyped
<1>2. /\ FoldsOf(w, n) /\ LagsBehind(w, e, log) /\ Shown(w, hosts)
  BY DEF FInv
<1>3. /\ v.status = "active" /\ v.producer = p /\ v.load = w.load /\ v.reduces = FALSE
      /\ v.memo = IF w.reduces THEN Append(w.memo, w.reply.offset) ELSE w.memo
  BY <1>1 DEF Succeeded, Writer
<1>4. writers' = [writers EXCEPT ![e] = v] /\ log' = log
      /\ hosts' = IF w.reduces THEN [hosts EXCEPT ![p].state = Adopted(@, v.memo)] ELSE hosts
  BY DEF CallSucceeds
<1>5. \A f \in Epochs : f # e => writers'[f] = writers[f]
  BY <1>1, <1>4
<1>6. writers'[e] = v
  BY <1>1, <1>4
<1> HIDE DEF v, n
<1>7. CASE ~w.reduces
  <2>1. FoldsOf(v, n) /\ LagsBehind(v, e, log) /\ Shown(v, hosts)
    BY <1>1, <1>2, <1>3, <1>7 DEF FoldsOf, LagsBehind, Shown
  <2>2. hosts' = hosts
    BY <1>4, <1>7
  <2>3. \A f \in Epochs : /\ FoldsOf(writers'[f], n) /\ LagsBehind(writers'[f], f, log)
                          /\ Shown(writers'[f], hosts)
    BY <1>5, <1>6, <2>1 DEF FInv, n
  <2> QED BY <1>4, <2>2, <2>3 DEF FInv, n
<1>8. CASE w.reduces
  <2> DEFINE s == hosts[p].state
             t == Adopted(s, v.memo)
             offset == w.reply.offset
  <2>1. w.memo \in Fold /\ w.memo # None /\ w.load = None /\ Climbs(w.memo, n) /\ s # None
    BY <1>1, <1>2, <1>8 DEF WriterOK, Writer, FoldsOf, Shown
  <2>2. offset \in 1 .. n /\ Through(w.memo) < offset
    <3>1. offset \in DOMAIN log /\ log[offset].epoch = e /\ log[offset].sequence = w.next
      BY <1>1 DEF WInv, ClaimsOK
    <3> QED BY <1>1, <1>2, <1>8, <3>1 DEF LagsBehind
  <2>3. v.memo = Append(w.memo, offset)
    BY <1>3, <1>8
  <2> HIDE DEF offset, s
  <2>4. v.memo \in Fold /\ Climbs(v.memo, n) /\ v.memo # None
    BY ZenonT(60), <1>1, <2>1, <2>2, <2>3, OneMore, WriterAssumption DEF Fold
  <2>5. hosts[p] \in Host /\ HostFolds(hosts[p], n) /\ Climbs(s, n)
    BY <1>1 DEF FInv, n, HostFolds, s
  <2>6. t # None /\ Climbs(t, n)
    BY <2>1, <2>4, <2>5 DEF Adopted
  <2>7. hosts' = [hosts EXCEPT ![p].state = t]
    BY <1>4, <1>8 DEF s
  <2> HIDE DEF t
  <2>8. /\ \A q \in Producers : q # p => hosts'[q] = hosts[q]
        /\ hosts'[p].state = t /\ hosts'[p].advance = hosts[p].advance
    BY <1>1, <2>5, <2>7 DEF Host
  <2>9. HostFolds(hosts'[p], n)
    BY <2>1, <2>5, <2>6, <2>8 DEF HostFolds, s
  <2>10. \A q \in Producers : HostFolds(hosts'[q], n)
    BY <2>8, <2>9 DEF FInv, n
  <2>11. FoldsOf(v, n) /\ LagsBehind(v, e, log) /\ Shown(v, hosts')
    BY <1>3, <2>1, <2>4, <2>6, <2>8 DEF FoldsOf, LagsBehind, Shown
  <2>12. ASSUME NEW f \in Epochs
         PROVE  FoldsOf(writers'[f], n) /\ LagsBehind(writers'[f], f, log) /\ Shown(writers'[f], hosts')
    <3>1. CASE f = e
      BY <1>6, <2>11, <3>1
    <3>2. CASE f # e
      <4>1. /\ writers'[f] = writers[f] /\ FoldsOf(writers[f], n)
            /\ LagsBehind(writers[f], f, log) /\ Shown(writers[f], hosts)
        BY <1>5, <3>2 DEF FInv, n
      <4>2. writers[f].status = "active" => writers[f].producer \in Producers
        BY Parts DEF WriterOK
      <4> QED BY <2>6, <2>8, <4>1, <4>2 DEF Shown
    <3> QED BY <3>1, <3>2
  <2> QED BY <1>4, <2>10, <2>12 DEF FInv, n
<1> QED BY <1>7, <1>8

LEMMA CrashFolds ==
  ASSUME WInv, FInv, NEW p \in Producers, Crash(p)
  PROVE  FInv'
<1>1. /\ writers \in [Epochs -> Writer] /\ hosts \in [Producers -> Host]
      /\ hosts' = [hosts EXCEPT ![p] = NoHost] /\ log' = log
  BY Parts DEF Crash, RestTyped
<1>2. ASSUME NEW e \in Epochs
      PROVE  \/ writers'[e] = writers[e] /\ ~(writers[e].status = "active" /\ writers[e].producer = p)
             \/ NoFolds(writers'[e]) /\ writers'[e].reduces = FALSE
  BY DEF Crash, Active, Ended, NoWriter, NoFolds
<1>3. ASSUME NEW e \in Epochs
      PROVE  /\ FoldsOf(writers'[e], Len(log)) /\ LagsBehind(writers'[e], e, log)
             /\ Shown(writers'[e], hosts')
  <2>1. CASE NoFolds(writers'[e]) /\ writers'[e].reduces = FALSE
    BY <2>1 DEF NoFolds, FoldsOf, LagsBehind, Shown, Climbs
  <2>2. CASE writers'[e] = writers[e] /\ ~(writers[e].status = "active" /\ writers[e].producer = p)
    <3>1. /\ FoldsOf(writers[e], Len(log)) /\ LagsBehind(writers[e], e, log) /\ Shown(writers[e], hosts)
      BY DEF FInv
    <3>2. writers[e].status = "active" => writers[e].producer \in Producers
      BY Parts DEF WriterOK
    <3>3. Shown(writers[e], hosts')
      BY <1>1, <2>2, <3>1, <3>2 DEF Shown
    <3> QED BY <2>2, <3>1, <3>3
  <2> QED BY <1>2, <2>1, <2>2
<1>4. ASSUME NEW q \in Producers PROVE HostFolds(hosts'[q], Len(log))
  <2>1. HostFolds(NoHost, Len(log))
    BY DEF HostFolds, NoHost, Climbs
  <2> QED BY <1>1, <2>1 DEF FInv
<1> QED BY <1>1, <1>3, <1>4 DEF FInv

\* A step that leaves the log alone keeps the folds if it keeps those of each
\* writer and each host.
LEMMA FoldsKept ==
  ASSUME FInv, UNCHANGED log,
         \A e \in Epochs :
           \/ writers'[e] = writers[e] /\ Shown(writers[e], hosts')
           \/ /\ FoldsOf(writers'[e], Len(log)) /\ LagsBehind(writers'[e], e, log)
              /\ Shown(writers'[e], hosts'),
         \A p \in Producers : hosts'[p] = hosts[p] \/ HostFolds(hosts'[p], Len(log))
  PROVE  FInv'
BY DEF FInv

LEMMA LoadFolds ==
  ASSUME WInv, FInv, NEW e \in Epochs, BeginLoad(e) \/ ReturnLoad(e)
  PROVE  FInv'
<1> DEFINE w == writers[e]
           again == [before |-> w.next, loaded |-> None]
           u == [w EXCEPT !.memo = w.load.loaded, !.load = None]
           v == [w EXCEPT !.load = again]
<1>1. /\ w \in Writer /\ WriterOK(w) /\ w.status = "active" /\ writers \in [Epochs -> Writer]
      /\ w.memo = None
  <2>1. Active(e)
    BY DEF BeginLoad, ReturnLoad
  <2>2. w \in Writer /\ WriterOK(w) /\ w.status = "active" /\ writers \in [Epochs -> Writer]
    BY <2>1, ActiveIsOK, Parts
  <2> QED BY <2>2 DEF BeginLoad, ReturnLoad, WriterOK
<1>2. w.reduces = FALSE
  BY <1>1 DEF WriterOK, Writer
<1>3. FoldsOf(w, Len(log)) /\ Shown(w, hosts)
  BY DEF FInv
<1>5. UNCHANGED <<log, hosts>>
  BY DEF BeginLoad, ReturnLoad, Write
<1>6. CASE writers' = [writers EXCEPT ![e] = v]
  <2>1. v.memo = None /\ v.load = again /\ v.reduces = FALSE /\ again.loaded = None
    BY <1>1, <1>2 DEF Writer
  <2> HIDE DEF v, again
  <2>2. FoldsOf(v, Len(log)) /\ LagsBehind(v, e, log) /\ Shown(v, hosts)
    BY <2>1 DEF FoldsOf, LagsBehind, Shown, Climbs
  <2> QED BY <1>1, <1>5, <1>6, <2>2, FoldsKept DEF FInv
<1>7. CASE writers' = [writers EXCEPT ![e] = u] /\ w.load # None /\ w.load.loaded # None
  <2>1. u.memo = w.load.loaded /\ u.load = None /\ u.reduces = FALSE /\ u.status = w.status
        /\ u.producer = w.producer
    BY <1>1, <1>2 DEF Writer
  <2> HIDE DEF u
  <2>2. FoldsOf(u, Len(log)) /\ LagsBehind(u, e, log) /\ Shown(u, hosts)
    BY <1>1, <1>3, <1>7, <2>1 DEF FoldsOf, LagsBehind, Shown
  <2> QED BY <1>1, <1>5, <1>7, <2>2, FoldsKept DEF FInv
<1> QED BY <1>6, <1>7 DEF BeginLoad, ReturnLoad, Write

LEMMA StartAdvanceFolds ==
  ASSUME WInv, FInv, NEW p \in Producers, NEW for \in Epochs \cup {None}, StartAdvance(p, for)
  PROVE  FInv'
<1> DEFINE a == [for |-> for, base |-> hosts[p].state, read |-> None]
           h == [hosts[p] EXCEPT !.advance = a]
<1>1. hosts \in [Producers -> Host] /\ hosts[p] \in Host /\ UNCHANGED <<log, writers>>
      /\ hosts' = [hosts EXCEPT ![p].advance = a]
  BY Parts DEF StartAdvance, RestTyped
<1>2. a.base = hosts[p].state /\ a.read = None
  OBVIOUS
<1> HIDE DEF a
<1>3. h.state = hosts[p].state /\ h.advance = a /\ hosts' = [hosts EXCEPT ![p] = h]
  BY <1>1 DEF Host
<1>4. HostFolds(hosts[p], Len(log))
  BY DEF FInv
<1> HIDE DEF h
<1>5. HostFolds(h, Len(log))
  BY <1>2, <1>3, <1>4 DEF HostFolds, Climbs
<1>6. \A q \in Producers : hosts'[q] = hosts[q] \/ HostFolds(hosts'[q], Len(log))
  BY <1>1, <1>3, <1>5
<1>7. \A q \in Producers : hosts'[q].state = hosts[q].state
  BY <1>1, <1>3
<1>8. \A e \in Epochs : writers'[e] = writers[e] /\ Shown(writers[e], hosts')
  <2> TAKE e \in Epochs
  <2>1. Shown(writers[e], hosts) /\ (writers[e].status = "active" => writers[e].producer \in Producers)
    BY Parts DEF FInv, WriterOK
  <2> QED BY <1>1, <1>7, <2>1 DEF Shown
<1> QED BY <1>1, <1>6, <1>8, FoldsKept

LEMMA ReadAdvanceFolds ==
  ASSUME WInv, FInv, NEW p \in Producers, ReadAdvance(p)
  PROVE  FInv'
<1> DEFINE h == hosts[p]
           for == h.advance.for
           read == BaseOf(h) \o Suffix(BaseOf(h))
<1>1. h.advance # None /\ UNCHANGED log
  BY DEF ReadAdvance
<1>2. /\ hosts \in [Producers -> Host] /\ h \in Host /\ h.state \in Fold \cup {None}
      /\ h.advance \in [for : Epochs \cup {None}, base : Fold \cup {None}, read : Fold \cup {None}]
      /\ BaseOf(h) \in Fold
  BY <1>1, HostTyped
<1>3. HostFolds(h, Len(log))
  BY DEF FInv
<1>4. Climbs(read, Len(log))
  <2>1. Climbs(BaseOf(h), Len(log))
    BY <1>1, <1>3 DEF HostFolds, BaseOf, Climbs
  <2> QED BY <1>2, <2>1, SuffixClimbs
<1>5. \A e \in Epochs : Shown(writers[e], hosts)
                        /\ (writers[e].status = "active" => writers[e].producer \in Producers)
  BY Parts DEF FInv, WriterOK
<1>6. CASE hosts' = [hosts EXCEPT ![p].advance.read = read] /\ UNCHANGED writers
  <2> HIDE DEF read
  <2> DEFINE a == [h.advance EXCEPT !.read = read]
             g == [h EXCEPT !.advance = a]
  <2>1. /\ a.base = h.advance.base /\ a.read = read /\ g.state = h.state /\ g.advance = a
        /\ hosts' = [hosts EXCEPT ![p] = g]
    BY <1>2, <1>6 DEF Host
  <2> HIDE DEF a, g
  <2>2. HostFolds(g, Len(log))
    BY <1>1, <1>3, <1>4, <2>1 DEF HostFolds
  <2>3. /\ \A q \in Producers : hosts'[q] = hosts[q] \/ HostFolds(hosts'[q], Len(log))
        /\ \A q \in Producers : hosts'[q].state = hosts[q].state
    BY <1>2, <2>1, <2>2
  <2>4. \A e \in Epochs : writers'[e] = writers[e] /\ Shown(writers[e], hosts')
    BY <1>5, <1>6, <2>3 DEF Shown
  <2> QED BY <1>1, <2>3, <2>4, FoldsKept
<1>7. CASE /\ hosts' = [hosts EXCEPT ![p].advance = None]
           /\ writers' = IF for # None /\ Loading(for, p)
                           THEN [writers EXCEPT ![for].load = None] ELSE writers
  <2> DEFINE g == [h EXCEPT !.advance = None]
  <2>1. g.state = h.state /\ g.advance = None /\ hosts' = [hosts EXCEPT ![p] = g]
    BY <1>2, <1>7 DEF Host
  <2> HIDE DEF g
  <2>2. HostFolds(g, Len(log))
    BY <1>3, <2>1 DEF HostFolds
  <2>3. /\ \A q \in Producers : hosts'[q] = hosts[q] \/ HostFolds(hosts'[q], Len(log))
        /\ \A q \in Producers : hosts'[q].state = hosts[q].state
    BY <1>2, <2>1, <2>2
  <2>4. \A e \in Epochs : Shown(writers[e], hosts')
    BY <1>5, <2>3 DEF Shown
  <2>5. CASE ~(for # None /\ Loading(for, p))
    BY <1>1, <1>7, <2>3, <2>4, <2>5, FoldsKept
  <2>6. CASE for # None /\ Loading(for, p)
    <3> DEFINE w == writers[for]
               v == [w EXCEPT !.load = None]
    <3>1. for \in Epochs /\ w \in Writer /\ writers \in [Epochs -> Writer] /\ WriterOK(w)
      BY <1>2, <2>6, Parts
    <3>2. w.memo = None /\ w.reduces = FALSE
      BY <2>6, <3>1 DEF Loading, WriterOK, Writer
    <3>3. v.memo = None /\ v.load = None /\ v.reduces = FALSE
      BY <3>1, <3>2 DEF Writer
    <3>4. writers' = [writers EXCEPT ![for] = v]
      BY <1>7, <2>6, <3>1
    <3> HIDE DEF v, for
    <3>5. FoldsOf(v, Len(log)) /\ LagsBehind(v, for, log) /\ Shown(v, hosts')
      BY <3>3 DEF FoldsOf, LagsBehind, Shown, Climbs
    <3>6. \A e \in Epochs :
            \/ writers'[e] = writers[e] /\ Shown(writers[e], hosts')
            \/ /\ FoldsOf(writers'[e], Len(log)) /\ LagsBehind(writers'[e], e, log)
               /\ Shown(writers'[e], hosts')
      BY <2>4, <3>1, <3>4, <3>5
    <3> QED BY <1>1, <2>3, <3>6, FoldsKept
  <2> QED BY <2>5, <2>6
<1> QED BY <1>6, <1>7 DEF ReadAdvance

LEMMA FinishAdvanceFolds ==
  ASSUME WInv, FInv, NEW p \in Producers, FinishAdvance(p)
  PROVE  FInv'
<1> DEFINE h == hosts[p]
           for == h.advance.for
           s == Advanced(h)
           g == [state |-> s, advance |-> None]
<1>1. /\ h.advance # None /\ h.advance.read # None /\ UNCHANGED log
      /\ hosts' = [hosts EXCEPT ![p] = g]
      /\ writers' = IF for # None /\ Loading(for, p)
                      THEN [writers EXCEPT ![for].load.loaded = s] ELSE writers
  BY DEF FinishAdvance
<1>2. /\ hosts \in [Producers -> Host] /\ h \in Host /\ h.state \in Fold \cup {None}
      /\ h.advance \in [for : Epochs \cup {None}, base : Fold \cup {None}, read : Fold \cup {None}]
  BY <1>1, HostTyped
<1>3. HostFolds(h, Len(log))
  BY DEF FInv
<1>4. Climbs(s, Len(log)) /\ (s = None => h.state = None)
  BY <1>1, <1>3 DEF Advanced, HostFolds
<1>5. s # None \/ (h.advance.base # None /\ h.state = None)
  BY <1>1, <1>4 DEF Advanced
<1>6. g.state = s /\ g.advance = None
  OBVIOUS
<1> HIDE DEF s, g
<1>7. HostFolds(g, Len(log))
  BY <1>4, <1>6 DEF HostFolds
<1>8. \A q \in Producers : hosts'[q] = hosts[q] \/ HostFolds(hosts'[q], Len(log))
  BY <1>1, <1>2, <1>7
<1>9. \A q \in Producers : hosts[q].state # None => hosts'[q].state # None
  BY <1>1, <1>2, <1>4, <1>6
<1>10. \A e \in Epochs : Shown(writers[e], hosts')
  <2> TAKE e \in Epochs
  <2>1. Shown(writers[e], hosts)
        /\ (writers[e].status = "active" => writers[e].producer \in Producers)
    BY SMTT(40), Parts DEF FInv, WriterOK
  <2> QED BY <1>9, <2>1 DEF Shown
<1>11. CASE ~(for # None /\ Loading(for, p))
  BY <1>1, <1>8, <1>10, <1>11, FoldsKept
<1>12. CASE for # None /\ Loading(for, p)
  <2> DEFINE w == writers[for]
             load == [w.load EXCEPT !.loaded = s]
             v == [w EXCEPT !.load = load]
  <2>1. for \in Epochs /\ w \in Writer /\ writers \in [Epochs -> Writer] /\ WriterOK(w)
        /\ w.load # None /\ w.producer = p
    BY SMTT(40), <1>2, <1>12, Parts DEF Loading
  <2>2. w.memo = None /\ w.reduces = FALSE /\ load.loaded = s
    BY <2>1 DEF WriterOK, Writer
  <2> HIDE DEF load
  <2>3. v.memo = None /\ v.load = load /\ v.reduces = FALSE /\ v.producer = p
    BY <2>1, <2>2 DEF Writer
  <2>4. writers' = [writers EXCEPT ![for] = v]
    BY <1>1, <1>12, <2>1 DEF load
  <2> HIDE DEF v, for
  <2>5. hosts'[p].state = s
    BY <1>1, <1>2, <1>6
  <2>6. FoldsOf(v, Len(log)) /\ LagsBehind(v, for, log) /\ Shown(v, hosts')
    BY <1>4, <2>2, <2>3, <2>5 DEF FoldsOf, LagsBehind, Shown, Climbs
  <2>7. \A e \in Epochs :
          \/ writers'[e] = writers[e] /\ Shown(writers[e], hosts')
          \/ /\ FoldsOf(writers'[e], Len(log)) /\ LagsBehind(writers'[e], e, log)
             /\ Shown(writers'[e], hosts')
    BY <1>10, <2>1, <2>4, <2>6
  <2> QED BY <1>1, <1>8, <2>7, FoldsKept
<1> QED BY <1>11, <1>12

LEMMA InitFInv == Init => FInv
BY DEF Init, FInv, FoldsOf, LagsBehind, Shown, HostFolds, Climbs, NoWriter, NoHost

LEMMA NextFInv == WInv /\ FInv /\ [Next]_vars => FInv'
<1> SUFFICES ASSUME WInv, FInv, [Next]_vars PROVE FInv'
  OBVIOUS
<1>1. CASE Create \/ UNCHANGED vars
  <2>1. UNCHANGED <<log, writers, hosts>>
    BY <1>1 DEF Create, CreateStream, vars
  <2> QED BY <2>1 DEF FInv
<1>2. CASE \E p \in Producers : Open(p) \/ Crash(p)
  BY <1>2, OpenFolds, CrashFolds
<1>3. CASE HandStep
  BY <1>3, HandFolds, FlushFolds DEF HandStep
<1>4. CASE \E e \in Epochs : FlushStep(e) \/ OperationStep(e) \/ ReturnStep(e)
  BY <1>4, FlushFolds, OperationFolds, StartOperationFolds, CallSucceedsFolds
     DEF OperationStep, ReturnStep
<1>5. CASE \E c \in calls, accepted \in BOOLEAN : Execute(c, accepted)
  BY <1>5, ExecuteFolds
<1>6. CASE FoldStep
  BY <1>6, LoadFolds, StartAdvanceFolds, ReadAdvanceFolds, FinishAdvanceFolds DEF FoldStep
<1> QED BY <1>1, <1>2, <1>3, <1>4, <1>5, <1>6 DEF Next

LEMMA SpecFInv == Spec => [](WInv /\ FInv)
<1>1. Init => WInv /\ FInv
  BY InitWInv, InitFInv
<1>2. (WInv /\ FInv) /\ [Next]_vars => (WInv /\ FInv)'
  BY NextWInv, NextFInv
<1> QED BY <1>1, <1>2, PTL DEF Spec

\* No fold applies a batch twice or out of order, in a host or in a writer
\* (ConversationFoldHost.advanceToHead and adoptState, ConversationRecordWriter's
\* reducedState).
THEOREM FoldsAreOrdered == Spec => []FoldsNeverRepeat
<1>1. WInv /\ FInv => FoldsNeverRepeat
  BY RowsAreCalls DEF FInv, FoldsNeverRepeat, Ascends, Climbs, FoldsOf, HostFolds
<1> QED BY <1>1, SpecFInv, PTL

LEMMA StepsOfHosts ==
  ASSUME WInv, FInv, [Next]_vars
  PROVE  \A p \in Producers :
           hosts[p].state # None /\ hosts'[p].state # None =>
             Through(hosts[p].state) <= Through(hosts'[p].state)
<1>1. hosts \in [Producers -> Host]
      /\ \A p \in Producers : hosts[p] \in Host /\ hosts[p].state \in Fold \cup {None}
  BY Parts DEF RestTyped, Host
<1>2. \A p \in Producers : hosts'[p].state = hosts[p].state /\ hosts[p].state # None =>
        Through(hosts[p].state) <= Through(hosts'[p].state)
  BY <1>1, ThroughTyped
<1>3. CASE UNCHANGED hosts
  BY <1>2, <1>3
<1>4. ASSUME NEW p \in Producers, Crash(p)
      PROVE  \A q \in Producers : hosts'[q] = hosts[q] \/ hosts'[q].state = None
  BY <1>1, <1>4 DEF Crash, NoHost
<1>5. ASSUME NEW p \in Producers, (\E for \in Epochs \cup {None} : StartAdvance(p, for)) \/ ReadAdvance(p)
      PROVE  \A q \in Producers : hosts'[q].state = hosts[q].state
  BY <1>1, <1>5 DEF StartAdvance, ReadAdvance, Host
<1>6. ASSUME NEW p \in Producers, FinishAdvance(p), hosts[p].state # None
      PROVE  Through(hosts[p].state) <= Through(hosts'[p].state)
  <2> DEFINE h == hosts[p]
  <2>1. h.advance # None /\ hosts'[p].state = Advanced(h) /\ h.advance.read # None
    BY <1>1, <1>6 DEF FinishAdvance
  <2>2. h.advance.base # None
    BY <1>6, <2>1 DEF FInv, HostFolds
  <2>3. Through(h.state) \in Nat /\ Through(h.advance.read) \in Nat
    <3>1. h.state \in Fold /\ h.advance.read \in Fold
      BY <1>6, <2>1, HostTyped
    <3> QED BY <3>1, ThroughTyped
  <2> QED BY <2>1, <2>2, <2>3 DEF Advanced
<1>7. ASSUME NEW p \in Producers, FinishAdvance(p)
      PROVE  \A q \in Producers : q # p => hosts'[q] = hosts[q]
  BY <1>1, <1>7 DEF FinishAdvance
<1>8. ASSUME NEW e \in Epochs, CallSucceeds(e), NEW p \in Producers,
             hosts[p].state # None
      PROVE  Through(hosts[p].state) <= Through(hosts'[p].state)
  <2> DEFINE q == writers[e].producer
             memo == Succeeded(writers[e]).memo
  <2>1. CASE hosts'[p] = hosts[p]
    BY <1>2, <1>8, <2>1
  <2>2. CASE p = q /\ writers[e].reduces
    <3>1. hosts'[p].state = Adopted(hosts[p].state, memo)
      BY <1>1, <1>8, <2>2 DEF CallSucceeds, Host
    <3>2. hosts[p].state \in Fold
      BY <1>1, <1>8
    <3>3. Through(hosts[p].state) \in Nat
      BY <3>2, ThroughTyped
    <3>4. Through(memo) >= Through(hosts[p].state) => Through(hosts[p].state) <= Through(memo)
      OBVIOUS
    <3> HIDE DEF memo
    <3> QED BY <1>8, <3>1, <3>3, <3>4 DEF Adopted
  <2>3. hosts'[p] = hosts[p] \/ (p = q /\ writers[e].reduces)
    BY <1>1, <1>8 DEF CallSucceeds
  <2> QED BY <2>1, <2>2, <2>3
<1>9. CASE \E e \in Epochs : CallSucceeds(e)
  BY <1>8, <1>9
<1>10. CASE \E p \in Producers : Crash(p)
  BY <1>2, <1>4, <1>10
<1>11. CASE \E p \in Producers : (\E for \in Epochs \cup {None} : StartAdvance(p, for)) \/ ReadAdvance(p)
  BY <1>2, <1>5, <1>11
<1>12. CASE \E p \in Producers : FinishAdvance(p)
  BY <1>2, <1>6, <1>7, <1>12
<1>13. \/ UNCHANGED hosts
       \/ \E e \in Epochs : CallSucceeds(e)
       \/ \E p \in Producers : Crash(p)
       \/ \E p \in Producers : (\E for \in Epochs \cup {None} : StartAdvance(p, for)) \/ ReadAdvance(p)
       \/ \E p \in Producers : FinishAdvance(p)
  <2>1. CASE HandStep
    BY <2>1 DEF HandStep, AppendRecord, Enqueue, Hand, FlushNow, Write
  <2>2. CASE \E e \in Epochs : FlushStep(e) \/ OperationStep(e) \/ ReturnStep(e)
    BY <2>2 DEF FlushStep, TimerFires, MicrotaskFlushes, ChainedFlush, Write, OperationStep,
                RejectOperation, StartOperation, ReturnStep, Retry, Fail
  <2>3. CASE FoldStep
    BY <2>3 DEF FoldStep, BeginLoad, ReturnLoad, Write
  <2>4. CASE Create \/ (\E p \in Producers : Open(p)) \/ UNCHANGED vars
    BY <2>4 DEF Create, Open, vars
  <2>5. CASE \E c \in calls, accepted \in BOOLEAN : Execute(c, accepted)
    BY <2>5 DEF Execute
  <2> QED BY <2>1, <2>2, <2>3, <2>4, <2>5 DEF Next
<1> QED BY <1>3, <1>9, <1>10, <1>11, <1>12, <1>13

\* A host never falls back behind a state it has shown its readers, whatever its
\* writer has adopted while it read (ConversationFoldHost.advanceToHead, adoptState).
THEOREM HostsGoForward == Spec => HostsNeverGoBack
<1>1. (WInv /\ FInv) /\ [Next]_vars =>
        [\A p \in Producers :
           hosts[p].state # None /\ hosts'[p].state # None =>
             Through(hosts[p].state) <= Through(hosts'[p].state)]_vars
  BY StepsOfHosts
<1> QED BY <1>1, SpecFInv, PTL DEF Spec, HostsNeverGoBack

-----------------------------------------------------------------------------
(* Landed batches *)

\* Only a stream that exists is claimed.
ClaimedExists == stream.epoch # 0 => stream.created

LEMMA NextClaimedExists == WInv /\ ClaimedExists /\ [Next]_vars => ClaimedExists'
<1> SUFFICES ASSUME WInv, ClaimedExists, [Next]_vars PROVE ClaimedExists'
  OBVIOUS
<1>1. stream \in Stream
  BY RowsAreCalls
<1>2. CASE UNCHANGED stream
  BY <1>2 DEF ClaimedExists
<1>3. CASE Create
  BY <1>1, <1>3 DEF Create, CreateStream, Stream, ClaimedExists
<1>4. CASE \E p \in Producers : Open(p)
  BY <1>1, <1>4 DEF Open, AcquireProducer, Stream, ClaimedExists
<1>5. CASE \E c \in calls : AppendBatch(c.call)
  BY <1>1, <1>5 DEF AppendBatch, Stream, ClaimedExists
<1>6. \/ UNCHANGED stream \/ Create \/ \E p \in Producers : Open(p)
      \/ \E c \in calls : AppendBatch(c.call)
  <2>1. CASE HandStep
    BY <2>1 DEF HandStep, AppendRecord, Enqueue, Hand, FlushNow, Write
  <2>2. CASE \E e \in Epochs : FlushStep(e) \/ OperationStep(e) \/ ReturnStep(e)
    BY ZenonT(60), <2>2 DEF FlushStep, TimerFires, MicrotaskFlushes, ChainedFlush, Write, OperationStep,
                RejectOperation, StartOperation, ReturnStep, CallSucceeds, Retry, Fail
  <2>3. CASE FoldStep
    BY <2>3 DEF FoldStep, BeginLoad, ReturnLoad, Write, StartAdvance, ReadAdvance, FinishAdvance
  <2>4. CASE Create \/ (\E p \in Producers : Open(p) \/ Crash(p)) \/ UNCHANGED vars
    BY <2>4 DEF Crash, vars
  <2>5. CASE \E c \in calls, accepted \in BOOLEAN : Execute(c, accepted)
    BY <2>5 DEF Execute
  <2> QED BY <2>1, <2>2, <2>3, <2>4, <2>5 DEF Next
<1> QED BY <1>2, <1>3, <1>4, <1>5, <1>6

\* The store answers a copy of a call that has landed as that one was answered.
LEMMA RefusedHasNotLanded ==
  ASSUME WInv, ClaimedExists, NEW e \in Epochs, NEW c \in calls, NEW accepted \in BOOLEAN,
         Execute(c, accepted), writers[e].reply.is = "none", writers'[e].reply.is = "refused",
         stream.epoch = e, NEW i \in Landed(e), log[i].sequence = writers[e].next
  PROVE  FALSE
<1>1. writers \in [Epochs -> Writer] /\ writers[e] \in Writer /\ i \in DOMAIN log /\ log[i].epoch = e
  BY Parts DEF Landed
<1>2. /\ c.call.epoch = e /\ writers[e].next = c.call.sequence /\ Active(e)
      /\ \A offset \in DOMAIN log : ~Repeats(c.call, offset)
  <2>1. ASSUME NEW is, NEW offset, writers' = Replied(c, is, offset)
        PROVE  c.call.epoch = e /\ writers[e].next = c.call.sequence /\ Active(e) /\ is = "refused"
    <3> DEFINE r == [is |-> is, offset |-> offset]
               e0 == c.call.epoch
    <3>1. \/ writers' = writers
          \/ /\ Active(e0) /\ writers[e0].next = c.call.sequence
             /\ writers' = [writers EXCEPT ![e0].reply = r]
      BY <2>1 DEF Replied
    <3>2. r.is = is
      OBVIOUS
    <3> HIDE DEF r, e0
    <3>3. CASE writers' = [writers EXCEPT ![e0].reply = r] /\ e # e0
      BY <1>1, <3>3
    <3>4. CASE writers' = [writers EXCEPT ![e0].reply = r] /\ e = e0
      BY <1>1, <3>1, <3>2, <3>4 DEF Writer, e0
    <3> QED BY <3>1, <3>3, <3>4
  <2> QED BY <2>1 DEF Execute
<1>3. SentCall(c.call) /\ SentCall(log[i])
  BY <1>1 DEF WInv, ClaimsOK, LogOK
<1>4. Owns(c.call)
  <2>1. stream.created /\ stream.producer = writers[e].producer
    BY <1>2, RowsAreCalls DEF WInv, ClaimsOK, ClaimedExists, Epochs, Active
  <2> QED BY <1>2, <1>3, <2>1 DEF Owns, SentCall
<1>5. Repeats(c.call, i)
  BY <1>1, <1>2, <1>3, <1>4 DEF Repeats, StoredAt, SameKey, SentCall
<1> QED BY <1>1, <1>2, <1>5

\* No other step brings a writer a refusal.
LEMMA OnlyTheStoreRefuses ==
  ASSUME WInv, [Next]_vars, NEW e \in Epochs,
         writers[e].reply.is = "none", writers'[e].reply.is = "refused"
  PROVE  \E c \in calls, accepted \in BOOLEAN : Execute(c, accepted)
<1> DEFINE Silent == \A f \in Epochs : writers'[f].reply = writers[f].reply
                                       \/ writers'[f].reply.is = "none"
<1> SUFFICES ASSUME ~\E c \in calls, accepted \in BOOLEAN : Execute(c, accepted)
             PROVE  Silent
  OBVIOUS
<1>1. writers \in [Epochs -> Writer] /\ \A f \in Epochs : writers[f] \in Writer
  BY Parts
<1>2. NoReply.is = "none" /\ NoWriter.reply = NoReply
  BY DEF NoReply, NoWriter
<1>3. CASE UNCHANGED writers
  BY <1>3
<1>4. CASE HandStep
  <2>1. PICK f \in Epochs : \E v : writers' = [writers EXCEPT ![f] = v] /\ v.reply = writers[f].reply
    <3>1. PICK f \in Epochs : \/ \E owner \in Attempts \cup {None} : AppendRecord(f, owner) \/ Enqueue(f, owner)
                              \/ FlushNow(f)
      BY <1>4 DEF HandStep
    <3>2. CASE FlushNow(f)
      BY <1>1, <3>2, FlushedFields DEF FlushNow, Write
    <3>3. ASSUME NEW owner, AppendRecord(f, owner)
          PROVE  \E v : writers' = [writers EXCEPT ![f] = v] /\ v.reply = writers[f].reply
      <4> DEFINE t == Append(writers[f].tail,
                             [batch |-> BatchOf(<<[id |-> lastRecord + 1, owner |-> owner]>>),
                              flush |-> FALSE])
                 v == [writers[f] EXCEPT !.tail = t]
      <4>1. writers' = [writers EXCEPT ![f] = v]
        BY <3>3 DEF AppendRecord, Hand
      <4> HIDE DEF t
      <4>2. v.reply = writers[f].reply
        BY <1>1 DEF Writer
      <4> QED BY <4>1, <4>2
    <3>4. ASSUME NEW owner, Enqueue(f, owner)
          PROVE  \E v : writers' = [writers EXCEPT ![f] = v] /\ v.reply = writers[f].reply
      <4> DEFINE t == Append(writers[f].pending, [id |-> lastRecord + 1, owner |-> owner])
                 u == [writers[f] EXCEPT !.pending = t]
      <4>1. PICK v \in Woken(u) : Hand(f, v)
        BY <3>4 DEF Enqueue
      <4> HIDE DEF t
      <4>2. v = u \/ v = [u EXCEPT !.woken = TRUE] \/ v = [u EXCEPT !.timer = "armed"]
        BY <4>1 DEF Woken
      <4>3. v.reply = writers[f].reply
        BY <1>1, <4>2 DEF Writer
      <4> QED BY <4>1, <4>3 DEF Hand
    <3> QED BY <3>1, <3>2, <3>3, <3>4
  <2> QED BY <1>1, <2>1
<1>5. ASSUME NEW f \in Epochs, NEW v, writers' = [writers EXCEPT ![f] = v],
             v.reply = writers[f].reply \/ v.reply.is = "none"
      PROVE  Silent
  BY <1>1, <1>5
<1>6. CASE \E f \in Epochs : FlushStep(f)
  <2>1. PICK f \in Epochs : FlushStep(f)
    BY <1>6
  <2> DEFINE w == writers[f]
  <2>2. w \in Writer
    BY <1>1
  <2>3. \A u \in Writer : Flushed(u).reply = u.reply
    BY FlushedFields
  <2>4. \A u \in Writer : u.reply = w.reply /\ (Write(f, Flushed(u)) \/ Write(f, u)) => Silent
    BY <1>5, <2>3 DEF Write
  <2>5. /\ [w EXCEPT !.timer = "fired"] \in Writer /\ [w EXCEPT !.timer = "fired"].reply = w.reply
        /\ [w EXCEPT !.woken = FALSE] \in Writer /\ [w EXCEPT !.woken = FALSE].reply = w.reply
        /\ [w EXCEPT !.chained = FALSE] \in Writer /\ [w EXCEPT !.chained = FALSE].reply = w.reply
    BY ZenonT(60), <2>2 DEF Writer
  <2>6. CASE TimerFires(f)
    BY <2>4, <2>5, <2>6 DEF TimerFires
  <2>7. CASE MicrotaskFlushes(f)
    BY <2>4, <2>5, <2>7 DEF MicrotaskFlushes
  <2>8. CASE ChainedFlush(f)
    BY <2>4, <2>5, <2>8 DEF ChainedFlush
  <2> QED BY <2>1, <2>6, <2>7, <2>8 DEF FlushStep
<1>7. CASE \E f \in Epochs : OperationStep(f)
  <2>1. PICK f \in Epochs : RejectOperation(f) \/ StartOperation(f)
    BY <1>7 DEF OperationStep
  <2> DEFINE w == writers[f]
  <2>2. w \in Writer
    BY <1>1
  <2>3. CASE RejectOperation(f)
    <3> DEFINE t == SubSeq(w.tail, 1, w.next) \o SubSeq(w.tail, w.next + 2, Len(w.tail))
               g == IF w.tail[w.next + 1].flush THEN "rejected" ELSE w.flushing
    <3>1. writers' = [writers EXCEPT ![f].tail = t, ![f].flushing = g]
      BY <2>3 DEF RejectOperation
    <3> HIDE DEF t, g
    <3>2. writers' = [writers EXCEPT ![f] = [w EXCEPT !.tail = t, !.flushing = g]]
          /\ [w EXCEPT !.tail = t, !.flushing = g].reply = w.reply
      BY <1>1, <3>1 DEF Writer
    <3> QED BY <1>5, <3>2
  <2>4. CASE StartOperation(f)
    <3> DEFINE b == (w.memo # None)
    <3>1. writers' = [writers EXCEPT ![f].try = 1, ![f].reduces = b]
      BY <2>4 DEF StartOperation
    <3> HIDE DEF b
    <3>2. writers' = [writers EXCEPT ![f] = [w EXCEPT !.try = 1, !.reduces = b]]
          /\ [w EXCEPT !.try = 1, !.reduces = b].reply = w.reply
      BY <1>1, <3>1 DEF Writer
    <3> QED BY <1>5, <3>2
  <2> QED BY <2>1, <2>3, <2>4
<1>8. CASE \E f \in Epochs : ReturnStep(f)
  <2>1. PICK f \in Epochs : CallSucceeds(f) \/ Retry(f) \/ Fail(f)
    BY <1>8 DEF ReturnStep
  <2> DEFINE w == writers[f]
  <2>2. w \in Writer
    BY <1>1
  <2>3. CASE CallSucceeds(f)
    <3>1. writers' = [writers EXCEPT ![f] = Succeeded(w)]
      BY <2>3 DEF CallSucceeds
    <3>2. Succeeded(w).reply = NoReply
      BY <2>2 DEF Succeeded, Writer
    <3> QED BY <1>2, <1>5, <3>1, <3>2
  <2>4. CASE Retry(f)
    <3>1. /\ writers' = [writers EXCEPT ![f] = [w EXCEPT !.try = 2, !.reply = NoReply]]
          /\ [w EXCEPT !.try = 2, !.reply = NoReply].reply = NoReply
      BY ZenonT(60), <1>1, <2>4 DEF Retry, Writer
    <3> QED BY <1>2, <1>5, <3>1
  <2>5. CASE Fail(f)
    <3>1. writers' = [writers EXCEPT ![f] = Ended(w, "failed")]
          /\ Ended(w, "failed").reply = NoReply
      BY <1>2, <2>5 DEF Fail, Ended, NoWriter
    <3> QED BY <1>2, <1>5, <3>1
  <2> QED BY <2>1, <2>3, <2>4, <2>5
<1>9. CASE \E p \in Producers : Open(p)
  <2> DEFINE n == stream'.epoch
  <2>1. PICK p \in Producers : Open(p)
    BY <1>9
  <2> DEFINE v == [NoWriter EXCEPT !.status = "active", !.producer = p]
  <2>2. v.reply = NoReply
    BY DEF NoWriter
  <2>3. writers' = [writers EXCEPT ![n] = v] \/ writers' = writers
    BY <2>1 DEF Open
  <2> HIDE DEF v, n
  <2> QED BY <1>1, <1>2, <2>2, <2>3
<1>10. CASE \E p \in Producers : Crash(p)
  <2>1. PICK p \in Producers : Crash(p)
    BY <1>10
  <2>2. \A f \in Epochs : writers'[f] = writers[f] \/ writers'[f] = Ended(writers[f], "gone")
    BY <2>1 DEF Crash
  <2>3. \A f \in Epochs : Ended(writers[f], "gone").reply = NoReply
    BY DEF Ended, NoWriter
  <2> QED BY <1>2, <2>2, <2>3
<1>11. CASE FoldStep
  <2>1. CASE \E f \in Epochs : BeginLoad(f) \/ ReturnLoad(f)
    <3>1. PICK f \in Epochs : BeginLoad(f) \/ ReturnLoad(f)
      BY <2>1
    <3> DEFINE w == writers[f]
               again == [before |-> w.next, loaded |-> None]
               loaded == w.load.loaded
    <3>2. \/ writers' = [writers EXCEPT ![f] = [w EXCEPT !.load = again]]
          \/ writers' = [writers EXCEPT ![f] = [w EXCEPT !.memo = loaded, !.load = None]]
      BY <3>1 DEF BeginLoad, ReturnLoad, Write
    <3> HIDE DEF again, loaded
    <3>3. [w EXCEPT !.load = again].reply = w.reply
          /\ [w EXCEPT !.memo = loaded, !.load = None].reply = w.reply
      BY <1>1 DEF Writer
    <3> QED BY <1>5, <3>2, <3>3
  <2>2. CASE \E p \in Producers : ReadAdvance(p) \/ FinishAdvance(p)
    <3>1. PICK p \in Producers : ReadAdvance(p) \/ FinishAdvance(p)
      BY <2>2
    <3> DEFINE for == hosts[p].advance.for
    <3>2. writers' = writers \/ \E load : writers' = [writers EXCEPT ![for].load = load]
      <4>1. CASE ReadAdvance(p)
        BY <4>1 DEF ReadAdvance
      <4>2. CASE FinishAdvance(p)
        BY <4>2 DEF FinishAdvance
      <4> QED BY <3>1, <4>1, <4>2
    <3>3. ASSUME NEW load, writers' = [writers EXCEPT ![for].load = load] PROVE Silent
      <4> HIDE DEF for
      <4>1. \A f \in Epochs : writers'[f] = writers[f] \/ writers'[f] = [writers[f] EXCEPT !.load = load]
        BY <1>1, <3>3
      <4>2. \A f \in Epochs : [writers[f] EXCEPT !.load = load].reply = writers[f].reply
        BY <1>1 DEF Writer
      <4> QED BY <4>1, <4>2
    <3> QED BY <1>3, <3>2, <3>3
  <2>3. CASE \E p \in Producers : \E for \in Epochs \cup {None} : StartAdvance(p, for)
    BY <1>3, <2>3 DEF StartAdvance
  <2> QED BY <1>11, <2>1, <2>2, <2>3 DEF FoldStep
<1>12. CASE Create \/ UNCHANGED vars
  BY <1>3, <1>12 DEF Create, vars
<1> HIDE DEF Silent
<1> QED BY <1>4, <1>6, <1>7, <1>8, <1>9, <1>10, <1>11, <1>12 DEF Next

\* The current writer is never refused a batch of its own that has landed
\* (ConversationRecordWriter.appendBatch tries once more, and the store answers
\* the copy with the offset of the first).
THEOREM LandedIsConfirmed == Spec => LandedBatchesAreConfirmed
<1>1. Init => WInv /\ ClaimedExists
  BY InitWInv DEF Init, StreamInit, ClaimedExists
<1>2. (WInv /\ ClaimedExists) /\ [Next]_vars => (WInv /\ ClaimedExists)'
  BY NextWInv, NextClaimedExists
<1>3. (WInv /\ ClaimedExists) /\ [Next]_vars =>
        [\A e \in Epochs :
           /\ writers[e].reply.is = "none" /\ writers'[e].reply.is = "refused"
           /\ stream.epoch = e
           => ~\E i \in Landed(e) : log[i].sequence = writers[e].next]_vars
  BY OnlyTheStoreRefuses, RefusedHasNotLanded
<1> QED BY <1>1, <1>2, <1>3, PTL DEF Spec, LandedBatchesAreConfirmed

=============================================================================
