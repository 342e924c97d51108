------------------------ MODULE FoldCheckpointsProofs ------------------------
(***************************************************************************)
(* CurrentFoldsAreTrue for every number of processes, writers, batches and *)
(* incarnations, and every size of interval and page.                      *)
(***************************************************************************)
EXTENDS FoldCheckpoints, SequenceTheorems, TLAPS

-----------------------------------------------------------------------------
(* The inductive invariant *)

Types ==
  /\ stream \in [incarnation : 0 .. MaxIncarnations, epoch : Nat]
  /\ log \in Fold
  /\ checkpoint \in Checkpoint \cup {None} /\ puts \subseteq Checkpoint
  /\ writers \in [Claims -> Writer]
  /\ hosts \in [Producers -> Host]
  /\ incarnations \in 0 .. MaxIncarnations /\ claims \in 0 .. MaxClaims
  /\ batches \in 0 .. MaxBatches

Now(incarnation) == Exists /\ incarnation = stream.incarnation

\* Nothing is of a stream that was not created, and the newest is the one there is.
CheckpointOK(k) ==
  k # None => k.incarnation <= incarnations /\ (Now(k.incarnation) => Begins(k.fold, log))
CheckpointsOK ==
  /\ stream.incarnation \in {0, incarnations}
  /\ CheckpointOK(checkpoint) /\ \A k \in puts : CheckpointOK(k)

\* A process has one writer, a claim is one writer's, and none is ahead of the row.
ClaimsOK ==
  /\ \A c \in Claims : Active(c) =>
       /\ c <= claims /\ writers[c].incarnation \in 1 .. incarnations
       /\ Now(writers[c].incarnation) => writers[c].epoch <= stream.epoch
  /\ \A c, d \in Claims : Active(c) /\ Active(d) /\ c # d =>
       /\ writers[c].process # writers[d].process
       /\ writers[c].incarnation = writers[d].incarnation => writers[c].epoch # writers[d].epoch

\* What a writer has, or will have when its answer comes.
Reduced(w) == IF w.call = "stored" THEN w.memo \o <<w.batch>> ELSE w.memo
MemoOK(w) ==
  /\ w.call # "none" => w.memo # None /\ w.batch # 0
  /\ Owns(w) => w.call # "refused" /\ (w.memo # None => Reduced(w) = log)
  /\ Now(w.incarnation) /\ w.memo # None => Begins(Reduced(w), log)
MemosOK == \A c \in Claims : Active(c) => MemoOK(writers[c])

\* A writer of the stream there is may hand its state to the host of p.
MayAdopt(p) ==
  \E c \in Claims : /\ Active(c) /\ writers[c].process = p /\ writers[c].memo # None
                    /\ Now(writers[c].incarnation)
\* The request of a host: what it was told, and what it has folded.
RequestOK(p, h) ==
  LET r == h.request
  IN  /\ r.told <= incarnations /\ CheckpointOK(r.found)
      /\ r.at \in {"meta", "slot", "check"} => r.fold = <<>>
      /\ r.at = "check" => r.found # None
      /\ r.at = "meta" /\ MayAdopt(p) => Now(r.told)
      /\ r.at # "meta" /\ MayAdopt(p) => r.use # "nothing"
      /\ r.at # "meta" /\ r.use = "suffix" => h.state # None
      /\ r.at \in {"slot", "check"} => r.use # "suffix"
      /\ r.at \in {"page", "done"} /\ r.use # "nothing" /\ (Now(h.label) \/ MayAdopt(p)) =>
           Begins(r.fold, log)
\* The request a writer waits for.
LoadOK(p, h) ==
  LET r == h.request
  IN  r.for # None =>
        /\ r.for <= claims
        /\ Active(r.for) =>
             /\ writers[r.for].process = p /\ writers[r.for].memo = None
             /\ Now(writers[r.for].incarnation) =>
                  /\ r.at = "meta" => Now(r.told)
                  /\ r.at # "meta" => Now(h.label) /\ r.use # "nothing"
                  /\ r.at # "meta" /\ r.use = "suffix" => r.base = Len(h.state)
             /\ Owns(writers[r.for]) /\ r.at = "done" => r.fold = log
HostOK(p, h) ==
  /\ h.label <= incarnations
  /\ Now(h.label) /\ h.state # None => Begins(h.state, log)
  /\ h.request # None => RequestOK(p, h) /\ LoadOK(p, h)

HInv ==
  /\ Types /\ CheckpointsOK /\ ClaimsOK /\ MemosOK
  /\ \A p \in Producers : HostOK(p, hosts[p])

-----------------------------------------------------------------------------
(* Sequences *)

\* A fold is not the absence of one.
LEMMA NoneIsNoFold == None \notin Fold /\ <<>> \in Fold
BY CheckpointAssumption DEF Fold

\* One more batch.
LEMMA OneMore ==
  ASSUME NEW fold \in Fold, NEW b \in 1 .. MaxBatches
  PROVE  /\ fold \o <<b>> \in Fold /\ Len(fold \o <<b>>) = Len(fold) + 1
         /\ \A i \in 1 .. Len(fold) : (fold \o <<b>>)[i] = fold[i]
BY DEF Fold

LEMMA BeginsLonger ==
  ASSUME NEW fold \in Fold, NEW l \in Fold, NEW b \in 1 .. MaxBatches, Begins(fold, l)
  PROVE  Begins(fold, l \o <<b>>)
<1>1. Len(fold) \in Nat /\ Len(l) \in Nat
  BY DEF Fold
<1> QED BY <1>1, OneMore DEF Begins

LEMMA BeginsItself ==
  ASSUME NEW fold \in Fold
  PROVE  Begins(fold, fold) /\ Begins(<<>>, fold)
<1>1. Len(fold) \in Nat
  BY DEF Fold
<1> QED BY <1>1 DEF Begins

\* The beginning that is as long as the whole.
LEMMA BeginsWhole ==
  ASSUME NEW fold \in Fold, NEW l \in Fold, Begins(fold, l), Len(fold) >= Len(l)
  PROVE  fold = l
<1>1. Len(fold) \in Nat /\ Len(l) \in Nat
  BY DEF Fold
<1>2. Len(fold) = Len(l) /\ \A i \in 1 .. Len(fold) : fold[i] = l[i]
  BY <1>1 DEF Begins
<1> QED BY <1>2, SeqEqual DEF Fold

\* A fold and the part of the log behind it, up to m.
LEMMA PageBehind ==
  ASSUME NEW fold \in Fold, NEW l \in Fold, NEW m \in Nat, Len(fold) <= m, m <= Len(l)
  PROVE  LET longer == fold \o SubSeq(l, Len(fold) + 1, m)
         IN  /\ longer \in Fold /\ Len(longer) = m
             /\ Begins(fold, l) => Begins(longer, l)
<1> DEFINE page == SubSeq(l, Len(fold) + 1, m)
<1>1. Len(fold) \in Nat /\ Len(l) \in Nat
  BY DEF Fold
<1>2. /\ page \in Fold /\ Len(page) = m - Len(fold)
      /\ \A i \in 1 .. m - Len(fold) : page[i] = l[Len(fold) + i]
  <2>1. \A i \in Len(fold) + 1 .. m : l[i] \in 1 .. MaxBatches
    <3>1. \A i \in 1 .. Len(l) : l[i] \in 1 .. MaxBatches
      BY ElementOfSeq DEF Fold
    <3> QED BY <1>1, <3>1
  <2>2. page = [i \in 1 .. m - Len(fold) |-> l[i + (Len(fold) + 1) - 1]]
    BY <1>1 DEF SubSeq
  <2> HIDE DEF page
  <2>3. Len(page) = m - Len(fold) /\ DOMAIN page = 1 .. m - Len(fold)
    BY <1>1, <2>2
  <2>4. \A i \in 1 .. m - Len(fold) : page[i] = l[Len(fold) + i]
    BY <1>1, <2>2
  <2>5. page \in Fold
    BY <1>1, <2>1, <2>2 DEF Fold
  <2> QED BY <2>3, <2>4, <2>5
<1> HIDE DEF page
<1>3. fold \o page \in Fold /\ Len(fold \o page) = m
  BY <1>1, <1>2 DEF Fold
<1>4. \A i \in 1 .. m : (fold \o page)[i] = IF i <= Len(fold) THEN fold[i] ELSE page[i - Len(fold)]
  BY <1>1, <1>2 DEF Fold
<1>5. Begins(fold, l) => Begins(fold \o page, l)
  BY <1>1, <1>2, <1>3, <1>4 DEF Begins
<1> QED BY <1>3, <1>5 DEF page

-----------------------------------------------------------------------------
(* What a step leaves as it is *)

\* The host of a process that a step does not touch stays sound if the step makes
\* no stream current, keeps beginnings beginnings, lets nobody adopt who did not
\* before, and changes nothing for the writer that waits for the host.
LEMMA HostKept ==
  ASSUME HInv, Types', NEW p \in Producers, hosts'[p] = hosts[p],
         incarnations <= incarnations', claims <= claims',
         \A i \in 1 .. incarnations : Now(i)' => Now(i),
         \A i \in 1 .. incarnations, fold \in Fold :
           Now(i)' /\ Begins(fold, log) => Begins(fold, log'),
         MayAdopt(p)' => MayAdopt(p) /\ stream'.incarnation = stream.incarnation,
         \A c \in Claims : c <= claims /\ Active(c)' =>
           /\ Active(c)
           /\ writers[c].memo = None /\ writers[c].process = p =>
                /\ writers'[c].process = p /\ writers'[c].memo = None
                /\ writers'[c].incarnation = writers[c].incarnation
                /\ Now(writers[c].incarnation)' =>
                     Now(writers[c].incarnation) /\ stream'.incarnation = stream.incarnation
                /\ Owns(writers[c])' => Owns(writers[c]) /\ log' = log
  PROVE  HostOK(p, hosts[p])'
<1> DEFINE h == hosts[p]
           r == h.request
<1>0. h' = h
  OBVIOUS
<1>1. /\ h \in Host /\ (r # None => r \in Request) /\ h.label \in Nat
      /\ incarnations \in Nat /\ incarnations' \in Nat /\ claims \in Nat /\ claims' \in Nat
      /\ stream.incarnation \in Nat /\ stream'.incarnation \in Nat
      /\ HostOK(p, h)
  BY SMTT(40), CheckpointAssumption DEF HInv, Types, Host
<1>2. stream.incarnation <= incarnations
  BY <1>1 DEF HInv, CheckpointsOK
<1>3. /\ \A i \in 0 .. incarnations : Now(i)' => Now(i)
      /\ \A i \in 0 .. incarnations, fold \in Fold :
           Now(i)' /\ Begins(fold, log) => Begins(fold, log')
  BY DEF Now, Exists
<1> HIDE DEF h
<1>4. h.label \in 0 .. incarnations /\ hosts'[p] = h
  BY <1>1 DEF HostOK, h
<1>5. Now(h.label)' /\ h.state # None => Begins(h.state, log')
  BY <1>0, <1>1, <1>3, <1>4 DEF HostOK, Host
<1>6. ASSUME r # None PROVE RequestOK(p, h) /\ LoadOK(p, h) /\ r \in Request
  BY <1>1, <1>6 DEF HostOK
<1>7. ASSUME r # None PROVE RequestOK(p, hosts[p])'
  <2>1. r.told <= incarnations' /\ r.told \in Nat
    BY <1>0, <1>1, <1>6, <1>7 DEF RequestOK, Request
  <2>2. CheckpointOK(r.found)'
    BY <1>0, <1>1, <1>3, <1>6, <1>7 DEF RequestOK, Request, CheckpointOK, Checkpoint
  <2>3. MayAdopt(p)' => /\ Now(r.told) => Now(r.told)'
                        /\ \A fold \in Fold : Begins(fold, log) => Begins(fold, log')
    <3>1. MayAdopt(p) => Exists
      BY DEF MayAdopt, Now
    <3>2. MayAdopt(p)' => Now(stream.incarnation)'
      BY <3>1 DEF Now, Exists
    <3> QED BY <1>0, <1>1, <1>2, <1>3, <3>1, <3>2 DEF Now, Exists
  <2>4. r.at = "meta" /\ MayAdopt(p)' => Now(r.told)'
    BY <1>0, <1>6, <1>7, <2>3 DEF RequestOK
  <2>5. r.at \in {"page", "done"} /\ r.use # "nothing" /\ (Now(h.label)' \/ MayAdopt(p)') =>
           Begins(r.fold, log')
    BY <1>0, <1>3, <1>4, <1>6, <1>7, <2>3 DEF RequestOK, Request
  <2> QED BY <1>0, <1>4, <1>6, <1>7, <2>1, <2>2, <2>4, <2>5 DEF RequestOK
<1>8. ASSUME r # None, r.for # None PROVE LoadOK(p, hosts[p])'
  <2>1. r.for \in Claims /\ r.for <= claims /\ r.for <= claims'
    BY <1>0, <1>1, <1>6, <1>8 DEF LoadOK, Request, Claims
  <2>2. ASSUME Active(r.for)'
        PROVE  /\ writers'[r.for].process = p /\ writers'[r.for].memo = None
               /\ Now(writers[r.for].incarnation)' =>
                    /\ r.at = "meta" => Now(r.told)'
                    /\ r.at # "meta" => Now(h.label)' /\ r.use # "nothing"
                    /\ r.at # "meta" /\ r.use = "suffix" => r.base = Len(h.state)
               /\ Owns(writers[r.for])' /\ r.at = "done" => r.fold = log'
    <3>1. /\ Active(r.for) /\ writers[r.for].memo = None /\ writers[r.for].process = p
      BY <1>0, <1>6, <1>8, <2>1, <2>2 DEF LoadOK
    <3>2. /\ writers'[r.for].process = p /\ writers'[r.for].memo = None
          /\ writers'[r.for].incarnation = writers[r.for].incarnation
          /\ Now(writers[r.for].incarnation)' =>
               Now(writers[r.for].incarnation) /\ stream'.incarnation = stream.incarnation
          /\ Owns(writers[r.for])' => Owns(writers[r.for]) /\ log' = log
      BY <1>0, <1>4, <2>1, <2>2, <3>1
    <3>3. Now(writers[r.for].incarnation)' => \A i : Now(i) => Now(i)'
      BY <3>2 DEF Now, Exists
    <3> QED BY <1>0, <1>6, <1>8, <2>1, <3>1, <3>2, <3>3 DEF LoadOK
  <2> QED BY <1>0, <1>4, <1>8, <2>1, <2>2 DEF LoadOK
<1>9. r # None /\ r.for = None => LoadOK(p, hosts[p])'
  BY <1>0, <1>4 DEF LoadOK
<1> QED BY <1>0, <1>1, <1>4, <1>5, <1>7, <1>8, <1>9 DEF HostOK

\* Who writes under which claim does not change with the call.
LEMMA ClaimsKept ==
  ASSUME HInv, UNCHANGED <<stream, incarnations, claims>>,
         \A d \in Claims : /\ writers'[d].process = writers[d].process
                           /\ writers'[d].incarnation = writers[d].incarnation
                           /\ writers'[d].epoch = writers[d].epoch
  PROVE  ClaimsOK'
<1>1. ASSUME NEW d \in Claims, Active(d)'
      PROVE  /\ d <= claims' /\ writers'[d].incarnation \in 1 .. incarnations'
             /\ Now(writers[d].incarnation)' => writers'[d].epoch <= stream'.epoch
  BY <1>1 DEF HInv, ClaimsOK, Active, Now, Exists
<1>2. ASSUME NEW d \in Claims, NEW e \in Claims, Active(d)', Active(e)', d # e
      PROVE  /\ writers'[d].process # writers'[e].process
             /\ writers'[d].incarnation = writers'[e].incarnation =>
                  writers'[d].epoch # writers'[e].epoch
  BY <1>2 DEF HInv, ClaimsOK, Active
<1> QED BY <1>1, <1>2 DEF ClaimsOK

\* A step of the host of one process.
LEMMA HostMoves ==
  ASSUME HInv, NEW p \in Producers, NEW h \in Host, SetHost(p, h), StoreUnchanged,
         UNCHANGED writers, HostOK(p, h)
  PROVE  HInv'
<1>1. /\ UNCHANGED <<stream, log, checkpoint, puts, writers, incarnations, claims, batches>>
      /\ hosts' = [hosts EXCEPT ![p] = h] /\ hosts \in [Producers -> Host]
  BY DEF SetHost, StoreUnchanged, HInv, Types
<1>2. Types'
  BY <1>1 DEF HInv, Types
<1>3. CheckpointsOK' /\ ClaimsOK' /\ MemosOK'
  <2>1. CheckpointsOK'
    BY <1>1 DEF HInv, CheckpointsOK, CheckpointOK, Now, Exists
  <2>2. ClaimsOK'
    BY <1>1 DEF HInv, ClaimsOK, Active, Now, Exists
  <2>3. MemosOK'
    BY <1>1 DEF HInv, MemosOK, MemoOK, Reduced, Owns, Active, Now, Exists
  <2> QED BY <2>1, <2>2, <2>3
<1>4. ASSUME NEW q \in Producers PROVE HostOK(q, hosts[q])'
  <2>1. CASE q = p
    <3>1. hosts'[q] = h
      BY SMTT(40), <1>1, <2>1
    <3> QED BY <1>1, <2>1, <3>1
         DEF HostOK, RequestOK, LoadOK, MayAdopt, CheckpointOK, Owns, Active, Now, Exists
  <2>2. CASE q # p
    <3>1. hosts'[q] = hosts[q] /\ HostOK(q, hosts[q])
      BY <1>1, <2>2 DEF HInv
    <3> QED BY <1>1, <3>1
         DEF HostOK, RequestOK, LoadOK, MayAdopt, CheckpointOK, Owns, Active, Now, Exists
  <2> QED BY <2>1, <2>2
<1> QED BY <1>2, <1>3, <1>4 DEF HInv

-----------------------------------------------------------------------------
(* The awaits of a request *)

\* What a step of a host starts from.
LEMMA HostParts ==
  ASSUME HInv, NEW p \in Producers
  PROVE  /\ hosts[p] \in Host /\ HostOK(p, hosts[p]) /\ log \in Fold
         /\ hosts[p].request # None =>
              /\ hosts[p].request \in Request
              /\ RequestOK(p, hosts[p]) /\ LoadOK(p, hosts[p])
         /\ stream.incarnation \in 0 .. MaxIncarnations /\ incarnations \in Nat
         /\ stream.incarnation <= incarnations /\ claims \in Nat
BY CheckpointAssumption DEF HInv, Types, Host, HostOK, CheckpointsOK

LEMMA ReadMetaKeeps ==
  ASSUME HInv, NEW p \in Producers, NEW for \in Claims \cup {None}, ReadMeta(p, for)
  PROVE  HInv'
<1> DEFINE r == [at |-> "meta", for |-> for, told |-> stream.incarnation, found |-> None,
                 fold |-> <<>>, base |-> 0, use |-> "nothing"]
           h == [hosts[p] EXCEPT !.request = r]
<1>1. /\ SetHost(p, h) /\ StoreUnchanged /\ UNCHANGED writers
      /\ for # None => writers[for].process = p /\ writers[for].memo = None
  BY DEF ReadMeta
<1>2. r \in Request
  BY HostParts, NoneIsNoFold DEF Request
<1> HIDE DEF r
<1>3. h \in Host /\ h.request = r /\ h.label = hosts[p].label /\ h.state = hosts[p].state
  BY <1>2, HostParts DEF Host
<1>4. RequestOK(p, h)
  <2>1. MayAdopt(p) => Exists
    BY DEF MayAdopt, Now
  <2> QED BY <1>3, <2>1, HostParts DEF r, RequestOK, CheckpointOK, Now
<1>5. LoadOK(p, h)
  <2>1. for # None => (Active(for) => for <= claims)
    BY DEF HInv, ClaimsOK
  <2>2. for # None => Active(for)
    BY <1>1, CheckpointAssumption DEF Active
  <2> QED BY <1>1, <1>3, <2>1, <2>2 DEF r, LoadOK, Now, Owns, Exists
<1>6. HostOK(p, h)
  BY <1>3, <1>4, <1>5, HostParts DEF HostOK
<1> HIDE DEF h
<1> QED BY <1>1, <1>3, <1>6, HostMoves

LEMMA TakeMetaKeeps ==
  ASSUME HInv, NEW p \in Producers, TakeMeta(p)
  PROVE  HInv'
<1> DEFINE h == hosts[p]
           r == h.request
           known == r.told # 0 /\ h.label = r.told /\ h.state # None
           s == [r EXCEPT !.at = "page", !.told = 0, !.use = "suffix", !.fold = h.state,
                          !.base = Len(h.state)]
           t == [r EXCEPT !.at = "slot", !.told = 0,
                          !.use = IF r.told = 0 THEN "nothing" ELSE "load"]
           g == IF known THEN [h EXCEPT !.request = s]
                ELSE [state |-> None, label |-> r.told, request |-> t]
<1>1. /\ SetHost(p, g) /\ StoreUnchanged /\ UNCHANGED writers /\ r # None /\ r.at = "meta"
  BY DEF TakeMeta
<1>2. /\ h \in Host /\ HostOK(p, h) /\ r \in Request /\ RequestOK(p, h) /\ LoadOK(p, h)
  BY <1>1, HostParts
<1>0. 0 \in 0 .. MaxIncarnations
  <2>1. MaxIncarnations \in Nat
    BY CheckpointAssumption
  <2> QED BY <2>1
<1> HIDE DEF h, g
<1>3. CASE known
  <2>1. h.state \in Fold /\ Len(h.state) \in Nat
    BY <1>2, <1>3 DEF Host, Fold
  <2>2. s \in Request
    BY <1>0, <1>2, <2>1 DEF Request
  <2>3. /\ s.at = "page" /\ s.told = 0 /\ s.use = "suffix" /\ s.fold = h.state
        /\ s.base = Len(h.state) /\ s.for = r.for /\ s.found = r.found
    BY <1>2 DEF Request
  <2> HIDE DEF s
  <2>4. g \in Host /\ g.request = s /\ g.label = h.label /\ g.state = h.state
    BY <1>2, <1>3, <2>2 DEF g, Host
  <2>5. MayAdopt(p) => Now(h.label)
    BY <1>1, <1>2, <1>3 DEF RequestOK
  <2>6. RequestOK(p, g)
    BY <1>1, <1>2, <1>3, <2>3, <2>4, <2>5, HostParts DEF RequestOK, HostOK
  <2>7. LoadOK(p, g)
    BY <1>1, <1>2, <1>3, <2>3, <2>4 DEF LoadOK
  <2>8. HostOK(p, g)
    BY <1>2, <2>4, <2>6, <2>7 DEF HostOK
  <2> QED BY <1>1, <2>4, <2>8, HostMoves
<1>4. CASE ~known
  <2>1. /\ t \in Request /\ t.at = "slot" /\ t.told = 0 /\ t.for = r.for /\ t.found = r.found
        /\ t.fold = r.fold /\ t.use = IF r.told = 0 THEN "nothing" ELSE "load"
    BY <1>0, <1>2 DEF Request
  <2> HIDE DEF t
  <2>2. g \in Host /\ g.request = t /\ g.label = r.told /\ g.state = None
    BY <1>2, <1>4, <2>1 DEF g, Host, Request
  <2>3. RequestOK(p, g)
    BY <1>1, <1>2, <2>1, <2>2, HostParts DEF RequestOK, Now, Exists
  <2>4. LoadOK(p, g)
    BY <1>1, <1>2, <2>1, <2>2 DEF LoadOK, Now, Exists
  <2>5. HostOK(p, g)
    BY <1>2, <2>2, <2>3, <2>4 DEF HostOK, RequestOK
  <2> QED BY <1>1, <2>2, <2>5, HostMoves
<1> QED BY <1>3, <1>4

LEMMA ReadSlotKeeps ==
  ASSUME HInv, NEW p \in Producers, ReadSlot(p)
  PROVE  HInv'
<1> DEFINE h == hosts[p]
           r == h.request
           t == IF checkpoint = None THEN [r EXCEPT !.at = "page"]
                ELSE [r EXCEPT !.at = "check", !.found = checkpoint]
           g == [h EXCEPT !.request = t]
<1>1. /\ SetHost(p, g) /\ StoreUnchanged /\ UNCHANGED writers /\ r # None /\ r.at = "slot"
  BY DEF ReadSlot
<1>2. /\ h \in Host /\ HostOK(p, h) /\ r \in Request /\ RequestOK(p, h) /\ LoadOK(p, h)
      /\ log \in Fold
  BY <1>1, HostParts
<1> HIDE DEF h, g
<1>3. /\ t \in Request /\ t.at \in {"page", "check"} /\ t.told = r.told /\ t.for = r.for
      /\ t.fold = r.fold /\ t.use = r.use /\ t.base = r.base /\ CheckpointOK(t.found)
      /\ t.at = "check" => t.found # None
  BY <1>2 DEF Request, HInv, Types, CheckpointsOK, RequestOK
<1> HIDE DEF t
<1>4. g \in Host /\ g.request = t /\ g.label = h.label /\ g.state = h.state
  BY <1>2, <1>3 DEF g, Host
<1>5. r.fold = <<>> /\ Begins(r.fold, log)
  BY <1>1, <1>2, BeginsItself DEF RequestOK
<1>6. RequestOK(p, g)
  BY <1>1, <1>2, <1>3, <1>4, <1>5 DEF RequestOK
<1>7. LoadOK(p, g)
  BY <1>1, <1>2, <1>3, <1>4 DEF LoadOK
<1>8. HostOK(p, g)
  BY <1>2, <1>4, <1>6, <1>7 DEF HostOK
<1> QED BY <1>1, <1>4, <1>8, HostMoves

LEMMA CheckSlotKeeps ==
  ASSUME HInv, NEW p \in Producers, CheckSlot(p)
  PROVE  HInv'
<1> DEFINE h == hosts[p]
           r == h.request
<1>1. r # None /\ r.at = "check" /\ StoreUnchanged /\ UNCHANGED writers
  BY DEF CheckSlot
<1>2. /\ h \in Host /\ HostOK(p, h) /\ r \in Request /\ RequestOK(p, h) /\ LoadOK(p, h)
      /\ log \in Fold
  BY SMTT(40), <1>1, HostParts
<1>3. PICK fold \in {<<>>} \cup (IF Usable(r.found) THEN {r.found.fold} ELSE {}) :
        SetHost(p, [h EXCEPT !.request = [r EXCEPT !.at = "page", !.found = None, !.fold = fold]])
  BY DEF CheckSlot
<1> DEFINE t == [r EXCEPT !.at = "page", !.found = None, !.fold = fold]
           g == [h EXCEPT !.request = t]
<1>4. fold \in Fold /\ Begins(fold, log)
  <2>1. CASE fold = <<>>
    BY <1>2, <2>1, NoneIsNoFold, BeginsItself
  <2>2. CASE Usable(r.found) /\ fold = r.found.fold
    <3>1. r.found # None
      BY <1>1, <1>2 DEF RequestOK
    <3> QED BY <1>2, <2>2, <3>1 DEF RequestOK, Request, Checkpoint, CheckpointOK, Usable, Now
  <2> QED BY <1>3, <2>1, <2>2
<1> HIDE DEF h
<1>5. /\ t \in Request /\ t.at = "page" /\ t.told = r.told /\ t.for = r.for
      /\ t.fold = fold /\ t.use = r.use /\ t.base = r.base /\ t.found = None
  BY <1>2, <1>4 DEF Request
<1> HIDE DEF t
<1>6. g \in Host /\ g.request = t /\ g.label = h.label /\ g.state = h.state
  BY <1>2, <1>5 DEF Host
<1>7. SetHost(p, g)
  BY <1>3 DEF t
<1> HIDE DEF g
<1>8. RequestOK(p, g)
  BY <1>1, <1>2, <1>4, <1>5, <1>6 DEF RequestOK, CheckpointOK
<1>9. LoadOK(p, g)
  BY <1>1, <1>2, <1>5, <1>6 DEF LoadOK
<1>10. HostOK(p, g)
  BY <1>2, <1>6, <1>8, <1>9 DEF HostOK
<1> QED BY <1>1, <1>6, <1>7, <1>10, HostMoves

LEMMA ReadPageKeeps ==
  ASSUME HInv, NEW p \in Producers, ReadPage(p)
  PROVE  HInv'
<1> DEFINE h == hosts[p]
           r == h.request
           end == Len(r.fold) + PageSize
           m == IF end < Len(log) THEN end ELSE Len(log)
           fold == r.fold \o SubSeq(log, Len(r.fold) + 1, m)
           t == [r EXCEPT !.fold = fold, !.at = IF end < Len(log) THEN "page" ELSE "done"]
           s == [r EXCEPT !.at = "done"]
           g == [h EXCEPT !.request =
                   IF ~Exists THEN s ELSE IF Len(r.fold) > Len(log) THEN None ELSE t]
<1>1. SetHost(p, g) /\ StoreUnchanged /\ UNCHANGED writers /\ r # None /\ r.at = "page"
  BY DEF ReadPage
<1>2. /\ h \in Host /\ HostOK(p, h) /\ r \in Request /\ RequestOK(p, h) /\ LoadOK(p, h)
      /\ log \in Fold
  BY <1>1, HostParts
<1>3. Len(r.fold) \in Nat /\ Len(log) \in Nat /\ end \in Nat /\ Len(r.fold) <= end /\ r.fold \in Fold
  BY <1>2, CheckpointAssumption DEF Request, Fold
<1> HIDE DEF h, g
<1>4. CASE ~Exists
  <2>1. /\ s \in Request /\ s.at = "done" /\ s.told = r.told /\ s.for = r.for
        /\ s.fold = r.fold /\ s.use = r.use /\ s.base = r.base /\ s.found = r.found
    BY <1>2 DEF Request
  <2> HIDE DEF s
  <2>2. g \in Host /\ g.request = s /\ g.label = h.label /\ g.state = h.state
    BY <1>2, <1>4, <2>1 DEF g, Host
  <2>3. RequestOK(p, g) /\ LoadOK(p, g)
    BY <1>1, <1>2, <1>4, <2>1, <2>2 DEF RequestOK, LoadOK, Owns, Now
  <2>4. HostOK(p, g)
    BY <1>2, <2>2, <2>3 DEF HostOK
  <2> QED BY <1>1, <2>2, <2>4, HostMoves
<1>5. CASE Exists /\ Len(r.fold) > Len(log)
  <2>1. g \in Host /\ g.request = None /\ g.label = h.label /\ g.state = h.state
    BY <1>2, <1>5 DEF g, Host
  <2>2. HostOK(p, g)
    BY <1>2, <2>1 DEF HostOK
  <2> QED BY <1>1, <2>1, <2>2, HostMoves
<1>6. CASE Exists /\ ~(Len(r.fold) > Len(log))
  <2>1. m \in Nat /\ Len(r.fold) <= m /\ m <= Len(log) /\ (~(end < Len(log)) => m = Len(log))
    BY <1>3, <1>6
  <2> HIDE DEF m, end
  <2>2. fold \in Fold /\ Len(fold) = m /\ (Begins(r.fold, log) => Begins(fold, log))
    BY <1>2, <1>3, <2>1, PageBehind
  <2> HIDE DEF fold
  <2>3. /\ t \in Request /\ t.at = (IF end < Len(log) THEN "page" ELSE "done") /\ t.told = r.told
        /\ t.for = r.for /\ t.fold = fold /\ t.use = r.use /\ t.base = r.base /\ t.found = r.found
    BY <1>2, <2>2 DEF Request
  <2> HIDE DEF t
  <2>4. g \in Host /\ g.request = t /\ g.label = h.label /\ g.state = h.state
    BY <1>2, <1>6, <2>3 DEF g, Host
  <2>5. RequestOK(p, g)
    BY <1>1, <1>2, <2>2, <2>3, <2>4 DEF RequestOK
  <2>6. t.at = "done" /\ Begins(r.fold, log) => fold = log
    BY <1>2, <1>3, <2>1, <2>2, <2>3, BeginsWhole
  <2>7. LoadOK(p, g)
    <3>1. Owns(writers[r.for]) => Now(writers[r.for].incarnation)
      BY DEF Owns, Now
    <3>2. Now(h.label) /\ r.use # "nothing" => Begins(r.fold, log)
      BY <1>1, <1>2 DEF RequestOK
    <3> QED BY <1>1, <1>2, <2>3, <2>4, <2>6, <3>1, <3>2 DEF LoadOK
  <2>8. HostOK(p, g)
    BY <1>2, <2>4, <2>5, <2>7 DEF HostOK
  <2> QED BY <1>1, <2>4, <2>8, HostMoves
<1> QED BY <1>4, <1>5, <1>6

\* The host has what it answered, and the writer that waited for it is at the head.
LEMMA FinishRequestKeeps ==
  ASSUME HInv, NEW p \in Producers, FinishRequest(p)
  PROVE  HInv'
<1> DEFINE h == hosts[p]
           r == h.request
           c == r.for
           loads == c # None /\ Active(c)
           g == [h EXCEPT !.state = Held(h), !.request = None]
<1>1. /\ hosts' = [hosts EXCEPT ![p] = g] /\ hosts \in [Producers -> Host]
      /\ UNCHANGED <<stream, log, checkpoint, puts, incarnations, claims, batches>>
      /\ writers' = IF loads THEN [writers EXCEPT ![c].memo = Answer(h)] ELSE writers
      /\ r # None /\ r.at = "done" /\ writers \in [Claims -> Writer]
  BY DEF FinishRequest, SetHost, StoreUnchanged, HInv, Types
<1>2. /\ h \in Host /\ HostOK(p, h) /\ r \in Request /\ RequestOK(p, h) /\ LoadOK(p, h)
      /\ log \in Fold
  BY <1>1, HostParts
<1> HIDE DEF h, g
<1>3. /\ Held(h) \in Fold \cup {None} /\ Answer(h) \in Fold
      /\ r.use # "nothing" => Answer(h) = Held(h)
  BY <1>1, <1>2 DEF Held, Answer, Host, Request, RequestOK
<1>4. g \in Host /\ g.state = Held(h) /\ g.label = h.label /\ g.request = None
  BY <1>2, <1>3 DEF g, Host
<1>5. Now(h.label) /\ Held(h) # None => Begins(Held(h), log)
  BY <1>1, <1>2 DEF Held, HostOK, RequestOK, Request
<1>6. ASSUME loads
      PROVE  /\ c \in Claims /\ writers[c].process = p /\ writers[c].memo = None
             /\ writers[c].call = "none"
             /\ Now(writers[c].incarnation) => Begins(Answer(h), log)
             /\ Owns(writers[c]) => Answer(h) = log
  <2>1. /\ c \in Claims /\ writers[c].process = p /\ writers[c].memo = None
        /\ MemoOK(writers[c])
    BY <1>2, <1>6 DEF LoadOK, Request, HInv, MemosOK
  <2>2. ASSUME Now(writers[c].incarnation)
        PROVE  Begins(Answer(h), log)
    <3>1. Now(h.label) /\ r.use # "nothing"
      BY <1>1, <1>2, <1>6, <2>2 DEF LoadOK
    <3>2. Held(h) # None
      BY <1>1, <1>2, <1>3, <3>1, NoneIsNoFold
    <3> QED BY <1>3, <1>5, <3>1, <3>2
  <2>3. ASSUME Owns(writers[c])
        PROVE  Answer(h) = log
    <3>1. Now(writers[c].incarnation)
      BY <2>3 DEF Owns, Now
    <3>2. /\ Now(h.label) /\ r.use # "nothing" /\ r.fold = log
          /\ r.use = "suffix" => r.base = Len(h.state) /\ h.state # None
      BY <1>1, <1>2, <1>6, <2>3, <3>1 DEF LoadOK, RequestOK
    <3>3. CASE r.use = "load"
      BY <1>3, <3>2, <3>3 DEF Held
    <3>4. CASE r.use = "suffix"
      <4>1. h.state \in Fold /\ Begins(h.state, log) /\ Len(log) \in Nat /\ Len(h.state) \in Nat
        BY <1>2, <3>2, <3>4 DEF HostOK, Host, Fold
      <4>2. CASE Len(log) > Len(h.state)
        BY <1>3, <3>2, <3>4, <4>2 DEF Held
      <4>3. CASE ~(Len(log) > Len(h.state))
        <5>1. h.state = log
          BY <1>2, <4>1, <4>3, BeginsWhole
        <5> QED BY <1>3, <3>2, <3>4, <4>3, <5>1 DEF Held
      <4> QED BY <4>2, <4>3
    <3> QED BY <1>2, <3>2, <3>3, <3>4 DEF Request
  <2>4. writers[c].call = "none"
    BY <2>1, <1>1 DEF MemoOK, Writer
  <2> QED BY <2>1, <2>2, <2>3, <2>4
<1>7. /\ writers' \in [Claims -> Writer]
      /\ \A d \in Claims : ~(loads /\ d = c) => writers'[d] = writers[d]
      /\ loads => writers'[c] = [writers[c] EXCEPT !.memo = Answer(h)]
  BY <1>1, <1>3, <1>6 DEF Writer
<1> HIDE DEF c, loads
<1>8. \A d \in Claims :
        /\ writers'[d].process = writers[d].process /\ writers'[d].call = writers[d].call
        /\ writers'[d].incarnation = writers[d].incarnation
        /\ writers'[d].epoch = writers[d].epoch /\ writers'[d].batch = writers[d].batch
        /\ writers'[d].memo = IF loads /\ d = c THEN Answer(h) ELSE writers[d].memo
  BY <1>1, <1>6, <1>7 DEF Writer
<1>9. Types'
  BY <1>1, <1>4, <1>7 DEF HInv, Types
<1>10. CheckpointsOK'
  BY <1>1 DEF HInv, CheckpointsOK, CheckpointOK, Now, Exists
<1>11. ClaimsOK'
  BY <1>1, <1>8, ClaimsKept
<1>12. MemosOK'
  <2>1. ASSUME NEW d \in Claims, Active(d)'
        PROVE  MemoOK(writers[d])'
    <3>1. CASE loads /\ d = c
      BY <1>1, <1>3, <1>6, <1>8, <3>1, NoneIsNoFold DEF MemoOK, Reduced, Owns, Now, Exists
    <3>2. CASE ~(loads /\ d = c)
      BY <1>1, <1>7, <2>1, <3>2 DEF HInv, MemosOK, MemoOK, Active, Reduced, Owns, Now, Exists
    <3> QED BY <3>1, <3>2
  <2> QED BY <2>1 DEF MemosOK
<1>13. ASSUME NEW q \in Producers PROVE HostOK(q, hosts[q])'
  <2>1. CASE q = p
    <3>1. hosts'[q] = g
      BY <1>1, <2>1
    <3> QED BY <1>1, <1>2, <1>4, <1>5, <3>1 DEF HostOK, Now, Exists
  <2>2. CASE q # p
    <3>1. hosts'[q] = hosts[q]
      BY <1>1, <2>2
    <3>2. \A d \in Claims : writers[d].process = q =>
            writers'[d] = writers[d] /\ writers'[d].memo = writers[d].memo
      BY <1>6, <1>7, <2>2
    <3>3. MayAdopt(q)' => MayAdopt(q) /\ stream'.incarnation = stream.incarnation
      BY <1>1, <1>8, <3>2 DEF MayAdopt, Active, Now, Exists
    <3>4. \A d \in Claims : d <= claims /\ Active(d)' =>
           /\ Active(d)
           /\ writers[d].memo = None /\ writers[d].process = q =>
                /\ writers'[d].process = q /\ writers'[d].memo = None
                /\ writers'[d].incarnation = writers[d].incarnation
                /\ Now(writers[d].incarnation)' =>
                     Now(writers[d].incarnation) /\ stream'.incarnation = stream.incarnation
                /\ Owns(writers[d])' => Owns(writers[d]) /\ log' = log
      BY <1>1, <1>8, <3>2 DEF Active, Owns, Now, Exists
    <3>5. incarnations \in Nat /\ claims \in Nat
      BY HostParts
    <3> QED BY <1>1, <1>9, <3>1, <3>3, <3>4, <3>5, HostKept DEF Now, Exists, Begins
  <2> QED BY <2>1, <2>2
<1> QED BY <1>9, <1>10, <1>11, <1>12, <1>13 DEF HInv

-----------------------------------------------------------------------------
(* The calls of a writer *)

\* What a step of a writer starts from.
LEMMA WriterParts ==
  ASSUME HInv, NEW c \in Claims, Active(c)
  PROVE  /\ writers[c] \in Writer /\ writers[c].process \in Producers
         /\ writers \in [Claims -> Writer] /\ hosts \in [Producers -> Host]
         /\ MemoOK(writers[c]) /\ log \in Fold /\ incarnations \in Nat /\ claims \in Nat
BY HostParts, CheckpointAssumption DEF HInv, Types, MemosOK, Writer, Active

\* A step of writers that lets nobody adopt, and after which the ones that have
\* no state are where they were, leaves a host sound that it does not touch.
LEMMA HostWaits ==
  ASSUME HInv, Types', NEW p \in Producers, hosts'[p] = hosts[p],
         UNCHANGED <<stream, log, incarnations, claims>>,
         \A d \in Claims :
           writers'[d] = writers[d] \/ writers'[d].process = None
           \/ /\ writers[d].memo # None
              /\ writers'[d].process = writers[d].process
              /\ writers'[d].incarnation = writers[d].incarnation
  PROVE  HostOK(p, hosts[p])'
<1>1. MayAdopt(p)' => MayAdopt(p) /\ stream'.incarnation = stream.incarnation
  BY DEF MayAdopt, Active, Now, Exists
<1>2. \A d \in Claims : d <= claims /\ Active(d)' =>
        /\ Active(d)
        /\ writers[d].memo = None /\ writers[d].process = p =>
             /\ writers'[d].process = p /\ writers'[d].memo = None
             /\ writers'[d].incarnation = writers[d].incarnation
             /\ Now(writers[d].incarnation)' =>
                  Now(writers[d].incarnation) /\ stream'.incarnation = stream.incarnation
             /\ Owns(writers[d])' => Owns(writers[d]) /\ log' = log
  BY DEF Active, Owns, Now, Exists
<1>3. incarnations \in Nat /\ claims \in Nat
  BY HostParts
<1> QED BY <1>1, <1>2, <1>3, HostKept DEF Now, Exists, Begins

LEMMA SendBatchKeeps ==
  ASSUME HInv, NEW c \in Claims, SendBatch(c)
  PROVE  HInv'
<1> DEFINE w == writers[c]
<1>1. /\ Active(c) /\ w.memo # None /\ w.call = "none" /\ batches < MaxBatches
      /\ batches' = batches + 1
      /\ writers' = [writers EXCEPT ![c].call = "sent", ![c].batch = batches']
      /\ UNCHANGED <<stream, log, checkpoint, puts, hosts, incarnations, claims>>
  BY DEF SendBatch
<1>2. batches' \in 1 .. MaxBatches /\ batches' \in 0 .. MaxBatches
  BY <1>1, CheckpointAssumption DEF HInv, Types
<1>3. /\ writers' \in [Claims -> Writer]
      /\ \A d \in Claims : d # c => writers'[d] = writers[d]
      /\ writers'[c] = [w EXCEPT !.call = "sent", !.batch = batches']
      /\ w \in Writer /\ MemoOK(w)
  BY ZenonT(60), <1>1, <1>2, WriterParts DEF Writer
<1> HIDE DEF w
<1>4. /\ writers'[c].process = w.process /\ writers'[c].incarnation = w.incarnation
      /\ writers'[c].epoch = w.epoch /\ writers'[c].memo = w.memo
      /\ writers'[c].call = "sent" /\ writers'[c].batch # 0
  BY <1>2, <1>3 DEF Writer
<1>5. Types'
  BY <1>1, <1>2, <1>3 DEF HInv, Types
<1>6. CheckpointsOK'
  BY <1>1 DEF HInv, CheckpointsOK, CheckpointOK, Now, Exists
<1>7. \A d \in Claims : /\ writers'[d].process = writers[d].process
                        /\ writers'[d].incarnation = writers[d].incarnation
                        /\ writers'[d].epoch = writers[d].epoch
  BY <1>3, <1>4 DEF w
<1>8. ClaimsOK'
  BY <1>1, <1>7, ClaimsKept
<1>9. MemosOK'
  <2>1. MemoOK(writers[c])'
    BY <1>1, <1>3, <1>4 DEF MemoOK, Reduced, Owns, Now, Exists
  <2>2. \A d \in Claims : d # c /\ Active(d)' => MemoOK(writers[d])'
    BY <1>1, <1>3 DEF HInv, MemosOK, MemoOK, Active, Reduced, Owns, Now, Exists
  <2> QED BY <2>1, <2>2 DEF MemosOK
<1>10. ASSUME NEW p \in Producers PROVE HostOK(p, hosts[p])'
  <2>1. \A d \in Claims :
           writers'[d] = writers[d] \/ writers'[d].process = None
           \/ /\ writers[d].memo # None
              /\ writers'[d].process = writers[d].process
              /\ writers'[d].incarnation = writers[d].incarnation
    BY <1>1, <1>3, <1>7 DEF w
  <2> QED BY <1>1, <1>5, <2>1, HostWaits
<1> QED BY <1>5, <1>6, <1>8, <1>9, <1>10 DEF HInv

\* Only the owner's batch lands, and the owner is one: nobody else is at the head.
LEMMA ExecuteKeeps ==
  ASSUME HInv, NEW c \in Claims, Execute(c)
  PROVE  HInv'
<1> DEFINE w == writers[c]
           call == IF Owns(w) THEN "stored" ELSE "refused"
<1>1. /\ Active(c) /\ w.call = "sent"
      /\ log' = IF Owns(w) THEN log \o <<w.batch>> ELSE log
      /\ writers' = [writers EXCEPT ![c].call = call]
      /\ UNCHANGED <<stream, checkpoint, puts, hosts, incarnations, claims, batches>>
  BY DEF Execute
<1>2. /\ w \in Writer /\ MemoOK(w) /\ log \in Fold /\ writers \in [Claims -> Writer]
      /\ incarnations \in Nat /\ claims \in Nat
  BY <1>1, WriterParts
<1>3. /\ writers' \in [Claims -> Writer]
      /\ \A d \in Claims : d # c => writers'[d] = writers[d]
      /\ writers'[c] = [w EXCEPT !.call = call]
  BY <1>2, <1>1 DEF Writer
<1> HIDE DEF w
<1>4. /\ writers'[c].process = w.process /\ writers'[c].incarnation = w.incarnation
      /\ writers'[c].epoch = w.epoch /\ writers'[c].memo = w.memo
      /\ writers'[c].call = call /\ writers'[c].batch = w.batch
  BY <1>2, <1>3 DEF Writer
<1>5. w.memo # None /\ w.batch \in 1 .. MaxBatches /\ w.memo \in Fold
  BY <1>1, <1>2 DEF MemoOK, Writer
<1>6. /\ log' \in Fold /\ \A fold \in Fold : Begins(fold, log) => Begins(fold, log')
  BY <1>1, <1>2, <1>5, OneMore, BeginsLonger
<1>7. Types'
  BY <1>1, <1>3, <1>6 DEF HInv, Types
<1>8. CheckpointsOK'
  BY <1>1, <1>6 DEF HInv, Types, CheckpointsOK, CheckpointOK, Checkpoint, Now, Exists
<1>9. \A d \in Claims : /\ writers'[d].process = writers[d].process
                        /\ writers'[d].incarnation = writers[d].incarnation
                        /\ writers'[d].epoch = writers[d].epoch
                        /\ writers'[d].memo = writers[d].memo
  BY <1>3, <1>4 DEF w
<1>10. ClaimsOK'
  BY <1>1, <1>9, ClaimsKept
<1>11. ASSUME NEW d \in Claims, d # c, Active(d), Owns(writers[d])
       PROVE  log' = log
  BY <1>1, <1>11 DEF HInv, ClaimsOK, Owns, w
<1>12. MemosOK'
  <2>1. MemoOK(writers[c])'
    <3>1. Reduced(w) = w.memo
      BY <1>1 DEF Reduced
    <3>2. CASE Owns(w)
      <4>1. w.memo = log
        BY <1>2, <1>5, <3>1, <3>2 DEF MemoOK
      <4>2. /\ writers'[c].call = "stored" /\ writers'[c].memo = log
            /\ writers'[c].batch = w.batch /\ log' = log \o <<w.batch>>
        BY <1>1, <1>4, <3>2, <4>1
      <4>3. Reduced(writers[c])' = log'
        BY <4>2 DEF Reduced
      <4>4. Begins(log', log')
        BY <1>6, BeginsItself
      <4>5. writers'[c].memo # None /\ writers'[c].batch # 0
        BY <1>4, <1>5
      <4> QED BY <4>2, <4>3, <4>4, <4>5 DEF MemoOK
    <3>3. CASE ~Owns(w)
      <4>1. Reduced(writers[c])' = Reduced(w) /\ log' = log
        BY <1>1, <1>4, <3>1, <3>3 DEF Reduced
      <4> QED BY <1>1, <1>2, <1>4, <1>5, <3>3, <4>1 DEF MemoOK, Owns, Now, Exists, Begins
    <3> QED BY <3>2, <3>3
  <2>2. ASSUME NEW d \in Claims, d # c, Active(d)'
        PROVE  MemoOK(writers[d])'
    <3>1. /\ writers'[d] = writers[d] /\ MemoOK(writers[d]) /\ Active(d)
          /\ writers[d] \in Writer
      BY <1>2, <1>3, <2>2 DEF HInv, MemosOK, Active
    <3>2. writers[d].memo # None => Reduced(writers[d]) \in Fold
      BY <3>1, OneMore DEF Reduced, MemoOK, Writer
    <3>3. /\ Owns(writers[d])' => Owns(writers[d]) /\ log' = log
          /\ Now(writers[d].incarnation)' => Now(writers[d].incarnation)
      BY <1>1, <1>11, <2>2, <3>1 DEF Owns, Now, Exists
    <3> QED BY <1>6, <3>1, <3>2, <3>3 DEF MemoOK, Reduced
  <2> QED BY <2>1, <2>2 DEF MemosOK
<1>13. ASSUME NEW p \in Producers PROVE HostOK(p, hosts[p])'
  <2>1. MayAdopt(p)' => MayAdopt(p) /\ stream'.incarnation = stream.incarnation
    BY <1>1, <1>9 DEF MayAdopt, Active, Now, Exists
  <2>2. \A d \in Claims : d <= claims /\ Active(d)' =>
           /\ Active(d)
           /\ writers[d].memo = None /\ writers[d].process = p =>
                /\ writers'[d].process = p /\ writers'[d].memo = None
                /\ writers'[d].incarnation = writers[d].incarnation
                /\ Now(writers[d].incarnation)' =>
                     Now(writers[d].incarnation) /\ stream'.incarnation = stream.incarnation
                /\ Owns(writers[d])' => Owns(writers[d]) /\ log' = log
    BY <1>1, <1>5, <1>9, <1>11 DEF Active, Owns, Now, Exists, w
  <2> QED BY <1>1, <1>2, <1>6, <1>7, <2>1, <2>2, HostKept DEF Now, Exists
<1> QED BY <1>7, <1>8, <1>10, <1>12, <1>13 DEF HInv

\* Writers that are gone disturb nobody.
LEMMA WritersGo ==
  ASSUME HInv, UNCHANGED <<stream, log, incarnations, claims>>,
         \A d \in Claims : writers'[d] = writers[d] \/ writers'[d].process = None
  PROVE  ClaimsOK' /\ MemosOK'
<1>1. \A d \in Claims : Active(d)' => Active(d) /\ writers'[d] = writers[d]
  BY DEF Active
<1>2. ASSUME NEW d \in Claims, Active(d)'
      PROVE  /\ d <= claims' /\ writers'[d].incarnation \in 1 .. incarnations'
             /\ Now(writers[d].incarnation)' => writers'[d].epoch <= stream'.epoch
             /\ MemoOK(writers[d])'
  BY <1>1, <1>2
     DEF HInv, ClaimsOK, MemosOK, MemoOK, Reduced, Owns, Active, Now, Exists
<1>3. ASSUME NEW d \in Claims, NEW e \in Claims, Active(d)', Active(e)', d # e
      PROVE  /\ writers'[d].process # writers'[e].process
             /\ writers'[d].incarnation = writers'[e].incarnation =>
                  writers'[d].epoch # writers'[e].epoch
  BY <1>1, <1>3 DEF HInv, ClaimsOK
<1> QED BY <1>2, <1>3 DEF ClaimsOK, MemosOK

\* The state that a writer hands over is of the stream it is labelled with.
LEMMA AdoptedIsOK ==
  ASSUME HInv, NEW c \in Claims, Active(c), writers[c].call = "stored",
         NEW q, NEW n, NEW fold, NEW h, NEW g,
         q = writers[c].process, n = writers[c].incarnation, fold \in Fold,
         fold = Reduced(writers[c]), h = hosts[q], g = Adopted(h, fold, n),
         UNCHANGED <<stream, log, incarnations, claims>>,
         \A d \in Claims : d # c => writers'[d] = writers[d],
         writers'[c].process = q, writers'[c].incarnation = n, writers'[c].memo # None
  PROVE  g \in Host /\ HostOK(q, g)'
<1> DEFINE r == h.request
<1>1. /\ writers[c] \in Writer /\ q \in Producers /\ MemoOK(writers[c])
      /\ incarnations \in 0 .. MaxIncarnations /\ n \in Nat /\ n <= incarnations
      /\ n \in 0 .. MaxIncarnations
  BY WriterParts DEF HInv, Types, ClaimsOK, Writer
<1>2. /\ h \in Host /\ HostOK(q, h)
      /\ r # None => r \in Request /\ RequestOK(q, h) /\ LoadOK(q, h)
  BY <1>1, HostParts
<1>3. writers[c].memo # None
  BY <1>1 DEF MemoOK
<1>4. Now(n) => Begins(fold, log) /\ MayAdopt(q)
  BY <1>1, <1>3 DEF MemoOK, MayAdopt
<1>5. MayAdopt(q)' => MayAdopt(q)
  BY SMTT(40), <1>3 DEF MayAdopt, Active, Now, Exists
<1>6. r # None /\ r.for # None =>
        r.for \in Claims /\ ~Active(r.for) /\ ~Active(r.for)' /\ r.for <= claims
  <2>1. r # None /\ r.for # None =>
          /\ r.for \in Claims /\ r.for <= claims
          /\ Active(r.for) => writers[r.for].process = q /\ writers[r.for].memo = None
    BY <1>2 DEF LoadOK, Request
  <2>2. r # None /\ r.for # None => ~Active(r.for)
    BY <1>3, <2>1 DEF HInv, ClaimsOK
  <2>3. r # None /\ r.for # None => r.for # c
    BY <2>2
  <2>4. r # None /\ r.for # None => writers'[r.for] = writers[r.for]
    BY SMTT(40), <2>1, <2>3
  <2> QED BY SMTT(40), <2>1, <2>2, <2>4 DEF Active
<1>7. /\ g.label \in Nat /\ g.request = r /\ g \in Host
      /\ \/ g.label = h.label /\ g.state = h.state
         \/ g.label = n /\ g.state = fold
      /\ h.state # None => g.state # None
  <2>1. CASE g = h
    BY <1>2, <2>1, CheckpointAssumption DEF Host
  <2>2. CASE g = [h EXCEPT !.state = fold, !.label = n]
    BY <1>1, <1>2, <2>2, NoneIsNoFold DEF Host
  <2> QED BY <2>1, <2>2 DEF Adopted
<1>8. g.label <= incarnations
  BY <1>1, <1>2, <1>7 DEF HostOK
<1>9. Now(g.label) /\ g.state # None => Begins(g.state, log)
  BY SMTT(40), <1>2, <1>4, <1>7 DEF HostOK
<1>10. r # None => RequestOK(q, g)
  <2>1. r # None /\ r.at \in {"page", "done"} /\ r.use # "nothing"
        /\ (Now(g.label) \/ MayAdopt(q)) => Begins(r.fold, log)
    BY SMTT(40), <1>2, <1>4, <1>7 DEF RequestOK
  <2> QED BY SMTT(40), <1>2, <1>7, <2>1 DEF RequestOK
<1>11. r # None => LoadOK(q, g)'
  BY SMTT(40), <1>6, <1>7 DEF LoadOK
<1>12. r # None => RequestOK(q, g)'
  BY <1>5, <1>7, <1>10 DEF RequestOK, CheckpointOK, Now, Exists
<1> QED BY <1>7, <1>8, <1>9, <1>11, <1>12 DEF HostOK, Now, Exists

LEMMA TakeAnswerKeeps ==
  ASSUME HInv, NEW c \in Claims, TakeAnswer(c)
  PROVE  HInv'
<1>0. PICK w, fold, k, h, g :
        /\ w = writers[c] /\ fold = w.memo \o <<w.batch>>
        /\ k = [incarnation |-> w.incarnation, fold |-> fold]
        /\ h = hosts[w.process] /\ g = Adopted(h, fold, w.incarnation)
  OBVIOUS
<1> DEFINE q == w.process
           due == w.since + 1 >= Interval
<1>1. /\ Active(c) /\ w.call \in {"stored", "refused"}
      /\ UNCHANGED <<stream, log, checkpoint, incarnations, claims, batches>>
      /\ w.call = "refused" => /\ writers' = [writers EXCEPT ![c] = NoWriter]
                               /\ UNCHANGED <<puts, hosts>>
      /\ w.call # "refused" =>
           /\ writers' = [writers EXCEPT ![c].memo = fold, ![c].call = "none", ![c].batch = 0,
                                         ![c].since = IF due THEN 0 ELSE @ + 1]
           /\ hosts' = [hosts EXCEPT ![q] = Adopted(@, fold, w.incarnation)]
           /\ puts' = IF due THEN puts \cup {k} ELSE puts
  BY <1>0 DEF TakeAnswer
<1>2. /\ w \in Writer /\ q \in Producers /\ MemoOK(w) /\ log \in Fold
      /\ writers \in [Claims -> Writer] /\ hosts \in [Producers -> Host]
      /\ incarnations \in Nat /\ claims \in Nat
  BY <1>0, <1>1, WriterParts
<1>3. CheckpointOK(checkpoint)' /\ stream'.incarnation \in {0, incarnations'}
  BY <1>1 DEF HInv, CheckpointsOK, CheckpointOK, Now, Exists
<1>4. \A x \in puts : CheckpointOK(x)'
  BY <1>1 DEF HInv, CheckpointsOK, CheckpointOK, Now, Exists
<1>5. CASE w.call = "refused"
  <2>1. NoWriter \in Writer
    <3>1. 0 \in 0 .. MaxIncarnations /\ 0 \in 0 .. MaxBatches
      <4>1. MaxIncarnations \in Nat /\ MaxBatches \in Nat
        BY CheckpointAssumption
      <4> QED BY <4>1
    <3> QED BY <3>1 DEF NoWriter, Writer
  <2>2. Types'
    BY <1>1, <1>2, <1>5, <2>1 DEF HInv, Types
  <2>3. \A d \in Claims : writers'[d] = writers[d] \/ writers'[d].process = None
    BY <1>0, <1>1, <1>2, <1>5 DEF NoWriter
  <2>4. CheckpointsOK'
    BY <1>1, <1>3, <1>4, <1>5 DEF CheckpointsOK
  <2>5. \A p \in Producers : HostOK(p, hosts[p])'
    BY <1>1, <1>5, <2>2, <2>3, HostWaits
  <2> QED BY <1>1, <2>2, <2>3, <2>4, <2>5, WritersGo DEF HInv
<1>6. CASE w.call = "stored"
  <2>1. w.memo \in Fold /\ w.batch \in 1 .. MaxBatches /\ w.memo # None /\ Reduced(w) = fold
    BY <1>0, <1>2, <1>6 DEF MemoOK, Writer, Reduced
  <2>2. fold \in Fold /\ fold # None
    <3>1. w.memo \o <<w.batch>> \in Fold
      BY <2>1, OneMore
    <3> QED BY <1>0, <3>1, NoneIsNoFold
  <2>3. k \in Checkpoint /\ CheckpointOK(k) /\ w.incarnation <= incarnations
    BY <1>0, <1>1, <1>2, <2>1, <2>2
       DEF Checkpoint, CheckpointOK, HInv, ClaimsOK, MemoOK, Types, Writer
  <2>4. CheckpointOK(k)'
    BY <1>1, <1>2, <2>3 DEF CheckpointOK, Now, Exists
  <2>5. /\ writers' \in [Claims -> Writer]
        /\ \A d \in Claims : d # c => writers'[d] = writers[d]
        /\ writers'[c].process = q /\ writers'[c].incarnation = w.incarnation
        /\ writers'[c].epoch = w.epoch /\ writers'[c].memo = fold
        /\ writers'[c].call = "none"
    <3>1. 0 \in 0 .. MaxBatches
      <4>1. MaxBatches \in Nat
        BY CheckpointAssumption
      <4> QED BY <4>1
    <3>2. PICK n \in Nat : n = IF due THEN 0 ELSE w.since + 1
      BY <1>2 DEF Writer
    <3>3. PICK v : v = [w EXCEPT !.memo = fold, !.call = "none", !.batch = 0, !.since = n]
      OBVIOUS
    <3>4. /\ v \in Writer /\ v.process = q /\ v.incarnation = w.incarnation
          /\ v.epoch = w.epoch /\ v.memo = fold /\ v.call = "none"
      BY <1>2, <2>2, <3>1, <3>3 DEF Writer
    <3>5. writers' = [writers EXCEPT ![c] = v]
      BY ZenonT(60), <1>0, <1>1, <1>2, <1>6, <3>2, <3>3 DEF Writer
    <3> QED BY <1>2, <3>4, <3>5
  <2>6. CheckpointsOK'
    BY <1>1, <1>3, <1>4, <1>6, <2>4 DEF CheckpointsOK
  <2>7. ClaimsOK'
    BY <1>0, <1>1, <2>5, ClaimsKept
  <2>8. MemosOK'
    <3>1. MemoOK(writers[c])'
      BY <1>0, <1>1, <1>2, <1>6, <2>1, <2>2, <2>5 DEF MemoOK, Reduced, Owns, Now, Exists
    <3>2. \A d \in Claims : d # c /\ Active(d)' => MemoOK(writers[d])'
      <4>1. UNCHANGED <<stream, log>> /\ \A d \in Claims : d # c => writers'[d] = writers[d]
        BY <1>1, <2>5
      <4> QED BY <4>1 DEF HInv, MemosOK, MemoOK, Active, Reduced, Owns, Now, Exists
    <3> QED BY <3>1, <3>2 DEF MemosOK
  <2>9. hosts'[q] = g /\ \A p \in Producers : p # q => hosts'[p] = hosts[p]
    BY <1>0, <1>1, <1>2, <1>6
  <2>10. g \in Host /\ HostOK(q, g)'
    BY <1>0, <1>1, <1>6, <2>1, <2>2, <2>5, AdoptedIsOK
  <2>11. Types'
    <3>1. hosts' \in [Producers -> Host]
      BY <1>1, <1>2, <1>6, <2>9, <2>10
    <3> QED BY <1>1, <1>6, <2>3, <2>5, <3>1 DEF HInv, Types
  <2>12. ASSUME NEW p \in Producers PROVE HostOK(p, hosts[p])'
    <3>1. \A d \in Claims :
             writers'[d] = writers[d] \/ writers'[d].process = None
             \/ /\ writers[d].memo # None
                /\ writers'[d].process = writers[d].process
                /\ writers'[d].incarnation = writers[d].incarnation
      BY <1>0, <2>1, <2>5
    <3>2. CASE p # q
      BY <1>1, <2>9, <2>11, <3>1, <3>2, HostWaits
    <3>3. CASE p = q
      BY <2>9, <2>10, <3>3
    <3> QED BY <3>2, <3>3
  <2> QED BY <2>6, <2>7, <2>8, <2>11, <2>12 DEF HInv
<1> QED BY <1>1, <1>5, <1>6

-----------------------------------------------------------------------------
(* Slot, store and processes *)

LEMMA PutCheckpointKeeps ==
  ASSUME HInv, NEW k \in puts, PutCheckpoint(k)
  PROVE  HInv'
<1>1. /\ checkpoint' = k /\ puts' = puts \ {k}
      /\ UNCHANGED <<stream, log, writers, hosts, incarnations, claims, batches>>
  BY DEF PutCheckpoint
<1>2. Types'
  BY <1>1 DEF HInv, Types
<1>3. CheckpointsOK'
  BY <1>1 DEF HInv, CheckpointsOK, CheckpointOK, Now, Exists
<1>4. ClaimsOK' /\ MemosOK'
  BY <1>1, WritersGo
<1>5. \A p \in Producers : HostOK(p, hosts[p])'
  BY <1>1, <1>2, HostWaits
<1> QED BY <1>2, <1>3, <1>4, <1>5 DEF HInv

\* Zero is a number of all these kinds.
LEMMA ZeroIsOne == 0 \in 0 .. MaxIncarnations /\ 0 \in 0 .. MaxBatches /\ 0 \in 0 .. MaxClaims
<1>1. MaxIncarnations \in Nat /\ MaxBatches \in Nat /\ MaxClaims \in Nat
  BY CheckpointAssumption
<1> QED BY <1>1

LEMMA CrashKeeps ==
  ASSUME HInv, NEW p \in Producers, Crash(p)
  PROVE  HInv'
<1>1. /\ hosts' = [hosts EXCEPT ![p] = NoHost]
      /\ writers' = [c \in Claims |-> IF writers[c].process = p THEN NoWriter ELSE writers[c]]
      /\ UNCHANGED <<stream, log, checkpoint, puts, incarnations, claims, batches>>
  BY DEF Crash
<1>2. NoHost \in Host /\ NoWriter \in Writer /\ hosts \in [Producers -> Host]
  BY ZeroIsOne DEF NoHost, Host, NoWriter, Writer, HInv, Types
<1>3. Types'
  BY <1>1, <1>2 DEF HInv, Types
<1>4. CheckpointsOK'
  BY <1>1 DEF HInv, CheckpointsOK, CheckpointOK, Now, Exists
<1>5. \A d \in Claims : writers'[d] = writers[d] \/ writers'[d].process = None
  BY <1>1 DEF NoWriter
<1>6. ClaimsOK' /\ MemosOK'
  BY <1>1, <1>5, WritersGo
<1>7. ASSUME NEW q \in Producers PROVE HostOK(q, hosts[q])'
  <2>1. CASE q # p
    BY <1>1, <1>2, <1>3, <1>5, <2>1, HostWaits
  <2>2. CASE q = p
    <3>1. hosts'[q] = NoHost /\ incarnations' \in Nat
      BY <1>1, <1>2, <2>2, HostParts
    <3> QED BY <3>1 DEF HostOK, NoHost
  <2> QED BY <2>1, <2>2
<1> QED BY <1>3, <1>4, <1>6, <1>7 DEF HInv

\* Nothing is of a stream that is gone.
LEMMA WipeKeeps ==
  ASSUME HInv, Wipe
  PROVE  HInv'
<1>1. /\ stream' = [incarnation |-> 0, epoch |-> 0] /\ log' = <<>>
      /\ checkpoint' \in {checkpoint, None}
      /\ UNCHANGED <<puts, writers, hosts, incarnations, claims, batches>>
  BY DEF Wipe
<1>2. Types'
  BY <1>1, ZeroIsOne, NoneIsNoFold DEF HInv, Types
<1>3. ~Exists'
  BY <1>1 DEF Exists
<1>4. CheckpointsOK'
  BY <1>1, <1>3 DEF HInv, CheckpointsOK, CheckpointOK, Now
<1>5. ClaimsOK'
  BY <1>1, <1>3 DEF HInv, ClaimsOK, Active, Now
<1>6. MemosOK'
  BY <1>1, <1>3 DEF HInv, MemosOK, MemoOK, Active, Owns, Now
<1>7. ASSUME NEW p \in Producers PROVE HostOK(p, hosts[p])'
  <2>1. ~MayAdopt(p)'
    BY <1>3 DEF MayAdopt, Now
  <2>2. \A d \in Claims : d <= claims /\ Active(d)' =>
        /\ Active(d)
        /\ writers[d].memo = None /\ writers[d].process = p =>
             /\ writers'[d].process = p /\ writers'[d].memo = None
             /\ writers'[d].incarnation = writers[d].incarnation
             /\ Now(writers[d].incarnation)' =>
                  Now(writers[d].incarnation) /\ stream'.incarnation = stream.incarnation
             /\ Owns(writers[d])' => Owns(writers[d]) /\ log' = log
    BY <1>1, <1>3 DEF Active, Owns, Now
  <2>3. /\ \A i \in 1 .. incarnations : Now(i)' => Now(i)
        /\ \A i \in 1 .. incarnations, fold \in Fold :
             Now(i)' /\ Begins(fold, log) => Begins(fold, log')
    BY <1>3 DEF Now
  <2>4. incarnations \in Nat /\ claims \in Nat
    BY HostParts
  <2> QED BY <1>1, <1>2, <2>1, <2>2, <2>3, <2>4, HostKept
<1> QED BY <1>2, <1>4, <1>5, <1>6, <1>7 DEF HInv

\* A new writer has the highest epoch of its stream, and has folded nothing.
LEMMA OpenKeeps ==
  ASSUME HInv, NEW p \in Producers, Open(p)
  PROVE  HInv'
<1>0. PICK new, c, w :
        /\ new = IF Exists THEN stream ELSE [incarnation |-> incarnations + 1, epoch |-> 0]
        /\ c = claims + 1
        /\ w = [NoWriter EXCEPT !.process = p, !.incarnation = new.incarnation,
                                !.epoch = new.epoch + 1]
  OBVIOUS
<1>1. /\ claims < MaxClaims /\ \A d \in Claims : writers[d].process # p
      /\ Exists \/ incarnations < MaxIncarnations
      /\ stream' = [new EXCEPT !.epoch = @ + 1] /\ writers' = [writers EXCEPT ![c] = w]
      /\ incarnations' = IF Exists THEN incarnations ELSE incarnations + 1
      /\ claims' = claims + 1
      /\ UNCHANGED <<log, checkpoint, puts, hosts, batches>>
  BY <1>0 DEF Open
<1>2. /\ incarnations \in 0 .. MaxIncarnations /\ incarnations \in Nat
      /\ claims \in 0 .. MaxClaims /\ claims \in Nat
      /\ stream \in [incarnation : 0 .. MaxIncarnations, epoch : Nat]
      /\ writers \in [Claims -> Writer]
      /\ Exists => stream.incarnation = incarnations
      /\ incarnations < MaxIncarnations => incarnations + 1 \in 0 .. MaxIncarnations
      /\ claims < MaxClaims => claims + 1 \in 0 .. MaxClaims /\ claims + 1 \in Claims
  <2>1. MaxIncarnations \in Nat /\ MaxClaims \in Nat
    BY CheckpointAssumption
  <2> QED BY <2>1 DEF HInv, Types, CheckpointsOK, Exists, Claims
<1>3. /\ new \in [incarnation : 0 .. MaxIncarnations, epoch : Nat]
      /\ new.incarnation = incarnations' /\ incarnations' \in 0 .. MaxIncarnations
      /\ incarnations' \in Nat /\ new.incarnation \in 1 .. incarnations'
      /\ incarnations <= incarnations' /\ c \in Claims
      /\ claims' \in 0 .. MaxClaims
  BY <1>0, <1>1, <1>2 DEF Exists
<1>4. /\ stream' \in [incarnation : 0 .. MaxIncarnations, epoch : Nat]
      /\ stream'.incarnation = incarnations' /\ stream'.epoch = new.epoch + 1
      /\ Exists' /\ new.epoch \in Nat
  BY <1>1, <1>3 DEF Exists
<1>5. /\ w \in Writer /\ w.process = p /\ w.incarnation = incarnations'
      /\ w.epoch = new.epoch + 1 /\ w.memo = None /\ w.call = "none"
  BY <1>0, <1>3, <1>4, ZeroIsOne DEF NoWriter, Writer
<1>6. /\ writers' \in [Claims -> Writer] /\ writers'[c] = w
      /\ \A d \in Claims : d # c => writers'[d] = writers[d]
  BY <1>1, <1>2, <1>3, <1>5
<1>7. Types'
  BY <1>1, <1>3, <1>4, <1>6 DEF HInv, Types
<1>8. \A i \in 0 .. incarnations :
        Now(i)' => Now(i) /\ new = stream /\ stream'.incarnation = stream.incarnation
  BY <1>0, <1>1, <1>2, <1>4 DEF Now, Exists
<1>9. CheckpointsOK'
  <2>1. \A k \in Checkpoint \cup {None} : CheckpointOK(k) => CheckpointOK(k)'
    BY <1>1, <1>2, <1>3, <1>8 DEF CheckpointOK, Checkpoint
  <2> QED BY <1>1, <1>4, <2>1 DEF HInv, Types, CheckpointsOK
<1>10. ASSUME NEW d \in Claims, d # c, Active(d)'
       PROVE  /\ Active(d) /\ writers'[d] = writers[d]
              /\ d <= claims /\ writers[d].incarnation \in 1 .. incarnations
              /\ writers[d] \in Writer /\ MemoOK(writers[d]) /\ ~Owns(writers[d])'
              /\ Now(writers[d].incarnation)' => writers[d].epoch <= new.epoch
  <2>1. /\ Active(d) /\ writers'[d] = writers[d] /\ writers[d] \in Writer
        /\ MemoOK(writers[d]) /\ d <= claims /\ writers[d].incarnation \in 1 .. incarnations
        /\ Now(writers[d].incarnation) => writers[d].epoch <= stream.epoch
    BY <1>2, <1>6, <1>10 DEF HInv, ClaimsOK, MemosOK, Active
  <2>2. Now(writers[d].incarnation)' => writers[d].epoch <= new.epoch
    BY <1>2, <1>8, <2>1
  <2>3. Owns(writers[d])' => Now(writers[d].incarnation)' /\ writers[d].epoch = stream'.epoch
    BY <2>1 DEF Owns, Now
  <2> QED BY <1>4, <2>1, <2>2, <2>3 DEF Writer
<1>11. ClaimsOK'
  <2>1. ASSUME NEW d \in Claims, Active(d)'
        PROVE  /\ d <= claims' /\ writers'[d].incarnation \in 1 .. incarnations'
               /\ Now(writers[d].incarnation)' => writers'[d].epoch <= stream'.epoch
    <3>1. CASE d = c
      BY <1>0, <1>1, <1>2, <1>3, <1>4, <1>5, <1>6, <3>1
    <3>2. CASE d # c
      <4>1. /\ writers'[d] = writers[d] /\ d <= claims /\ d \in Nat
            /\ writers[d].incarnation \in 1 .. incarnations /\ writers[d].epoch \in Nat
            /\ Now(writers[d].incarnation)' => writers[d].epoch <= new.epoch
        BY <1>10, <2>1, <3>2 DEF Writer, Claims
      <4>2. d <= claims' /\ writers'[d].incarnation \in 1 .. incarnations'
        BY <1>1, <1>2, <1>3, <4>1
      <4> QED BY <1>4, <4>1, <4>2
    <3> QED BY <3>1, <3>2
  <2>2. ASSUME NEW d \in Claims, d # c, Active(d)'
        PROVE  /\ writers'[d].process # w.process
               /\ writers'[d].incarnation = w.incarnation => writers'[d].epoch # w.epoch
    <3>1. writers'[d].process # w.process
      BY <1>1, <1>5, <1>10, <2>2
    <3>2. ASSUME writers'[d].incarnation = w.incarnation
          PROVE  writers'[d].epoch # w.epoch
      <4>1. Now(writers[d].incarnation)'
        BY <1>4, <1>5, <3>2 DEF Now
      <4> QED BY <1>4, <1>5, <1>10, <2>2, <4>1 DEF Writer
    <3> QED BY <3>1, <3>2
  <2>3. ASSUME NEW d \in Claims, NEW e \in Claims, Active(d)', Active(e)', d # e
        PROVE  /\ writers'[d].process # writers'[e].process
               /\ writers'[d].incarnation = writers'[e].incarnation =>
                    writers'[d].epoch # writers'[e].epoch
    <3>1. CASE d = c
      BY <1>6, <2>2, <2>3, <3>1
    <3>2. CASE e = c
      BY <1>6, <2>2, <2>3, <3>2
    <3>3. CASE d # c /\ e # c
      BY <1>10, <2>3, <3>3 DEF HInv, ClaimsOK
    <3> QED BY <3>1, <3>2, <3>3
  <2> QED BY <2>1, <2>3 DEF ClaimsOK
<1>12. MemosOK'
  <2>1. MemoOK(writers[c])'
    BY <1>5, <1>6 DEF MemoOK
  <2>2. ASSUME NEW d \in Claims, d # c, Active(d)'
        PROVE  MemoOK(writers[d])'
    <3>1. Now(writers[d].incarnation)' => Now(writers[d].incarnation)
      BY <1>2, <1>8, <1>10, <2>2
    <3>2. /\ log' = log /\ writers'[d] = writers[d] /\ MemoOK(writers[d])
          /\ ~Owns(writers[d])'
      BY <1>1, <1>10, <2>2
    <3> QED BY <3>1, <3>2 DEF MemoOK, Reduced, Begins
  <2> QED BY <2>1, <2>2 DEF MemosOK
<1>13. ASSUME NEW q \in Producers PROVE HostOK(q, hosts[q])'
  <2>1. MayAdopt(q)' => MayAdopt(q) /\ stream'.incarnation = stream.incarnation
    <3>1. ASSUME NEW d \in Claims, Active(d)', writers'[d].process = q, writers'[d].memo # None,
                 Now(writers[d].incarnation)'
          PROVE  /\ d # c /\ Active(d) /\ writers[d].process = q /\ writers[d].memo # None
                 /\ Now(writers[d].incarnation) /\ stream'.incarnation = stream.incarnation
      <4>1. d # c
        BY <1>5, <1>6, <3>1
      <4> QED BY <1>2, <1>8, <1>10, <3>1, <4>1
    <3> QED BY <3>1 DEF MayAdopt
  <2>2. ASSUME NEW d \in Claims, d <= claims, Active(d)'
        PROVE  /\ Active(d)
               /\ writers[d].memo = None /\ writers[d].process = q =>
                    /\ writers'[d].process = q /\ writers'[d].memo = None
                    /\ writers'[d].incarnation = writers[d].incarnation
                    /\ Now(writers[d].incarnation)' =>
                         Now(writers[d].incarnation) /\ stream'.incarnation = stream.incarnation
                    /\ Owns(writers[d])' => Owns(writers[d]) /\ log' = log
    <3>1. d # c
      BY <1>0, <1>2, <2>2
    <3> QED BY <1>1, <1>2, <1>8, <1>10, <2>2, <3>1
  <2>3. /\ \A i \in 1 .. incarnations : Now(i)' => Now(i)
        /\ \A i \in 1 .. incarnations, fold \in Fold :
             Now(i)' /\ Begins(fold, log) => Begins(fold, log')
    BY <1>1, <1>2, <1>8 DEF Begins
  <2>4. claims <= claims'
    BY <1>1, <1>2
  <2> QED BY <1>1, <1>3, <1>7, <2>1, <2>2, <2>3, <2>4, HostKept
<1> QED BY <1>7, <1>9, <1>11, <1>12, <1>13 DEF HInv

-----------------------------------------------------------------------------
(* The theorem *)

LEMMA HInvAtStart == ASSUME Init PROVE HInv
<1>1. NoHost \in Host /\ NoWriter \in Writer
  BY ZeroIsOne DEF NoHost, Host, NoWriter, Writer
<1>2. Types
  BY <1>1, ZeroIsOne, NoneIsNoFold DEF Init, Types
<1>3. \A c \in Claims : ~Active(c)
  BY DEF Init, NoWriter, Active
<1>4. \A p \in Producers : HostOK(p, hosts[p])
  <2>1. ASSUME NEW p \in Producers PROVE HostOK(p, hosts[p])
    <3>1. /\ hosts[p].label = 0 /\ hosts[p].state = None /\ hosts[p].request = None
          /\ incarnations = 0
      BY DEF Init, NoHost
    <3>2. hosts[p].label <= incarnations
      BY <3>1
    <3> QED BY <3>1, <3>2 DEF HostOK
  <2> QED BY <2>1
<1>5. CheckpointsOK
  BY DEF Init, CheckpointsOK, CheckpointOK
<1> QED BY <1>2, <1>3, <1>4, <1>5 DEF HInv, ClaimsOK, MemosOK

LEMMA HInvKept == ASSUME HInv, [Next]_vars PROVE HInv'
<1>1. ASSUME NEW p \in Producers, Open(p) PROVE HInv'
  BY <1>1, OpenKeeps
<1>2. ASSUME NEW p \in Producers, Crash(p) PROVE HInv'
  BY <1>2, CrashKeeps
<1>3. ASSUME NEW p \in Producers, HostStep(p) PROVE HInv'
  BY <1>3, ReadMetaKeeps, TakeMetaKeeps, ReadSlotKeeps, CheckSlotKeeps, ReadPageKeeps,
     FinishRequestKeeps DEF HostStep
<1>4. CASE WriterStep
  BY <1>4, SendBatchKeeps, ExecuteKeeps, TakeAnswerKeeps DEF WriterStep
<1>5. ASSUME NEW k \in puts, PutCheckpoint(k) PROVE HInv'
  BY <1>5, PutCheckpointKeeps
<1>6. CASE Wipe
  BY <1>6, WipeKeeps
<1>7. CASE UNCHANGED vars
  <2>1. UNCHANGED <<stream, log, checkpoint, puts, writers, hosts, incarnations, claims, batches>>
    BY <1>7 DEF vars
  <2>2. Types'
    BY <2>1 DEF HInv, Types
  <2>3. CheckpointsOK'
    BY <2>1 DEF HInv, CheckpointsOK, CheckpointOK, Now, Exists
  <2>4. ClaimsOK' /\ MemosOK'
    BY <2>1, WritersGo
  <2>5. \A p \in Producers : HostOK(p, hosts[p])'
    BY <2>1, <2>2, HostWaits
  <2> QED BY <2>2, <2>3, <2>4, <2>5 DEF HInv
<1> QED BY <1>1, <1>2, <1>3, <1>4, <1>5, <1>6, <1>7 DEF Next

\* Every cache that claims to be of the stream that exists is a fold of its
\* beginning, the writer's of all of it: the store's checkpoint, however late
\* it was put, each process's resident state, whatever the stream went through
\* while it was loaded, and the reduced state the current writer folds onto.
THEOREM CurrentFoldsStayTrue == CheckpointSpec => []CurrentFoldsAreTrue
<1>1. HInv => CurrentFoldsAreTrue
  <2>1. ASSUME HInv PROVE CheckpointIsTrue
    BY <2>1 DEF HInv, CheckpointsOK, CheckpointOK, CheckpointIsTrue, Types, Checkpoint, Now, Exists
  <2>2. ASSUME HInv PROVE HostsAreTrue
    BY <2>2 DEF HInv, HostOK, HostsAreTrue, Now
  <2>3. ASSUME HInv PROVE WriterIsAtHead
    BY <2>3 DEF HInv, Types, MemosOK, MemoOK, Reduced, WriterIsAtHead, Writer
  <2> QED BY <2>1, <2>2, <2>3 DEF CurrentFoldsAreTrue
<1> QED BY <1>1, HInvAtStart, HInvKept, PTL DEF CheckpointSpec

=============================================================================
