--------------------------- MODULE FoldCheckpoints ---------------------------
(***************************************************************************)
(* Caches over one conversation stream: the reduced state that each        *)
(* process keeps resident (conversation-fold-host.ts), the checkpoint the  *)
(* store keeps (conversation-fold-checkpoint.ts), and the reduced state of *)
(* each writer.  A store may be wiped and regrown under all of them, which *)
(* starts another incarnation of the stream.                               *)
(*                                                                         *)
(* A fold is the sequence of batches reduced into it; its offset is its    *)
(* length.  ConversationWriter has the writer's tail, its retries and its  *)
(* races within one incarnation; here a writer has one call at a time, and *)
(* a request to the host is taken apart into its awaits.                   *)
(***************************************************************************)
EXTENDS Integers, Sequences

CONSTANTS
  Producers,       \* processes
  Interval,        \* FOLD_CHECKPOINT_INTERVAL: appends between checkpoints
  PageSize,        \* batches per read of the store
  MaxIncarnations, \* bound: times the stream is created
  MaxClaims,       \* bound: writers ever made
  MaxBatches,      \* bound: batches ever appended
  None

ASSUME CheckpointAssumption ==
  /\ Interval \in Nat \ {0} /\ PageSize \in Nat \ {0}
  /\ {MaxIncarnations, MaxClaims, MaxBatches} \subseteq Nat
  /\ None \notin Seq(1 .. MaxBatches) /\ None \notin Nat /\ None \notin Producers

VARIABLES
  stream,       \* the row: its incarnation (0: no row), its producer epoch
  log,          \* the batches of the row
  checkpoint,   \* the checkpoint slot of the path
  puts,         \* checkpoints on their way to the slot
  writers,      \* the writer of each claim
  hosts,        \* the resident fold of each process
  incarnations, \* streams created so far
  claims,       \* writers made so far
  batches       \* batches made so far

vars == <<stream, log, checkpoint, puts, writers, hosts, incarnations, claims, batches>>

Claims == 1 .. MaxClaims
Fold == Seq(1 .. MaxBatches)
Checkpoint == [incarnation : 1 .. MaxIncarnations, fold : Fold]

\* What a writer is at: nothing, a call to append under way, or its answer.
Writer == [process : Producers \cup {None}, incarnation : 0 .. MaxIncarnations, epoch : Nat,
           memo : Fold \cup {None}, call : {"none", "sent", "stored", "refused"},
           batch : 0 .. MaxBatches, since : Nat]
NoWriter == [process |-> None, incarnation |-> 0, epoch |-> 0, memo |-> None,
             call |-> "none", batch |-> 0, since |-> 0]

\* A request to the host: the await it is at, on whose behalf, what getMeta
\* told, the fold it builds, and what becomes of that fold.
Request == [at : {"meta", "slot", "check", "page", "done"}, for : Claims \cup {None},
            told : 0 .. MaxIncarnations, found : Checkpoint \cup {None}, fold : Fold,
            base : Nat, use : {"nothing", "load", "suffix"}]
Host == [state : Fold \cup {None}, label : 0 .. MaxIncarnations, request : Request \cup {None}]
NoHost == [state |-> None, label |-> 0, request |-> None]

Init ==
  /\ stream = [incarnation |-> 0, epoch |-> 0] /\ log = <<>>
  /\ checkpoint = None /\ puts = {}
  /\ writers = [c \in Claims |-> NoWriter]
  /\ hosts = [p \in Producers |-> NoHost]
  /\ incarnations = 0 /\ claims = 0 /\ batches = 0

Exists == stream.incarnation # 0

-----------------------------------------------------------------------------
(* Writers *)

Active(c) == writers[c].process # None

\* A process that has no writer makes one: the stream is created if it is
\* missing, and claimed.  The epochs of a new incarnation start again.
Open(p) ==
  /\ claims < MaxClaims /\ \A c \in Claims : writers[c].process # p
  /\ Exists \/ incarnations < MaxIncarnations
  /\ LET new == IF Exists THEN stream ELSE [incarnation |-> incarnations + 1, epoch |-> 0]
     IN  /\ stream' = [new EXCEPT !.epoch = @ + 1]
         /\ writers' = [writers EXCEPT ![claims + 1] =
                          [NoWriter EXCEPT !.process = p, !.incarnation = new.incarnation,
                                           !.epoch = new.epoch + 1]]
  /\ incarnations' = IF Exists THEN incarnations ELSE incarnations + 1
  /\ claims' = claims + 1
  /\ UNCHANGED <<log, checkpoint, puts, hosts, batches>>

\* Sessions load the reduced state before they append.
SendBatch(c) ==
  /\ Active(c) /\ writers[c].memo # None /\ writers[c].call = "none"
  /\ batches < MaxBatches
  /\ batches' = batches + 1
  /\ writers' = [writers EXCEPT ![c].call = "sent", ![c].batch = batches']
  /\ UNCHANGED <<stream, log, checkpoint, puts, hosts, incarnations, claims>>

\* The fence; within an incarnation the epoch implies the producer.
Owns(w) == Exists /\ w.epoch = stream.epoch /\ w.incarnation = stream.incarnation

\* The store executes the call, at whatever time.
Execute(c) ==
  /\ Active(c) /\ writers[c].call = "sent"
  /\ IF Owns(writers[c])
       THEN /\ log' = log \o <<writers[c].batch>>
            /\ writers' = [writers EXCEPT ![c].call = "stored"]
       ELSE /\ writers' = [writers EXCEPT ![c].call = "refused"]
            /\ UNCHANGED log
  /\ UNCHANGED <<stream, checkpoint, puts, hosts, incarnations, claims, batches>>

\* adoptState: a state of another incarnation replaces the host's, one of the
\* same unless it is older.
Adopted(h, fold, incarnation) ==
  IF h.label # incarnation \/ h.state = None \/ Len(fold) >= Len(h.state)
    THEN [h EXCEPT !.state = fold, !.label = incarnation] ELSE h

\* The writer takes the answer: it folds its batch, hands the state to the host,
\* and every so often sends a checkpoint, which it does not wait for.
TakeAnswer(c) ==
  /\ Active(c) /\ writers[c].call \in {"stored", "refused"}
  /\ LET w == writers[c]
         fold == w.memo \o <<w.batch>>
         due == w.since + 1 >= Interval
     IN  IF w.call = "refused"
           THEN /\ writers' = [writers EXCEPT ![c] = NoWriter]
                /\ UNCHANGED <<puts, hosts>>
           ELSE /\ writers' = [writers EXCEPT ![c].memo = fold, ![c].call = "none",
                                              ![c].batch = 0, ![c].since = IF due THEN 0 ELSE @ + 1]
                /\ hosts' = [hosts EXCEPT ![w.process] = Adopted(@, fold, w.incarnation)]
                /\ puts' = IF due THEN puts \cup {[incarnation |-> w.incarnation, fold |-> fold]}
                           ELSE puts
  /\ UNCHANGED <<stream, log, checkpoint, incarnations, claims, batches>>

-----------------------------------------------------------------------------
(* The store's slot, and what befalls store and processes *)

\* Each write supersedes the last, in whatever order they arrive.
PutCheckpoint(k) ==
  /\ k \in puts
  /\ checkpoint' = k /\ puts' = puts \ {k}
  /\ UNCHANGED <<stream, log, writers, hosts, incarnations, claims, batches>>

\* The store is wiped, its checkpoints with it or not.
Wipe ==
  /\ Exists
  /\ stream' = [incarnation |-> 0, epoch |-> 0] /\ log' = <<>>
  /\ checkpoint' \in {checkpoint, None}
  /\ UNCHANGED <<puts, writers, hosts, incarnations, claims, batches>>

\* A process dies; its calls to the store die with it or are its last.
Crash(p) ==
  /\ hosts' = [hosts EXCEPT ![p] = NoHost]
  /\ writers' = [c \in Claims |-> IF writers[c].process = p THEN NoWriter ELSE writers[c]]
  /\ UNCHANGED <<stream, log, checkpoint, puts, incarnations, claims, batches>>

-----------------------------------------------------------------------------
(* A request for the state at the head *)

SetHost(p, h) == hosts' = [hosts EXCEPT ![p] = h]
StoreUnchanged == UNCHANGED <<stream, log, checkpoint, puts, incarnations, claims, batches>>

\* Requests to a host are chained.  The first await asks the store for the row.
ReadMeta(p, for) ==
  /\ hosts[p].request = None
  /\ for # None => writers[for].process = p /\ writers[for].memo = None
  /\ SetHost(p, [hosts[p] EXCEPT !.request =
       [at |-> "meta", for |-> for, told |-> stream.incarnation, found |-> None,
        fold |-> <<>>, base |-> 0, use |-> "nothing"]])
  /\ StoreUnchanged /\ UNCHANGED writers

\* The host goes by what it was told, which may be past: no row, another
\* incarnation, nothing cached, or a suffix to fold.
TakeMeta(p) ==
  LET h == hosts[p]
      r == h.request
      known == r.told # 0 /\ h.label = r.told /\ h.state # None
  IN  /\ r # None /\ r.at = "meta"
      /\ SetHost(p, IF known
           THEN [h EXCEPT !.request = [r EXCEPT !.at = "page", !.told = 0, !.use = "suffix",
                                                !.fold = h.state, !.base = Len(h.state)]]
           ELSE [state |-> None, label |-> r.told,
                 request |-> [r EXCEPT !.at = "slot", !.told = 0,
                                       !.use = IF r.told = 0 THEN "nothing" ELSE "load"]])
      /\ StoreUnchanged /\ UNCHANGED writers

\* A load reads the slot, and if it holds a checkpoint, the row once more.
ReadSlot(p) ==
  LET h == hosts[p]
      r == h.request
  IN  /\ r # None /\ r.at = "slot"
      /\ SetHost(p, [h EXCEPT !.request =
           IF checkpoint = None THEN [r EXCEPT !.at = "page"]
           ELSE [r EXCEPT !.at = "check", !.found = checkpoint]])
      /\ StoreUnchanged /\ UNCHANGED writers

\* Mutant: a checkpoint no longer than the log is good enough.
UsableAnyhow(k) == Exists /\ Len(k.fold) <= Len(log)
Usable(k) == Exists /\ k.incarnation = stream.incarnation /\ Len(k.fold) <= Len(log)

\* A checkpoint that fails any test, of another format or undecodable (usable or
\* not: no matter), is as good as none.
CheckSlot(p) ==
  LET h == hosts[p]
      r == h.request
  IN  /\ r # None /\ r.at = "check"
      /\ \E fold \in {<<>>} \cup (IF Usable(r.found) THEN {r.found.fold} ELSE {}) :
           SetHost(p, [h EXCEPT !.request =
             [r EXCEPT !.at = "page", !.found = None, !.fold = fold]])
      /\ StoreUnchanged /\ UNCHANGED writers

\* A page behind the fold is read and folded; a fold ahead of the head makes the
\* store throw, which rejects the request.
ReadPage(p) ==
  LET h == hosts[p]
      r == h.request
      end == Len(r.fold) + PageSize
      page == SubSeq(log, Len(r.fold) + 1, IF end < Len(log) THEN end ELSE Len(log))
  IN  /\ r # None /\ r.at = "page"
      /\ SetHost(p, [h EXCEPT !.request =
           IF ~Exists THEN [r EXCEPT !.at = "done"]
           ELSE IF Len(r.fold) > Len(log) THEN None
           ELSE [r EXCEPT !.fold = @ \o page,
                          !.at = IF end < Len(log) THEN "page" ELSE "done"]])
      /\ StoreUnchanged /\ UNCHANGED writers

\* What the host holds when the request is answered, and the answer.
Held(h) ==
  LET r == h.request
  IN  CASE r.use = "nothing" -> h.state
        [] r.use = "load" -> r.fold
        [] r.use = "suffix" ->
             IF Len(r.fold) > r.base /\ Len(r.fold) > Len(h.state) THEN r.fold ELSE h.state
Answer(h) == IF h.request.use = "nothing" THEN h.request.fold ELSE Held(h)

FinishRequest(p) ==
  LET h == hosts[p]
      r == h.request
  IN  /\ r # None /\ r.at = "done"
      /\ SetHost(p, [h EXCEPT !.state = Held(h), !.request = None])
      /\ writers' = IF r.for # None /\ Active(r.for)
                      THEN [writers EXCEPT ![r.for].memo = Answer(h)] ELSE writers
      /\ StoreUnchanged

-----------------------------------------------------------------------------
WriterStep == \E c \in Claims : SendBatch(c) \/ Execute(c) \/ TakeAnswer(c)
HostStep(p) ==
  \/ \E for \in Claims \cup {None} : ReadMeta(p, for)
  \/ TakeMeta(p) \/ ReadSlot(p) \/ CheckSlot(p) \/ ReadPage(p) \/ FinishRequest(p)

Next ==
  \/ \E p \in Producers : Open(p) \/ Crash(p) \/ HostStep(p)
  \/ WriterStep
  \/ \E k \in puts : PutCheckpoint(k)
  \/ Wipe

CheckpointSpec == Init /\ [][Next]_vars

-----------------------------------------------------------------------------
(* Properties *)

\* The fold is one of the beginning of the log.
Begins(fold, l) == Len(fold) <= Len(l) /\ \A i \in 1 .. Len(fold) : fold[i] = l[i]

\* A checkpoint cut from the stream that exists now is a fold of its beginning,
\* however late it was stored and whatever was wiped meanwhile.
CheckpointIsTrue ==
  checkpoint # None /\ checkpoint.incarnation = stream.incarnation =>
    Begins(checkpoint.fold, log)

\* So is the state a process holds of that stream.
HostsAreTrue ==
  \A p \in Producers :
    Exists /\ hosts[p].label = stream.incarnation /\ hosts[p].state # None =>
      Begins(hosts[p].state, log)

\* The current writer folds onto the head and nothing else: between two of its
\* calls its reduced state is exactly the log.
WriterIsAtHead ==
  \A c \in Claims :
    Active(c) /\ Owns(writers[c]) /\ writers[c].memo # None =>
      \/ writers[c].call \in {"none", "sent"} /\ writers[c].memo = log
      \/ writers[c].call = "stored" /\ writers[c].memo \o <<writers[c].batch>> = log

\* Caches over the log are never authoritative and never wrong: whatever claims
\* to be of the stream that exists now, is.
CurrentFoldsAreTrue == CheckpointIsTrue /\ HostsAreTrue /\ WriterIsAtHead
=============================================================================
