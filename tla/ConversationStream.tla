-------------------------- MODULE ConversationStream --------------------------
(***************************************************************************)
(* One conversation stream: its row in flue_conversation_streams and its   *)
(* rows in flue_conversation_stream_batches, as the operations of          *)
(* SqliteConversationStreamStore                                           *)
(* (src/packages/runtime/src/runtime/conversation-stream-store.ts) write   *)
(* them.  Every operation is one synchronous transaction, one action.      *)
(*                                                                         *)
(* The module holds the store only; ConversationWriter adds who calls it.  *)
(* A call names its producer, epoch and sequence, carries a batch, and is  *)
(* stored exactly as it came: the rows of the log are the calls.           *)
(***************************************************************************)
EXTENDS Integers, Sequences

CONSTANTS
  Producers, \* producer ids: the processes that open writers
  Attempts,  \* submission attempts whose records a batch may hold
  None       \* SQL NULL, an absent option

ASSUME StreamAssumption == None \notin Producers /\ None \notin Attempts

VARIABLES
  stream, \* the row of the stream
  log     \* its batches, by offset

Record == [id : Nat \ {0}, owner : Attempts \cup {None}]
Batch == [records : Seq(Record), owner : Attempts \cup {None}]
Call == [producer : Producers, epoch : Nat, sequence : Nat, batch : Batch]
Stream == [created : BOOLEAN, producer : Producers \cup {None}, epoch : Nat,
           nextSequence : Nat]

StreamInit ==
  /\ stream = [created |-> FALSE, producer |-> None, epoch |-> 0, nextSequence |-> 0]
  /\ log = <<>>

\* A second creation with the same identity finds the row and writes nothing.
CreateStream ==
  /\ ~stream.created
  /\ stream' = [stream EXCEPT !.created = TRUE]
  /\ UNCHANGED log

\* Mutant: the first number is taken from the head's offset, -1 of an empty log.
AcquireFromHead(p) ==
  /\ stream.created
  /\ stream' = [stream EXCEPT !.producer = p, !.epoch = stream.epoch + 1,
                              !.nextSequence = Len(log) - 1]
  /\ UNCHANGED log

\* Every claim opens a new epoch, numbered from zero.
AcquireProducer(p) ==
  /\ stream.created
  /\ stream' = [stream EXCEPT !.producer = p, !.epoch = stream.epoch + 1,
                              !.nextSequence = 0]
  /\ UNCHANGED log

\* Mutant: no fence.
OwnsAnyhow(call) == stream.created

\* The claim that the call was made under is still the stream's.
Owns(call) ==
  /\ stream.created
  /\ stream.producer = call.producer
  /\ stream.epoch = call.epoch

SameKey(a, b) ==
  /\ a.producer = b.producer
  /\ a.epoch = b.epoch
  /\ a.sequence = b.sequence

\* Mutant: the store never looks for an earlier copy of the call.
StoredNowhere(call) == {}
\* Offsets of the batch that landed under the call's key.
StoredAt(call) == {i \in DOMAIN log : SameKey(log[i], call)}

\* The call is a repetition of one that landed: it is answered with the offset
\* of that one and writes nothing.
Repeats(call, offset) ==
  /\ Owns(call)
  /\ offset \in StoredAt(call)
  /\ log[offset].batch = call.batch

\* The call has the next sequence number, and the store accepts its batch: the
\* batch is not too large, and its submission, if it has one, is authorized by
\* the ledger.
Admits(call, accepted) ==
  /\ Owns(call)
  /\ StoredAt(call) = {}
  /\ call.sequence = stream.nextSequence
  /\ accepted

AppendBatch(call) ==
  /\ log' = Append(log, call)
  /\ stream' = [stream EXCEPT !.nextSequence = stream.nextSequence + 1]
=============================================================================
