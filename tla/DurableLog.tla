------------------------------ MODULE DurableLog ------------------------------
(***************************************************************************)
(* What a conversation stream and its writers promise to those who write   *)
(* records, without epochs, sequence numbers, retries or flushes: an       *)
(* append-only sequence of batches to which every record is added at most  *)
(* once and as part of one whole batch, and an answer to each caller that  *)
(* never claims more than the log holds.                                   *)
(* An answer may claim less: a rejected record may have landed, or land    *)
(* later, because a failed writer does not know what became of its call.   *)
(***************************************************************************)
EXTENDS Integers, Sequences

CONSTANT Items \* records that may be handed over

VARIABLES
  batches, \* the batches of the log, each the set of its records
  fates    \* what the caller of each record was told

vars == <<batches, fates>>

Unknown == [is |-> "none", offset |-> 0]
Fate(is) == {r \in Items : fates[r].is = is}
InLog == UNION {batches[i] : i \in DOMAIN batches}

Tell(ids, is, offset) ==
  fates' = [r \in Items |-> IF r \in ids THEN [is |-> is, offset |-> offset] ELSE fates[r]]

Init ==
  /\ batches = <<>>
  /\ fates = [r \in Items |-> Unknown]

Hand(r) ==
  /\ r \in Fate("none")
  /\ Tell({r}, "open", 0)
  /\ UNCHANGED batches

Land(batch) ==
  /\ batch # {}
  /\ batch \cap (Fate("none") \cup InLog) = {}
  /\ batches' = Append(batches, batch)
  /\ UNCHANGED fates

Confirm(ids, offset) ==
  /\ ids \subseteq Fate("open")
  /\ offset \in DOMAIN batches
  /\ ids \subseteq batches[offset]
  /\ Tell(ids, "stored", offset)
  /\ UNCHANGED batches

GiveUp(ids, is) ==
  /\ ids \subseteq Fate("open")
  /\ Tell(ids, is, 0)
  /\ UNCHANGED batches

Next ==
  \/ \E r \in Items : Hand(r)
  \/ \E batch \in SUBSET Items : Land(batch)
  \/ \E ids \in SUBSET Items :
       \/ \E offset \in DOMAIN batches : Confirm(ids, offset)
       \/ \E is \in {"rejected", "lost"} : GiveUp(ids, is)

Spec == Init /\ [][Next]_vars
=============================================================================
