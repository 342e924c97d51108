------------------------ MODULE ConversationRefinement ------------------------
(***************************************************************************)
(* The stream and its writers as an implementation of DurableLog: the      *)
(* mapping forgets epochs, keys, owners, calls, tails and folds.           *)
(***************************************************************************)
EXTENDS ConversationWriter

\* The records of each offset.
RecordsAt == [i \in DOMAIN log |-> Ids(log[i].batch.records)]

Log == INSTANCE DurableLog WITH
         Items <- RecordIds, batches <- RecordsAt, fates <- answers

\* Retries, lost answers, late calls, fenced writers, failures and crashes look
\* like an append-only log in which a record lands once and whole, and whose
\* answers are true.
LogPromiseIsKept == Log!Spec
=============================================================================
