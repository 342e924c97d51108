--------------------------- MODULE LedgerRefinement ---------------------------
(***************************************************************************)
(* The ledger implements AcceptedWork, alone and under every component that*)
(* writes its rows.  Work that runs, waits for an approval or settles on   *)
(* its own account is active; a delivery joined into another submission    *)
(* still waits.                                                            *)
(***************************************************************************)
EXTENDS SubmissionStore

\* What a caller sees of the status column.
SeenAs(s) ==
  IF rows[s].status = "absent" THEN "new"
  ELSE IF rows[s].status = "settled" THEN "done"
  ELSE IF Executing(s) THEN "active"
  ELSE "waiting"

Promise == INSTANCE AcceptedWork
  WITH Work <- Submissions, LineOf <- SessionOf, Results <- Errors,
       state <- [s \in Submissions |-> SeenAs(s)],
       place <- [s \in Submissions |-> rows[s].sequence],
       turn <- lastSequence,
       result <- [s \in Submissions |-> rows[s].error]

\* Whatever claims, joins, parks, crashes and stale attempts do to the rows,
\* callers see lines of work that start in order and end once.
PromiseIsKept == Promise!Spec
=============================================================================
