-------------------------- MODULE MCSubmissionStore --------------------------
(***************************************************************************)
(* Small instance of SubmissionStore: one session and agent that three     *)
(* submissions share, the last of which does not parse.                    *)
(***************************************************************************)
EXTENDS SubmissionStore, TLC

CONSTANTS s1, s2, s3, k1, a1

MCSessionOf == [s \in Submissions |-> k1]
MCAgentOf == [s \in Submissions |-> a1]
MCDurabilities == {[maxAttempts |-> 1, timeout |-> 2]}

Symmetric == Permutations(Submissions \ Malformed)
\* Bound: the clock moves while at most two submissions are admitted.
ClockForTwo == now = 0 \/ lastSequence <= 2
=============================================================================
