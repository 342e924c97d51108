----------------------- MODULE MCSubmissionProcessing -----------------------
(* Instances of SubmissionProcessing for TLC. *)
EXTENDS SubmissionProcessing, TLC

CONSTANTS s1, s2, k1, g1, x1, x2

OneSession == [s \in Submissions |-> k1]
OneAgent == [s \in Submissions |-> g1]
TwoTries == {[maxAttempts |-> 2, timeout |-> 2]}
Alike == Permutations(Executors) \cup Permutations(Submissions)
\* Bound: hooks continue a response while one submission is admitted.
CyclesForOne == Cycles = 0 \/ lastSequence = 1
=============================================================================
