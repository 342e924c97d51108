-------------------------- MODULE MCFoldCheckpoints --------------------------
(* Instances of FoldCheckpoints for TLC. *)
EXTENDS FoldCheckpoints, TLC

Alike == Permutations(Producers)
=============================================================================
