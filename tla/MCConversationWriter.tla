-------------------------- MODULE MCConversationWriter --------------------------
(***************************************************************************)
(* Instances of ConversationWriter for TLC.                                *)
(***************************************************************************)
EXTENDS ConversationRefinement, FiniteSets

CONSTANTS p1, p2, a1, a2

\* Bound: calls under way once a host holds a fold, and while it advances.
\* Without a fold there is no such bound.
FewCallsWhenFolding ==
  \A p \in Producers :
    /\ hosts[p].state # None => Cardinality(calls) <= 2
    /\ hosts[p].advance # None => Cardinality(calls) <= 1
=============================================================================
