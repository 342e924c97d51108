--------------------------- MODULE MCToolApprovals ---------------------------
(***************************************************************************)
(* Small instances of ToolApprovals.                                       *)
(***************************************************************************)
EXTENDS ToolApprovals, LedgerRefinement

CONSTANTS s1, s2, k1, k2, a1, p1, p2, g1

MCSessionOf == [s \in Submissions |-> k1]
MCAgentOf == [s \in Submissions |-> a1]
MCDurabilities == {[maxAttempts |-> 1, timeout |-> 2]}

\* Both calls are made by s1, or each by its own submission.
MCSameSubmission == [p \in Proposals |-> s1]
MCOwnSubmission == [p \in Proposals |-> IF p = p1 THEN s1 ELSE s2]
MCGroupOf == [p \in Proposals |-> g1]
MCNoGroup == [p \in Proposals |-> None]
MCLifetimes == {None, 1}
MCNoLifetime == {None}
MCOneLifetime == {1}
=============================================================================
