-------------------------- MODULE MCNodeCoordinator --------------------------
(* Small instances of NodeCoordinator. *)
EXTENDS NodeCoordinator

CONSTANTS s1, s2, k1, g1

OneSession == [s \in Submissions |-> k1]
OneAgent == [s \in Submissions |-> g1]
OneDurability == {[maxAttempts |-> 2, timeout |-> 1]}

Aborts == \E s \in Submissions : rows[s].abortRequested
Both == \A s \in Submissions : rows[s].status # "absent" \/ s \in admissions

\* Faults, aborts and the clock with one submission, the clock apart from faults,
\* aborts and shutdown; the second submission without them all.  The clock and the
\* second submission come after start-up.  After a fault nobody but start-up itself
\* starts the loop while start-up is under way.
TroubleForOne ==
  /\ Both => faults = 0 /\ now = 0 /\ Up /\ ~Aborts
  /\ now > 0 => faults = 0 /\ Up /\ ~Aborts /\ shutdown = "no"
  /\ faults > 0 => Up \/ threads.start.pc = "await" \/ threads.loop.pc = "off"
==============================================================================
