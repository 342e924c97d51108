----------------------------- MODULE AcceptedWork -----------------------------
(***************************************************************************)
(* What a caller of the runtime is promised about the work it submits, free*)
(* of attempts, leases, joins and approvals: work that was accepted stands *)
(* in a line per session, is started only as the first of its line, may be *)
(* put back but keeps its place, and is finished once, with one result.    *)
(* Work that is first may take work behind it along when it finishes.      *)
(***************************************************************************)
EXTENDS Naturals

CONSTANTS
  Work,    \* what can be submitted
  LineOf,  \* the session of the work
  Results, \* how work may end: None (success), or the kind of its error
  None

VARIABLES
  state,   \* "new", "waiting", "active" or "done"
  place,   \* the place in line, 0 until accepted
  turn,    \* the last place given
  result   \* how the work ended

workVars == <<state, place, turn, result>>

Open(w) == state[w] \in {"waiting", "active"}
Ahead(v, w) == LineOf[v] = LineOf[w] /\ place[v] < place[w]
IsFirst(w) == \A v \in Work : Ahead(v, w) => ~Open(v)

Init ==
  /\ state = [w \in Work |-> "new"]
  /\ place = [w \in Work |-> 0]
  /\ turn = 0
  /\ result = [w \in Work |-> None]

Accept(w) ==
  /\ state[w] = "new"
  /\ state' = [state EXCEPT ![w] = "waiting"]
  /\ turn' = turn + 1
  /\ place' = [place EXCEPT ![w] = turn + 1]
  /\ UNCHANGED result

Start(w) ==
  /\ state[w] = "waiting"
  /\ IsFirst(w)
  /\ state' = [state EXCEPT ![w] = "active"]
  /\ UNCHANGED <<place, turn, result>>

\* A crash or an approval puts work back; several lines may be concerned at once.
PutBack(W) ==
  /\ \A w \in W : state[w] = "active"
  /\ state' = [w \in Work |-> IF w \in W THEN "waiting" ELSE state[w]]
  /\ UNCHANGED <<place, turn, result>>

\* Work ends by itself, or as the first of its line with the work W behind it.
Finish(w, W, r) ==
  /\ Open(w)
  /\ \A v \in W : Ahead(w, v) /\ state[v] = "waiting"
  /\ W # {} => IsFirst(w)
  /\ state' = [v \in Work |-> IF v = w \/ v \in W THEN "done" ELSE state[v]]
  /\ result' = [v \in Work |-> IF v = w \/ v \in W THEN r ELSE result[v]]
  /\ UNCHANGED <<place, turn>>

Next ==
  \/ \E w \in Work : Accept(w) \/ Start(w)
  \/ \E W \in SUBSET Work : PutBack(W)
  \/ \E w \in Work, W \in SUBSET Work, r \in Results : Finish(w, W, r)

Spec == Init /\ [][Next]_workVars
=============================================================================
