----------------------------- MODULE UnitsOfWork -----------------------------
(***************************************************************************)
(* What the shared connection promises to the stores built on it: at any   *)
(* time at most one task has a unit of work open, its rows become durable  *)
(* all at once when it commits, and whatever it does not commit is gone    *)
(* before the next task enters.                                            *)
(***************************************************************************)
CONSTANTS Tasks, Nobody, Rows

VARIABLES holder, pending, durable

vars == <<holder, pending, durable>>

Init ==
    /\ holder = Nobody
    /\ pending = {}
    /\ durable = {}

Enter(t) ==
    /\ holder = Nobody
    /\ pending = {}
    /\ holder' = t
    /\ UNCHANGED <<pending, durable>>

(* Writes, and rollbacks of a part of the unit.                             *)
Work(t) ==
    /\ holder = t
    /\ pending' \in SUBSET (Rows \ durable)
    /\ UNCHANGED <<holder, durable>>

Commit(t) ==
    /\ holder = t
    /\ durable' = durable \cup pending
    /\ pending' = {}
    /\ holder' = Nobody

Abandon(t) ==
    /\ holder = t
    /\ pending' = {}
    /\ holder' = Nobody
    /\ UNCHANGED durable

Next == \E t \in Tasks : Enter(t) \/ Work(t) \/ Commit(t) \/ Abandon(t)

Spec == Init /\ [][Next]_vars
==============================================================================
