----------------------------- MODULE TaskGraph -----------------------------
(***************************************************************************)
(* What either scheduler promises: every request is cut into tasks, a task *)
(* is proved only after the tasks it needs, and a request is served with   *)
(* the proof of its top task or abandoned, for good.  The production       *)
(* scheduler proves tasks side by side, the local one depth first; both    *)
(* implement this specification.  It does not count proofs: obtaining a    *)
(* task again changes nothing.                                             *)
(***************************************************************************)
CONSTANTS
    Requests,
    Tasks,
    Needs,      \* Needs[t]: the tasks whose proofs t aggregates
    TopOf       \* TopOf[r]: the task whose proof answers the request

VARIABLES
    obtained,   \* tasks whose proof the scheduler has obtained
    outcome     \* outcome[r]: how the request ended, if it has

vars == <<obtained, outcome>>

Init ==
    /\ obtained = {}
    /\ outcome = [r \in Requests |-> "open"]

Obtain(t) ==
    /\ t \notin obtained
    /\ Needs[t] \subseteq obtained
    /\ obtained' = obtained \cup {t}
    /\ UNCHANGED outcome

Serve(r) ==
    /\ outcome[r] = "open"
    /\ TopOf[r] \in obtained
    /\ outcome' = [outcome EXCEPT ![r] = "served"]
    /\ UNCHANGED obtained

Abandon(r) ==
    /\ outcome[r] = "open"
    /\ outcome' = [outcome EXCEPT ![r] = "abandoned"]
    /\ UNCHANGED obtained

Next ==
    \/ \E t \in Tasks : Obtain(t)
    \/ \E r \in Requests : Serve(r) \/ Abandon(r)

Spec == Init /\ [][Next]_vars
=============================================================================
