----------------------------- MODULE PolicyPair -----------------------------
(* What a change of a deployment's access policy promises: the two policies  *)
(* of a deployment, seen whenever no change is open, both grant exactly what *)
(* its record says, and an open change ends as if it had happened at once or *)
(* not at all.                                                               *)
CONSTANTS Members, Initial, Policies

VARIABLES
    recorded,   \* the principals the record names
    goal,       \* the principals of the open change
    open,       \* is a change open?
    live        \* what the deployment grants in each policy

Init ==
    /\ recorded = Initial /\ goal = {} /\ open = FALSE
    /\ live = [x \in Policies |-> Initial]

Open ==
    /\ ~open /\ open' = TRUE
    /\ goal' \in SUBSET Members
    /\ UNCHANGED <<recorded, live>>

Write ==
    /\ open
    /\ live' \in [Policies -> SUBSET Members]
    /\ UNCHANGED <<recorded, goal, open>>

Close ==
    /\ open /\ open' = FALSE
    /\ recorded' \in {recorded, goal} /\ goal' = {}
    /\ live' = [x \in Policies |-> recorded']

Next == Open \/ Write \/ Close

Spec == Init /\ [][Next]_<<recorded, goal, open, live>>
=============================================================================
