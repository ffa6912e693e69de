------------------------------ MODULE Release ------------------------------
(* What dismantling a deployment promises, whoever does it and however often *)
(* it is retried: a resource disappears before its row of the inventory, the *)
(* run is over when every row that may go has gone, and nothing comes back.  *)
CONSTANTS Resources, Retained

VARIABLES
    cloud,  \* the resources that exist at the provider
    inv,    \* the rows of the ownership inventory
    run     \* the source run: "settled", then "deleted"

Init == cloud = Resources /\ inv = Resources /\ run = "settled"

Vanish(r) ==
    /\ r \in cloud \ Retained
    /\ cloud' = cloud \ {r}
    /\ UNCHANGED <<inv, run>>

\* The last row may go together with the run.
Drop(r) ==
    /\ r \in inv \ (Retained \union cloud)
    /\ inv' = inv \ {r}
    /\ run' = run \/ (inv' = Retained /\ run' = "deleted")
    /\ UNCHANGED cloud

\* A run whose rows were already gone.
Finish ==
    /\ inv = Retained
    /\ run' = "deleted"
    /\ UNCHANGED <<cloud, inv>>

Next == (\E r \in Resources : Vanish(r) \/ Drop(r)) \/ Finish

Spec == Init /\ [][Next]_<<cloud, inv, run>>
=============================================================================
