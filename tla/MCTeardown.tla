---------------------------- MODULE MCTeardown -----------------------------
(* Small deployments for TLC: resources are numbered in the order of the     *)
(* plan, and each but the first was built on the one before it.              *)
EXTENDS Teardown

\* 1 is a reused resource, the others were created.
OneReused == {1}

Nothing == {}

ChainOfNeeds == {<<r + 1, r>> : r \in {k \in Resources : k + 1 \in Resources}}

\* The store returns the rows by the digest of their key: here, the reverse of
\* the order of the plan.
DigestRank == [r \in Resources |-> 10 - r]
=============================================================================
