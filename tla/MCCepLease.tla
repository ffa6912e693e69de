----------------------------- MODULE MCCepLease -----------------------------
(* Instances of CepLease for TLC: two organisational units and a group of one *)
(* customer.                                                                  *)
EXTENDS CepLease, TLC

CONSTANTS ou1, group1, customer     \* scopes
CONSTANTS unit, other, ingroup      \* requests

\* "unit" creates in its organisational unit and for the whole customer, "other"
\* is about the customer only, and "ingroup" is for a group.
RequestKeys == (unit :> {ou1, customer}) @@ (other :> {customer}) @@ (ingroup :> {group1})
RequestCreates == (unit :> {ou1, customer}) @@ (other :> {customer}) @@ (ingroup :> {group1})
=============================================================================
