---------------------------- MODULE MCRunEngine ----------------------------
(* Instances of RunEngine for TLC.                                           *)
EXTENDS RunEngine

\* One step of each way to prove ownership, in plan order.
MarkedOnly == <<"marked">>
IamOnly == <<"iam">>
UnmarkedOnly == <<"unmarked">>
MarkedIam == <<"marked", "iam">>
UnmarkedMarked == <<"unmarked", "marked">>
=============================================================================
