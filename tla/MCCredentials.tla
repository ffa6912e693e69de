---------------------------- MODULE MCCredentials ---------------------------
(* Instances of Credentials for TLC.                                          *)
EXTENDS Credentials

CONSTANTS c1, c2            \* callers
CONSTANTS o1, o2, o3, o4    \* objects
=============================================================================
