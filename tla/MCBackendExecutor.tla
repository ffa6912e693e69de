------------------------- MODULE MCBackendExecutor -------------------------
(* Instances of BackendExecutor for TLC.                                      *)
EXTENDS BackendExecutor
=============================================================================
