--------------------------- MODULE MCPolicyUpdate ---------------------------
(* Small instances of PolicyUpdate for TLC.                                  *)
EXTENDS PolicyUpdate

CONSTANTS a, b

OnlyA == {a}
=============================================================================
