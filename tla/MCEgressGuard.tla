---------------------------- MODULE MCEgressGuard ----------------------------
EXTENDS EgressGuard

\* One content of each verdict.
OneOfEach == [c \in Contents |-> c]
=============================================================================
