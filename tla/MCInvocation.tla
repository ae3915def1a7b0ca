---------------------------- MODULE MCInvocation ----------------------------
(* Instances of Invocation for TLC. *)
EXTENDS Invocation

\* All keys belong to one connector.
MCConnectorOf == [k \in Keys |-> CHOOSE c \in Connectors : TRUE]
=============================================================================
