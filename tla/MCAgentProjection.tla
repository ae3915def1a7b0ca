-------------------------- MODULE MCAgentProjection --------------------------
(* Instance of AgentProjection for TLC. *)
EXTENDS AgentProjection

CONSTANTS a1, a2

TwoAgents == {a1, a2}

\* Both agents want the same name; one has more connectors than the limit.
MCNameOf == [a \in TwoAgents |-> "name"]
MCFanOut == [a \in TwoAgents |-> IF a = a1 THEN 1 ELSE 2]
=============================================================================
