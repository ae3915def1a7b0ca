--------------------------- MODULE MCOrchestrator ---------------------------
(* Instances of Orchestrator for TLC. *)
EXTENDS Orchestrator, TLC

\* All agents want the same name.
MCNameOf == [a \in Agents |-> "name"]

\* One agent has two connectors, the others three.
MCFanOut == [a \in Agents |-> IF a = CHOOSE b \in Agents : TRUE THEN 2 ELSE 3]

\* No property tells the handlers apart.
MCSymmetry == Permutations(Handlers)
=============================================================================
