-------------------------- MODULE AbstractLifecycle --------------------------
(***************************************************************************)
(* What the lifecycle table promises: a connector is created once, in a    *)
(* creatable state, and from then on moves only along one edge of the      *)
(* table at a time ("nothing else is permitted to write                    *)
(* `connectors.status`", README.md), until somebody asks for its deletion, *)
(* which the DELETE endpoint grants from every state but "deleted".  A     *)
(* deletion request is the end of the story here; ConnectorRegistry shows  *)
(* what may still happen to the row.                                       *)
(***************************************************************************)
EXTENDS Lifecycle

CONSTANT Connectors

VARIABLE status

Init == status = [c \in Connectors |-> Absent]

Create(c) ==
  /\ status[c] = Absent
  /\ \E s \in CREATABLE_STATES : status' = [status EXCEPT ![c] = s]

Move(c) ==
  \E e \in TRANSITIONS :
    /\ status[c] = e.source
    /\ status' = [status EXCEPT ![c] = e.target]

Withdraw(c) ==
  /\ status[c] \notin {Absent, "deleted"}
  /\ status' = [status EXCEPT ![c] = "deletion_requested"]

Next == \E c \in Connectors : Create(c) \/ Move(c) \/ Withdraw(c)

Spec == Init /\ [][Next]_status
=============================================================================
