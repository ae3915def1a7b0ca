---------------------------- MODULE EventDelivery ----------------------------
(***************************************************************************)
(* What the transactional outbox promises the rest of the system, without  *)
(* publishers, batches, locks or connections.  An event exists once the    *)
(* business transaction that staged it has committed; only such events     *)
(* reach the stream; an event is marked published only if the stream has   *)
(* it; and an event that was settled, published or dead, stays settled.    *)
(***************************************************************************)
CONSTANT Rows

VARIABLES
  state,       \* the committed status of each event
  delivered    \* the events the stream holds

Init ==
  /\ state = [m \in Rows |-> "absent"]
  /\ delivered = {}

\* Business transactions commit.
Stage(m) ==
  /\ state[m] = "absent"
  /\ state' = [state EXCEPT ![m] = "pending"]
  /\ UNCHANGED delivered

Deliver(m) ==
  /\ state[m] # "absent"
  /\ delivered' = delivered \cup {m}
  /\ UNCHANGED state

\* A batch commits: some pending events are settled together.
Settle(ok, dead) ==
  /\ ok \cap dead = {}
  /\ \A m \in ok \cup dead : state[m] = "pending"
  /\ ok \subseteq delivered
  /\ state' = [m \in Rows |-> IF m \in ok THEN "published"
                              ELSE IF m \in dead THEN "dead"
                              ELSE state[m]]
  /\ UNCHANGED delivered

Next ==
  \/ \E m \in Rows : Stage(m) \/ Deliver(m)
  \/ \E ok, dead \in SUBSET Rows : Settle(ok, dead)

Spec == Init /\ [][Next]_<<state, delivered>>
=============================================================================
