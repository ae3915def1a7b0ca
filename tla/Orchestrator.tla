----------------------------- MODULE Orchestrator -----------------------------
(***************************************************************************)
(* services/orchestrator: the agents table, the agent events staged in the *)
(* outbox, and the handlers that create, delete and invoke agents.         *)
(*                                                                         *)
(* invoke_agent ends its first transaction before it fans out to the       *)
(* connectors of the agent, one internal call after the other, and opens a *)
(* second one, with the row locked and re-read, to record the invocation.  *)
(* delete_agent reads the row without a lock and writes at its commit.     *)
(* Every await in between lets the other handlers run.                     *)
(*                                                                         *)
(* The connector registry is external here: it answers the internal call   *)
(* with what Invocation says it may answer, or not at all.                 *)
(***************************************************************************)
EXTENDS EventContract, Sequences

CONSTANTS
  Agents,        \* agent ids (uuid4: used for one row only)
  NameOf,        \* the name each is created under, within one tenant
  FanOut,        \* how many connectors each has
  MAX_FAN_OUT,
  Handlers,
  MaxVersion     \* bound on agents.version

ASSUME FanOutAssumption == FanOut \in [Agents -> Nat] /\ MAX_FAN_OUT \in Nat
ASSUME VersionAssumption == MaxVersion \in Nat \ {0}

VARIABLES
  row,       \* "absent", "present", or "gone" once deleted
  version,   \* agents.version
  events,    \* outbox events of the agent, in commit order
  pc, agent, \* each handler: where it is, and the agent it serves
  seen,      \* the version a delete has read
  outputs    \* the outputs an invoke has collected

db    == <<row, version, events>>
local == <<pc, agent, seen, outputs>>
vars  == <<row, version, events, pc, agent, seen, outputs>>

Event(v, subject) == [version |-> v, subject |-> subject]

Init ==
  /\ row     = [a \in Agents |-> "absent"]
  /\ version = [a \in Agents |-> 0]
  /\ events  = [a \in Agents |-> <<>>]
  /\ pc      = [h \in Handlers |-> "idle"]
  /\ agent   \in [Handlers -> Agents]
  /\ seen    = [h \in Handlers |-> 0]
  /\ outputs = [h \in Handlers |-> <<>>]

-----------------------------------------------------------------------------

\* The end of a handler, whatever it answers.
Done(h) ==
  /\ pc'      = [pc EXCEPT ![h] = "idle"]
  /\ seen'    = [seen EXCEPT ![h] = 0]
  /\ outputs' = [outputs EXCEPT ![h] = <<>>]
  /\ UNCHANGED agent

\* uq_agents_tenant_name.
NameTaken(a) == \E b \in Agents : row[b] = "present" /\ NameOf[b] = NameOf[a]

\* create_agent: the row and its event in one commit.
CreateAgent(h, a) ==
  /\ pc[h] = "idle"
  /\ row[a] = "absent"
  /\ ~NameTaken(a)
  /\ row'     = [row EXCEPT ![a] = "present"]
  /\ version' = [version EXCEPT ![a] = 1]
  /\ events'  = [events EXCEPT ![a] = <<Event(1, "agent.created")>>]
  /\ UNCHANGED local

\* delete_agent up to its commit: _tenant_agent loads the row.
BeginDelete(h, a) ==
  /\ pc[h] = "idle"
  /\ row[a] = "present"
  /\ pc'    = [pc EXCEPT ![h] = "deleting"]
  /\ agent' = [agent EXCEPT ![h] = a]
  /\ seen'  = [seen EXCEPT ![h] = version[a]]
  /\ UNCHANGED <<db, outputs>>

\* Mutant: the row is deleted without an event.
MutantEndDelete(h) ==
  /\ pc[h] = "deleting"
  /\ row' = [row EXCEPT ![agent[h]] = "gone"]
  /\ UNCHANGED <<version, events>>
  /\ Done(h)

\* Its commit.  A DELETE that matches no row, because another handler has
\* deleted it since, is a warning: the event is staged all the same.
EndDelete(h) ==
  LET a == agent[h] IN
  /\ pc[h] = "deleting"
  /\ row'    = [row EXCEPT ![a] = "gone"]
  /\ events' = [events EXCEPT ![a] = Append(@, Event(seen[h] + 1, "agent.deleted"))]
  /\ UNCHANGED version
  /\ Done(h)

\* Mutant: no limit on the fan-out.
MutantBeginInvoke(h, a) ==
  /\ pc[h] = "idle"
  /\ row[a] = "present"
  /\ pc'    = [pc EXCEPT ![h] = "invoking"]
  /\ agent' = [agent EXCEPT ![h] = a]
  /\ UNCHANGED <<db, seen, outputs>>

\* invoke_agent up to the rollback that releases the connection.
BeginInvoke(h, a) ==
  /\ pc[h] = "idle"
  /\ row[a] = "present"
  /\ FanOut[a] <= MAX_FAN_OUT
  /\ pc'    = [pc EXCEPT ![h] = "invoking"]
  /\ agent' = [agent EXCEPT ![h] = a]
  /\ UNCHANGED <<db, seen, outputs>>

\* What the registry may answer: 200, 202, a 4xx or 5xx, or nothing in time.
Replies == {"succeeded", "in_flight", "failed", "unreachable"}

\* Below 400 the output is reported as completed.
reported(reply) ==
  IF reply \in {"succeeded", "in_flight"} THEN "completed" ELSE "failed"

\* One iteration of the fan-out.
CallConnector(h, reply) ==
  /\ pc[h] = "invoking"
  /\ Len(outputs[h]) < FanOut[agent[h]]
  /\ outputs' = [outputs EXCEPT ![h] =
                   Append(@, [status |-> reported(reply), invocation |-> reply])]
  /\ UNCHANGED <<db, pc, agent, seen>>

\* Mutant: the version is not incremented.
MutantEndInvokeVersion(h) ==
  /\ pc[h] = "invoking"
  /\ Len(outputs[h]) = FanOut[agent[h]]
  /\ IF row[agent[h]] = "present"
     THEN events' = [events EXCEPT ![agent[h]] =
                       Append(@, Event(version[agent[h]], "agent.invoked"))]
     ELSE UNCHANGED events
  /\ UNCHANGED <<row, version>>
  /\ Done(h)

\* Mutant: the row is not read again after the fan-out.
MutantEndInvokeBlind(h) ==
  /\ pc[h] = "invoking"
  /\ Len(outputs[h]) = FanOut[agent[h]]
  /\ version[agent[h]] < MaxVersion
  /\ version' = [version EXCEPT ![agent[h]] = @ + 1]
  /\ events'  = [events EXCEPT ![agent[h]] =
                   Append(@, Event(version[agent[h]] + 1, "agent.invoked"))]
  /\ UNCHANGED row
  /\ Done(h)

\* Mutant: the version is incremented in the row and again in the event.
MutantEndInvokeTwice(h) ==
  LET a == agent[h] IN
  /\ pc[h] = "invoking"
  /\ Len(outputs[h]) = FanOut[a]
  /\ IF row[a] = "present"
     THEN /\ version[a] < MaxVersion
          /\ version' = [version EXCEPT ![a] = @ + 1]
          /\ events'  = [events EXCEPT ![a] =
                           Append(@, Event(version[a] + 2, "agent.invoked"))]
          /\ UNCHANGED row
     ELSE UNCHANGED db
  /\ Done(h)

\* The second transaction.  An agent deleted in the meantime is a 404, or a
\* failed refresh, and the invocation is not recorded.
EndInvoke(h) ==
  LET a == agent[h] IN
  /\ pc[h] = "invoking"
  /\ Len(outputs[h]) = FanOut[a]
  /\ IF row[a] = "present"
     THEN /\ version[a] < MaxVersion
          /\ version' = [version EXCEPT ![a] = @ + 1]
          /\ events'  = [events EXCEPT ![a] =
                           Append(@, Event(version[a] + 1, "agent.invoked"))]
          /\ UNCHANGED row
     ELSE UNCHANGED db
  /\ Done(h)

\* The worker dies, or the client of the handler goes away.
Abandon(h) ==
  /\ pc[h] # "idle"
  /\ Done(h)
  /\ UNCHANGED db

\* The early answers: 404 for an agent that is not there, 409 for a name
\* that is taken, 422 for too wide a fan-out.
Refuse(h, a) ==
  /\ pc[h] = "idle"
  /\ row[a] # "present" \/ NameTaken(a) \/ FanOut[a] > MAX_FAN_OUT
  /\ UNCHANGED vars

Next ==
  \E h \in Handlers :
    \/ EndDelete(h) \/ EndInvoke(h) \/ Abandon(h)
    \/ \E reply \in Replies : CallConnector(h, reply)
    \/ \E a \in Agents :
         CreateAgent(h, a) \/ BeginDelete(h, a) \/ BeginInvoke(h, a) \/ Refuse(h, a)

Spec == Init /\ [][Next]_vars

-----------------------------------------------------------------------------
(* Properties *)

Subjects == {"agent.created", "agent.invoked", "agent.deleted"}

\* Every variable holds a value of the column or handler state it models.
TypeOK ==
  /\ row \in [Agents -> {"absent", "present", "gone"}]
  /\ version \in [Agents -> 0..MaxVersion]
  /\ events \in [Agents -> Seq([version : 1..(MaxVersion + 1), subject : Subjects])]
  /\ pc \in [Handlers -> {"idle", "deleting", "invoking"}]
  /\ agent \in [Handlers -> Agents]
  /\ seen \in [Handlers -> 0..MaxVersion]
  /\ outputs \in [Handlers -> Seq([status : {"completed", "failed"},
                                   invocation : Replies])]
  /\ \A h \in Handlers : Len(outputs[h]) <= MAX_FAN_OUT

\* What a consumer that gets the events of an agent in commit order decides
\* on the i-th of them, having applied the ones before it.
Decision(a, i) ==
  version_decision(events[a][i].version,
                   IF i = 1 THEN NoVersion ELSE events[a][i - 1].version)

\* As long as an agent exists a consumer following version_decision applies
\* every one of its events, however its invocations interleaved ("Without the
\* increment every agent.invoked event carried version 1", main.py).
LiveAgentIsFollowed ==
  \A a \in Agents : row[a] = "present" =>
    /\ Len(events[a]) = version[a]
    /\ \A i \in DOMAIN events[a] : Decision(a, i) = "apply"

\* Nothing is recorded of an agent after its deletion: an invocation that
\* was fanning out when the agent was deleted leaves no event behind.
NothingAfterDeletion ==
  \A a \in Agents : \A i, j \in DOMAIN events[a] :
    i < j /\ events[a][i].subject = "agent.deleted" => events[a][j].subject = "agent.deleted"

\* An agent exists exactly as long as its events say so.
EventsMatchExistence ==
  \A a \in Agents :
    /\ row[a] = "absent" <=> events[a] = <<>>
    /\ row[a] = "gone" <=> \E i \in DOMAIN events[a] : events[a][i].subject = "agent.deleted"

-----------------------------------------------------------------------------
(* What the documentation says and the code does not do; see README.md. *)

\* models.py: the version is "stamped onto every emitted event so consumers
\* can reject stale deliveries": a consumer applying that rule to the events
\* of a deleted agent, in commit order, learns that the agent is gone.
DeletionIsSeen ==
  \A a \in Agents : row[a] = "gone" =>
    \E i \in DOMAIN events[a] :
      events[a][i].subject = "agent.deleted" /\ Decision(a, i) = "apply"
=============================================================================
