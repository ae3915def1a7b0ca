---------------------------- MODULE AgentProjection ----------------------------
(***************************************************************************)
(* The orchestrator together with a consumer of its events.  The agent     *)
(* events that Orchestrator commits reach the stream at least once and in  *)
(* no particular order (that is what EventDelivery promises), and among    *)
(* them the stream holds legacy and foreign messages about the same agent. *)
(* Consumer projects them with the rule of favl_outbox/consumer.py.        *)
(***************************************************************************)
EXTENDS Orchestrator, FiniteSets

CONSTANT Followed    \* the agents the consumer projects

ASSUME FollowedAssumption == Followed \subseteq Agents
ASSUME HandlersAssumption == IsFiniteSet(Handlers)

VARIABLES last, applied, aside    \* see Consumer

projection == <<last, applied, aside>>

\* Deletions that overlap leave an event each.
C == INSTANCE Consumer WITH
       Aggregates <- Followed,
       MaxVersion <- MaxVersion + Cardinality(Handlers),
       produced   <- [a \in Followed |-> Len(events[a])]

ProjectionInit == Init /\ C!Init

\* The schema and completeness of a message about an agent: the envelope of
\* an event, a legacy body, a malformed envelope, and one from the future.
Format(schema, complete) == [schema |-> schema, complete |-> complete]
Formats ==
  {Format(CURRENT_SCHEMA_VERSION, TRUE), Format(NoVersion, TRUE),
   Format(CURRENT_SCHEMA_VERSION, FALSE), Format(CURRENT_SCHEMA_VERSION + 1, TRUE)}

PayloadsOf(a) ==
  {Payload(f.schema, f.complete, events[a][i].version) : f \in Formats, i \in DOMAIN events[a]}

\* One message arrives: for the first time, again, or before its predecessors.
Deliver(a, p) ==
  /\ p \in PayloadsOf(a)
  /\ UNCHANGED vars
  /\ C!Receive(a, p) \/ C!Reject(a, p)

\* The i-th event of the agent arrives, as the envelope wrote it.
DeliverEvent(a, i) ==
  /\ i \in DOMAIN events[a]
  /\ Deliver(a, Payload(CURRENT_SCHEMA_VERSION, TRUE, events[a][i].version))

ProjectionNext ==
  \/ Next /\ UNCHANGED projection
  \/ \E a \in Followed : \E p \in PayloadsOf(a) : Deliver(a, p)

\* The stream keeps what it stores and a consumer that has set a message
\* aside reads it again; nothing is assumed of the handlers.  Before its
\* deletion an agent has no more than MaxVersion events.
ProjectionSpec ==
  /\ ProjectionInit
  /\ [][ProjectionNext]_<<vars, projection>>
  /\ \A a \in Followed : \A i \in 1..MaxVersion :
       WF_<<vars, projection>>(DeliverEvent(a, i))

-----------------------------------------------------------------------------
(* Properties *)

\* consumer.py, "applying it would silently skip state": whatever the stream
\* repeats, reorders or mixes in, and however invocations and deletions of
\* the agent interleave, the consumer has applied its versions 1, 2, 3, ...
\* in order and once each, and none that was never committed.
ProjectionIsAPrefix == C!ProjectionIsAPrefix

\* The orchestrator is a producer of the kind Consumer was written against:
\* every step of the composition is one new event, one message that carries
\* the number of an event already committed, or invisible to the consumer.
ImplementsConsumer == C!Spec

\* main.py, on the increment in invoke_agent: no event of a living agent
\* repeats a number, so a consumer that keeps reading applies all of them.
EveryEventIsApplied ==
  \A a \in Followed : \A n \in 1..MaxVersion :
    (row[a] = "present" /\ Len(events[a]) = n) ~> (last[a] >= n)
=============================================================================
