------------------------- MODULE AgentProjectionProofs -------------------------
(***************************************************************************)
(* What TLAPS proves of the orchestrator, for any agents, handlers,        *)
(* fan-outs and any bound on versions, and of the orchestrator with a      *)
(* consumer of its events: the orchestrator is a producer as Consumer      *)
(* expects it, and what the consumer has applied is a prefix of what was   *)
(* committed.                                                              *)
(***************************************************************************)
EXTENDS AgentProjection, SequenceTheorems, FiniteSetTheorems, TLAPS

-----------------------------------------------------------------------------
(* The orchestrator: the invariant *)

EventRecords == [version : 1..(MaxVersion + 1), subject : Subjects]

\* A handler that fans out passed the check on the fan-out.
FanOutChecked ==
  \A h \in Handlers : pc[h] = "invoking" => FanOut[agent[h]] <= MAX_FAN_OUT

\* The i-th event of an agent that exists has number i and is no deletion.
LiveAgentIsNumbered ==
  \A a \in Agents : row[a] = "present" =>
    /\ Len(events[a]) = version[a]
    /\ \A i \in DOMAIN events[a] :
         events[a][i].version = i /\ events[a][i].subject # "agent.deleted"

IInv ==
  /\ TypeOK
  /\ FanOutChecked
  /\ LiveAgentIsNumbered
  /\ NothingAfterDeletion
  /\ EventsMatchExistence

\* The part of it that is about the tables, for one agent.
Consistent(r, v, es) ==
  /\ r = "present" =>
       /\ Len(es) = v
       /\ \A i \in DOMAIN es : es[i].version = i /\ es[i].subject # "agent.deleted"
  /\ \A i, j \in DOMAIN es :
       i < j /\ es[i].subject = "agent.deleted" => es[j].subject = "agent.deleted"
  /\ r = "absent" <=> es = <<>>
  /\ r = "gone" <=> \E i \in DOMAIN es : es[i].subject = "agent.deleted"

LEMMA ConsistentEach ==
  LiveAgentIsNumbered /\ NothingAfterDeletion /\ EventsMatchExistence
    <=> \A a \in Agents : Consistent(row[a], version[a], events[a])
BY DEF LiveAgentIsNumbered, NothingAfterDeletion, EventsMatchExistence, Consistent

-----------------------------------------------------------------------------
(* What the three writes do to an agent *)

LEMMA CreationIsConsistent == Consistent("present", 1, <<Event(1, "agent.created")>>)
BY DEF Consistent, Event

LEMMA InvocationIsConsistent ==
  ASSUME NEW v \in Nat, NEW es \in Seq(EventRecords), Consistent("present", v, es),
         v < MaxVersion
  PROVE  Consistent("present", v + 1, Append(es, Event(v + 1, "agent.invoked")))
<1> DEFINE e == Event(v + 1, "agent.invoked")
           fs == Append(es, e)
<1>1. e \in EventRecords /\ e.version = v + 1 /\ e.subject = "agent.invoked"
  BY VersionAssumption DEF Event, EventRecords, Subjects
<1> HIDE DEF e
<1>2. Len(es) = v /\ \A i \in DOMAIN es : es[i].version = i /\ es[i].subject # "agent.deleted"
  BY DEF Consistent
<1>3. /\ fs \in Seq(EventRecords) /\ fs # <<>> /\ Len(fs) = v + 1
      /\ \A i \in 1..v : fs[i] = es[i]
      /\ fs[v + 1] = e
  BY <1>1, <1>2, AppendProperties
<1> HIDE DEF fs
<1>4. \A i \in DOMAIN fs : fs[i].version = i /\ fs[i].subject # "agent.deleted"
  <2> SUFFICES ASSUME NEW i \in 1..(v + 1)
               PROVE  fs[i].version = i /\ fs[i].subject # "agent.deleted"
    BY <1>3
  <2>1. CASE i = v + 1
    BY <1>1, <1>3, <2>1
  <2>2. CASE i # v + 1
    <3>1. i \in 1..v /\ i \in DOMAIN es
      BY <1>2, <2>2
    <3> QED
      BY <1>2, <1>3, <3>1
  <2> QED
    BY <2>1, <2>2
<1> QED
  BY <1>3, <1>4 DEF Consistent, fs, e

LEMMA DeletionIsConsistent ==
  ASSUME NEW r, NEW v, NEW w, NEW es \in Seq(EventRecords), Consistent(r, v, es),
         NEW s \in 0..MaxVersion
  PROVE  Consistent("gone", w, Append(es, Event(s + 1, "agent.deleted")))
<1> DEFINE e == Event(s + 1, "agent.deleted")
           fs == Append(es, e)
<1>1. e \in EventRecords /\ e.subject = "agent.deleted"
  BY VersionAssumption DEF Event, EventRecords, Subjects
<1> HIDE DEF e
<1>2. /\ fs \in Seq(EventRecords) /\ fs # <<>> /\ Len(fs) = Len(es) + 1
      /\ \A i \in 1..Len(es) : fs[i] = es[i]
      /\ fs[Len(es) + 1] = e
      /\ Len(es) \in Nat
  BY <1>1, AppendProperties
<1> HIDE DEF fs
<1>3. \E i \in DOMAIN fs : fs[i].subject = "agent.deleted"
  BY <1>1, <1>2
<1>4. ASSUME NEW i \in DOMAIN fs, NEW j \in DOMAIN fs, i < j,
             fs[i].subject = "agent.deleted"
      PROVE  fs[j].subject = "agent.deleted"
  <2>1. i \in 1..Len(es)
    BY <1>2, <1>4
  <2>2. CASE j = Len(es) + 1
    BY <1>1, <1>2, <2>2
  <2>3. CASE j # Len(es) + 1
    <3>1. j \in 1..Len(es)
      BY <1>2, <2>3
    <3> QED
      BY <1>2, <1>4, <2>1, <3>1 DEF Consistent
  <2> QED
    BY <2>2, <2>3
<1> QED
  BY <1>2, <1>3, <1>4 DEF Consistent, fs, e

-----------------------------------------------------------------------------
(* Each step *)

LEMMA InitIInv == Init => IInv
<1> SUFFICES ASSUME Init PROVE IInv
  OBVIOUS
<1>1. TypeOK
  BY FanOutAssumption, VersionAssumption DEF Init, TypeOK
<1>2. FanOutChecked
  BY DEF Init, FanOutChecked
<1>3. \A a \in Agents : Consistent(row[a], version[a], events[a])
  BY DEF Init, Consistent
<1> QED
  BY <1>1, <1>2, <1>3, ConsistentEach DEF IInv

\* Only one agent is written at a time.
LEMMA OneAgentWritten ==
  ASSUME IInv, NEW a \in Agents, NEW r, NEW v, NEW es,
         row' = [row EXCEPT ![a] = r],
         version' = [version EXCEPT ![a] = v],
         events' = [events EXCEPT ![a] = es],
         Consistent(r, v, es)
  PROVE  \A b \in Agents : Consistent(row'[b], version'[b], events'[b])
BY ConsistentEach DEF IInv, TypeOK

LEMMA TablesUnchanged ==
  ASSUME IInv, UNCHANGED db
  PROVE  \A b \in Agents : Consistent(row'[b], version'[b], events'[b])
BY ConsistentEach DEF IInv, db

LEMMA Primed ==
  (\A b \in Agents : Consistent(row'[b], version'[b], events'[b]))
    => LiveAgentIsNumbered' /\ NothingAfterDeletion' /\ EventsMatchExistence'
BY DEF LiveAgentIsNumbered, NothingAfterDeletion, EventsMatchExistence, Consistent

LEMMA DoneLocal ==
  ASSUME IInv, NEW h \in Handlers, Done(h)
  PROVE  /\ pc' \in [Handlers -> {"idle", "deleting", "invoking"}]
         /\ agent' \in [Handlers -> Agents]
         /\ seen' \in [Handlers -> 0..MaxVersion]
         /\ outputs' \in [Handlers -> Seq([status : {"completed", "failed"},
                                          invocation : Replies])]
         /\ \A g \in Handlers : Len(outputs'[g]) <= MAX_FAN_OUT
         /\ FanOutChecked'
<1> DEFINE Outputs == Seq([status : {"completed", "failed"}, invocation : Replies])
<1>1. outputs' = [outputs EXCEPT ![h] = <<>>] /\ outputs \in [Handlers -> Outputs]
  BY DEF Done, IInv, TypeOK
<1>2. <<>> \in Outputs /\ Len(<<>>) = 0
  OBVIOUS
<1>3. \A g \in Handlers : Len(outputs[g]) <= MAX_FAN_OUT
  BY DEF IInv, TypeOK
<1> HIDE DEF Outputs
<1>4. outputs' \in [Handlers -> Outputs]
  BY <1>1, <1>2
<1>5. ASSUME NEW g \in Handlers PROVE Len(outputs'[g]) <= MAX_FAN_OUT
  <2>1. CASE g = h
    BY <1>1, <1>2, <2>1, FanOutAssumption
  <2>2. CASE g # h
    BY <1>1, <1>3, <2>2
  <2> QED
    BY <2>1, <2>2
<1>6. pc' \in [Handlers -> {"idle", "deleting", "invoking"}] /\ agent' \in [Handlers -> Agents]
  BY DEF Done, IInv, TypeOK
<1>7. seen' \in [Handlers -> 0..MaxVersion]
  BY VersionAssumption DEF Done, IInv, TypeOK
<1>8. FanOutChecked'
  BY DEF Done, IInv, TypeOK, FanOutChecked
<1> QED
  BY <1>4, <1>5, <1>6, <1>7, <1>8 DEF Outputs

LEMMA CreateAgentIInv ==
  ASSUME IInv, NEW h \in Handlers, NEW a \in Agents, CreateAgent(h, a)
  PROVE  IInv'
<1>1. /\ row' = [row EXCEPT ![a] = "present"]
      /\ version' = [version EXCEPT ![a] = 1]
      /\ events' = [events EXCEPT ![a] = <<Event(1, "agent.created")>>]
      /\ UNCHANGED <<pc, agent, seen, outputs>>
  BY DEF CreateAgent, local
<1>2. \A b \in Agents : Consistent(row'[b], version'[b], events'[b])
  BY <1>1, CreationIsConsistent, OneAgentWritten
<1>3. <<Event(1, "agent.created")>> \in Seq(EventRecords) /\ 1 \in 0..MaxVersion
  BY VersionAssumption DEF Event, EventRecords, Subjects
<1>4. TypeOK'
  BY <1>1, <1>3 DEF IInv, TypeOK, EventRecords
<1>5. FanOutChecked'
  BY <1>1 DEF IInv, FanOutChecked
<1> QED
  BY <1>2, <1>4, <1>5, Primed DEF IInv

LEMMA EndDeleteIInv ==
  ASSUME IInv, NEW h \in Handlers, EndDelete(h)
  PROVE  IInv'
<1>1. PICK a \in Agents : a = agent[h]
  BY DEF IInv, TypeOK
<1>2. PICK es : es = Append(events[a], Event(seen[h] + 1, "agent.deleted"))
  OBVIOUS
<1>3. /\ row' = [row EXCEPT ![a] = "gone"]
      /\ events' = [events EXCEPT ![a] = es]
      /\ UNCHANGED version
      /\ Done(h)
  BY <1>1, <1>2 DEF EndDelete
<1>4. events[a] \in Seq(EventRecords) /\ seen[h] \in 0..MaxVersion
  BY DEF IInv, TypeOK, EventRecords
<1>5. Consistent("gone", version[a], es)
  BY <1>2, <1>4, ConsistentEach, DeletionIsConsistent DEF IInv
<1>6. version' = [version EXCEPT ![a] = version[a]]
  BY <1>3 DEF IInv, TypeOK
<1>7. \A b \in Agents : Consistent(row'[b], version'[b], events'[b])
  BY <1>3, <1>5, <1>6, OneAgentWritten
<1>8. es \in Seq(EventRecords)
  <2>1. Event(seen[h] + 1, "agent.deleted") \in EventRecords
    BY <1>4, VersionAssumption DEF Event, EventRecords, Subjects
  <2> QED
    BY <1>2, <1>4, <2>1
<1>9. TypeOK'
  BY <1>3, <1>8, DoneLocal DEF IInv, TypeOK, EventRecords
<1> QED
  BY <1>3, <1>7, <1>9, DoneLocal, Primed DEF IInv

LEMMA EndInvokeIInv ==
  ASSUME IInv, NEW h \in Handlers, EndInvoke(h)
  PROVE  IInv'
<1>1. PICK a \in Agents : a = agent[h]
  BY DEF IInv, TypeOK
<1>2. Done(h)
  BY DEF EndInvoke
<1>3. CASE row[a] = "present"
  <2>1. PICK es : es = Append(events[a], Event(version[a] + 1, "agent.invoked"))
    OBVIOUS
  <2>2. /\ version[a] < MaxVersion
        /\ version' = [version EXCEPT ![a] = version[a] + 1]
        /\ events' = [events EXCEPT ![a] = es]
        /\ UNCHANGED row
    BY <1>1, <1>3, <2>1 DEF EndInvoke
  <2>3. /\ events[a] \in Seq(EventRecords) /\ version[a] \in 0..MaxVersion
        /\ version[a] \in Nat
    <3>1. events[a] \in Seq(EventRecords) /\ version[a] \in 0..MaxVersion
      BY DEF IInv, TypeOK, EventRecords
    <3> QED
      BY <3>1, VersionAssumption
  <2>4. Consistent("present", version[a], events[a])
    BY <1>3, ConsistentEach DEF IInv
  <2>5. Consistent("present", version[a] + 1, es)
    BY <2>1, <2>2, <2>3, <2>4, InvocationIsConsistent
  <2>6. row' = [row EXCEPT ![a] = "present"]
    BY <1>3, <2>2 DEF IInv, TypeOK
  <2>7. \A b \in Agents : Consistent(row'[b], version'[b], events'[b])
    BY <2>2, <2>5, <2>6, OneAgentWritten
  <2>8. es \in Seq(EventRecords) /\ version[a] + 1 \in 0..MaxVersion
    <3>1. Event(version[a] + 1, "agent.invoked") \in EventRecords
      BY <2>3, VersionAssumption DEF Event, EventRecords, Subjects
    <3>2. version[a] + 1 \in 0..MaxVersion
      BY <2>2, <2>3, VersionAssumption
    <3> QED
      BY <2>1, <2>3, <3>1, <3>2
  <2>9. TypeOK'
    BY <1>2, <2>2, <2>8, DoneLocal DEF IInv, TypeOK, EventRecords
  <2> QED
    BY <1>2, <2>7, <2>9, DoneLocal, Primed DEF IInv
<1>4. CASE row[a] # "present"
  <2>1. UNCHANGED db
    BY <1>1, <1>4 DEF EndInvoke
  <2>2. \A b \in Agents : Consistent(row'[b], version'[b], events'[b])
    BY <2>1, TablesUnchanged
  <2>3. TypeOK'
    BY <1>2, <2>1, DoneLocal DEF IInv, TypeOK, db
  <2> QED
    BY <1>2, <2>2, <2>3, DoneLocal, Primed DEF IInv
<1> QED
  BY <1>3, <1>4

LEMMA CallConnectorIInv ==
  ASSUME IInv, NEW h \in Handlers, NEW reply \in Replies, CallConnector(h, reply)
  PROVE  IInv'
<1>1. PICK o : o = [status |-> reported(reply), invocation |-> reply]
  OBVIOUS
<1>2. /\ pc[h] = "invoking"
      /\ Len(outputs[h]) < FanOut[agent[h]]
      /\ outputs' = [outputs EXCEPT ![h] = Append(@, o)]
      /\ UNCHANGED <<row, version, events, pc, agent, seen>>
  BY <1>1 DEF CallConnector, db
<1>3. o \in [status : {"completed", "failed"}, invocation : Replies]
  BY <1>1 DEF reported
<1>4. /\ outputs[h] \in Seq([status : {"completed", "failed"}, invocation : Replies])
      /\ agent[h] \in Agents
  BY DEF IInv, TypeOK
<1>5. /\ Append(outputs[h], o) \in Seq([status : {"completed", "failed"}, invocation : Replies])
      /\ Len(Append(outputs[h], o)) = Len(outputs[h]) + 1
      /\ Len(outputs[h]) \in Nat
  BY <1>3, <1>4, AppendProperties
<1>6. Len(Append(outputs[h], o)) <= MAX_FAN_OUT
  BY <1>2, <1>4, <1>5, FanOutAssumption DEF IInv, FanOutChecked
<1>7. TypeOK'
  BY <1>2, <1>5, <1>6 DEF IInv, TypeOK
<1>8. FanOutChecked'
  BY <1>2 DEF IInv, FanOutChecked
<1>9. \A b \in Agents : Consistent(row'[b], version'[b], events'[b])
  BY <1>2, TablesUnchanged DEF db
<1> QED
  BY <1>7, <1>8, <1>9, Primed DEF IInv

LEMMA BeginIInv ==
  ASSUME IInv, NEW h \in Handlers, NEW a \in Agents,
         BeginDelete(h, a) \/ BeginInvoke(h, a)
  PROVE  IInv'
<1>1. UNCHANGED db
  BY DEF BeginDelete, BeginInvoke
<1>2. TypeOK'
  <2>1. CASE BeginDelete(h, a)
    BY <1>1, <2>1 DEF IInv, TypeOK, BeginDelete, db
  <2>2. CASE BeginInvoke(h, a)
    BY <1>1, <2>2 DEF IInv, TypeOK, BeginInvoke, db
  <2> QED
    BY <2>1, <2>2
<1>3. FanOutChecked'
  BY DEF IInv, TypeOK, FanOutChecked, BeginDelete, BeginInvoke
<1>4. \A b \in Agents : Consistent(row'[b], version'[b], events'[b])
  BY <1>1, TablesUnchanged
<1> QED
  BY <1>2, <1>3, <1>4, Primed DEF IInv

LEMMA AbandonIInv ==
  ASSUME IInv, NEW h \in Handlers, Abandon(h)
  PROVE  IInv'
<1>1. UNCHANGED db /\ Done(h)
  BY DEF Abandon
<1>2. TypeOK'
  BY <1>1, DoneLocal DEF IInv, TypeOK, db
<1>3. \A b \in Agents : Consistent(row'[b], version'[b], events'[b])
  BY <1>1, TablesUnchanged
<1> QED
  BY <1>1, <1>2, <1>3, DoneLocal, Primed DEF IInv

-----------------------------------------------------------------------------
(* The theorems *)

LEMMA NextIInv == IInv /\ [Next]_vars => IInv'
<1> SUFFICES ASSUME IInv, [Next]_vars PROVE IInv'
  OBVIOUS
<1>1. CASE UNCHANGED vars
  <2>1. UNCHANGED <<row, version, events, pc, agent, seen, outputs>>
    BY <1>1 DEF vars
  <2>2. TypeOK' /\ FanOutChecked'
    BY <2>1 DEF IInv, TypeOK, FanOutChecked
  <2>3. \A b \in Agents : Consistent(row'[b], version'[b], events'[b])
    BY <2>1, TablesUnchanged DEF db
  <2> QED
    BY <2>2, <2>3, Primed DEF IInv
<1>2. ASSUME NEW h \in Handlers, NEW a \in Agents, CreateAgent(h, a)
      PROVE  IInv'
  BY <1>2, CreateAgentIInv
<1>3. ASSUME NEW h \in Handlers, NEW a \in Agents, BeginDelete(h, a) \/ BeginInvoke(h, a)
      PROVE  IInv'
  BY <1>3, BeginIInv
<1>4. ASSUME NEW h \in Handlers, NEW reply \in Replies, CallConnector(h, reply)
      PROVE  IInv'
  BY <1>4, CallConnectorIInv
<1>5. ASSUME NEW h \in Handlers, EndDelete(h) \/ EndInvoke(h) \/ Abandon(h)
      PROVE  IInv'
  BY <1>5, EndDeleteIInv, EndInvokeIInv, AbandonIInv
<1>6. ASSUME NEW h \in Handlers, NEW a \in Agents, Refuse(h, a)
      PROVE  UNCHANGED vars
  BY <1>6 DEF Refuse
<1> QED
  BY <1>1, <1>2, <1>3, <1>4, <1>5, <1>6 DEF Next

LEMMA AlwaysIInv == Spec => []IInv
BY InitIInv, NextIInv, PTL DEF Spec

\* Every variable keeps to its type, and no fan-out to more than the limit.
THEOREM TypeCorrect == Spec => []TypeOK
BY AlwaysIInv, PTL DEF IInv

\* Whatever deletions and invocations are under way, what is recorded of an
\* agent ends with its deletion.
THEOREM DeletionEnds == Spec => []NothingAfterDeletion
BY AlwaysIInv, PTL DEF IInv

\* The events of an agent say whether it exists.
THEOREM EventsMatch == Spec => []EventsMatchExistence
BY AlwaysIInv, PTL DEF IInv

\* The rule for consumers applies every event of an agent that exists.
THEOREM LiveFollowed == Spec => []LiveAgentIsFollowed
<1>1. IInv => LiveAgentIsFollowed
  <2> SUFFICES ASSUME IInv, NEW a \in Agents, row[a] = "present",
                      NEW i \in DOMAIN events[a]
               PROVE  Len(events[a]) = version[a] /\ Decision(a, i) = "apply"
    BY DEF LiveAgentIsFollowed, IInv, LiveAgentIsNumbered
  <2>1. events[a] \in Seq(EventRecords) /\ i \in 1..Len(events[a]) /\ Len(events[a]) \in Nat
    <3>1. events[a] \in Seq(EventRecords)
      BY DEF IInv, TypeOK, EventRecords
    <3> QED
      BY <3>1, LenProperties
  <2>2. events[a][i].version = i /\ (i # 1 => events[a][i - 1].version = i - 1)
    BY <2>1 DEF IInv, LiveAgentIsNumbered
  <2>3. Decision(a, i) = "apply"
    BY <2>1, <2>2 DEF Decision, version_decision, NoVersion
  <2> QED
    BY <2>3 DEF IInv, LiveAgentIsNumbered
<1> QED
  BY <1>1, AlwaysIInv, PTL

-----------------------------------------------------------------------------
(* How many events an agent may have *)

EventBound == MaxVersion + Cardinality(Handlers)

\* The handlers that still have a deletion of the agent to commit.
Deleting(a) == {h \in Handlers : pc[h] = "deleting" /\ agent[h] = a}

\* No deletion begins once an agent is gone, so each that is left adds one.
DeletionsCounted ==
  \A a \in Agents : row[a] = "gone" =>
    Len(events[a]) + Cardinality(Deleting(a)) <= EventBound

\* An event carries no number beyond the count of its agent's events, whatever
\* version a deletion had read.
NumbersCounted ==
  /\ \A a \in Agents :
       /\ version[a] <= Len(events[a])
       /\ \A i \in DOMAIN events[a] : events[a][i].version <= Len(events[a])
  /\ \A h \in Handlers : pc[h] = "deleting" => seen[h] <= version[agent[h]]

ProducerInv == IInv /\ DeletionsCounted /\ NumbersCounted

LEMMA DeletingIsSmall ==
  ASSUME NEW a
  PROVE  /\ IsFiniteSet(Deleting(a)) /\ Cardinality(Deleting(a)) \in Nat
         /\ Cardinality(Deleting(a)) <= Cardinality(Handlers)
         /\ Cardinality(Handlers) \in Nat
<1>1. Deleting(a) \subseteq Handlers
  BY DEF Deleting
<1> QED
  BY <1>1, HandlersAssumption, FS_Subset, FS_CardinalityType

\* The bound, for an agent that is gone or not.
LEMMA Counted ==
  ASSUME ProducerInv, NEW a \in Agents
  PROVE  /\ Len(events[a]) \in Nat
         /\ Len(events[a]) + Cardinality(Deleting(a)) <= EventBound
<1>1. /\ events[a] \in Seq(EventRecords)
      /\ version[a] \in 0..MaxVersion
      /\ row[a] \in {"absent", "present", "gone"}
  BY DEF ProducerInv, IInv, TypeOK, EventRecords
<1>2. Len(events[a]) \in Nat
  BY <1>1, LenProperties
<1>3. row[a] # "gone" => Len(events[a]) <= MaxVersion
  BY <1>1, VersionAssumption
  DEF ProducerInv, IInv, LiveAgentIsNumbered, EventsMatchExistence
<1> QED
  BY <1>1, <1>2, <1>3, DeletingIsSmall, VersionAssumption
  DEF ProducerInv, DeletionsCounted, EventBound

-----------------------------------------------------------------------------
(* Steps of the orchestrator *)

\* A step that leaves the events of each agent alone that is gone, and begins
\* no deletion of it.
LEMMA CountKept ==
  ASSUME ProducerInv,
         \A a \in Agents : row'[a] = "gone" =>
           row[a] = "gone" /\ events'[a] = events[a] /\ Deleting(a)' \subseteq Deleting(a)
  PROVE  DeletionsCounted'
<1> SUFFICES ASSUME NEW a \in Agents, row'[a] = "gone"
             PROVE  Len(events'[a]) + Cardinality(Deleting(a)') <= EventBound
  BY DEF DeletionsCounted, EventBound
<1>1. PICK D : D = Deleting(a)'
  OBVIOUS
<1>2. Cardinality(D) <= Cardinality(Deleting(a)) /\ Cardinality(D) \in Nat
  BY <1>1, DeletingIsSmall, FS_Subset, FS_CardinalityType
<1>3. EventBound \in Nat
  BY DeletingIsSmall, VersionAssumption DEF EventBound
<1> QED
  BY <1>1, <1>2, <1>3, DeletingIsSmall, Counted

\* A step that appends nothing, changes no version, and begins a deletion only
\* with the current version of an agent that exists.
LEMMA NothingAppended ==
  ASSUME ProducerInv, UNCHANGED db,
         \A h \in Handlers : pc'[h] = "deleting" =>
           \/ pc[h] = "deleting" /\ UNCHANGED <<agent[h], seen[h]>>
           \/ /\ row[agent'[h]] = "present" /\ seen'[h] = version[agent'[h]]
              /\ version[agent'[h]] \in Nat
  PROVE  DeletionsCounted' /\ NumbersCounted'
<1>1. UNCHANGED <<row, version, events>>
  BY DEF db
<1>2. DeletionsCounted'
  <2> SUFFICES ASSUME NEW a \in Agents, row[a] = "gone"
               PROVE  Deleting(a)' \subseteq Deleting(a)
    BY <1>1, CountKept
  <2> QED
    BY DEF Deleting
<1>3. \A h \in Handlers : pc'[h] = "deleting" => seen'[h] <= version[agent'[h]]
  <2> SUFFICES ASSUME NEW h \in Handlers, pc'[h] = "deleting"
               PROVE  seen'[h] <= version[agent'[h]]
    OBVIOUS
  <2>1. CASE pc[h] = "deleting" /\ UNCHANGED <<agent[h], seen[h]>>
    BY <2>1 DEF ProducerInv, NumbersCounted
  <2>2. CASE seen'[h] = version[agent'[h]] /\ version[agent'[h]] \in Nat
    BY <2>2
  <2> QED
    BY <2>1, <2>2
<1> QED
  BY <1>1, <1>2, <1>3 DEF ProducerInv, NumbersCounted

\* What a step may do to the events: one more of one agent.
Grows(a) ==
  /\ Len(events[a]) < EventBound
  /\ Len(events'[a]) = Len(events[a]) + 1
  /\ \A b \in Agents \ {a} : events'[b] = events[b]

LEMMA Appended ==
  ASSUME ProducerInv, NEW a \in Agents, NEW v, NEW e,
         events' = [events EXCEPT ![a] = Append(events[a], e)],
         version' = [version EXCEPT ![a] = v], v \in Nat,
         v <= Len(events[a]) + 1, version[a] <= v,
         e.version \in Nat, e.version <= Len(events[a]) + 1,
         \A h \in Handlers : pc'[h] = "deleting" =>
           pc[h] = "deleting" /\ UNCHANGED <<agent[h], seen[h]>>
  PROVE  NumbersCounted' /\ (Len(events[a]) < EventBound => Grows(a))
<1>1. /\ \A b \in Agents : events[b] \in Seq(EventRecords) /\ version[b] \in Nat
      /\ events \in [Agents -> Seq(EventRecords)] /\ version \in [Agents -> 0..MaxVersion]
      /\ \A h \in Handlers : agent[h] \in Agents /\ seen[h] \in Nat
  <2>1. /\ events \in [Agents -> Seq(EventRecords)] /\ version \in [Agents -> 0..MaxVersion]
        /\ agent \in [Handlers -> Agents] /\ seen \in [Handlers -> 0..MaxVersion]
    BY DEF ProducerInv, IInv, TypeOK, EventRecords
  <2>2. 0..MaxVersion \subseteq Nat
    BY VersionAssumption
  <2> QED
    BY <2>1, <2>2
<1>2. PICK es : es = events[a]
  OBVIOUS
<1>3. PICK fs : fs = Append(es, e)
  OBVIOUS
<1>4. es \in Seq(EventRecords) /\ Len(es) \in Nat /\ DOMAIN es = 1..Len(es)
  BY <1>1, <1>2, LenProperties
<1>5. /\ Len(fs) = Len(es) + 1 /\ DOMAIN fs = 1..(Len(es) + 1)
      /\ \A i \in 1..Len(es) : fs[i] = es[i]
      /\ fs[Len(es) + 1] = e
  BY <1>3, <1>4
<1>6. /\ events'[a] = fs /\ \A b \in Agents \ {a} : events'[b] = events[b]
      /\ version'[a] = v /\ \A b \in Agents \ {a} : version'[b] = version[b]
  BY <1>1, <1>2, <1>3
<1>7. ASSUME NEW i \in DOMAIN fs PROVE fs[i].version <= Len(fs)
  <2>1. CASE i = Len(es) + 1
    BY <1>2, <1>5, <2>1
  <2>2. CASE i # Len(es) + 1
    <3>1. i \in 1..Len(es) /\ es[i] \in EventRecords
      BY <1>4, <1>5, <2>2
    <3>2. es[i].version \in Nat /\ es[i].version <= Len(es)
      BY <1>2, <1>4, <3>1, VersionAssumption DEF EventRecords, ProducerInv, NumbersCounted
    <3> QED
      BY <1>4, <1>5, <3>1, <3>2
  <2> QED
    BY <2>1, <2>2
<1>8. ASSUME NEW b \in Agents
      PROVE  /\ version'[b] <= Len(events'[b])
             /\ \A i \in DOMAIN events'[b] : events'[b][i].version <= Len(events'[b])
  <2>1. CASE b = a
    BY <1>2, <1>5, <1>6, <1>7, <2>1
  <2>2. CASE b # a
    BY <1>6, <2>2 DEF ProducerInv, NumbersCounted
  <2> QED
    BY <2>1, <2>2
<1>9. ASSUME NEW h \in Handlers, pc'[h] = "deleting"
      PROVE  seen'[h] <= version'[agent'[h]]
  <2>1. seen'[h] = seen[h] /\ agent'[h] = agent[h] /\ pc[h] = "deleting"
    BY <1>9
  <2>2. seen[h] <= version[agent[h]] /\ agent[h] \in Agents /\ seen[h] \in Nat
    BY <1>1, <2>1 DEF ProducerInv, NumbersCounted
  <2>3. CASE agent[h] = a
    BY <1>1, <1>6, <2>1, <2>2, <2>3
  <2>4. CASE agent[h] # a
    BY <1>6, <2>1, <2>2, <2>4
  <2> QED
    BY <2>3, <2>4
<1> QED
  BY <1>2, <1>5, <1>6, <1>8, <1>9 DEF NumbersCounted, Grows

-----------------------------------------------------------------------------
(* Each action *)

LEMMA CreateAgentGrows ==
  ASSUME ProducerInv, NEW h \in Handlers, NEW a \in Agents, CreateAgent(h, a)
  PROVE  DeletionsCounted' /\ NumbersCounted' /\ Grows(a)
<1>1. PICK e : e = Event(1, "agent.created")
  OBVIOUS
<1>2. /\ row' = [row EXCEPT ![a] = "present"]
      /\ version' = [version EXCEPT ![a] = 1]
      /\ events' = [events EXCEPT ![a] = <<e>>]
      /\ UNCHANGED <<pc, agent, seen, outputs>>
  BY <1>1 DEF CreateAgent, local
<1>3. events[a] = <<>> /\ row \in [Agents -> {"absent", "present", "gone"}]
      /\ events \in [Agents -> Seq(EventRecords)] /\ version[a] \in 0..MaxVersion
  BY DEF CreateAgent, ProducerInv, IInv, TypeOK, EventsMatchExistence, EventRecords
<1>4. Append(events[a], e) = <<e>> /\ Len(events[a]) = 0
  BY <1>3
<1>5. version[a] <= 0
  BY <1>4 DEF ProducerInv, NumbersCounted
<1>6. e.version = 1
  BY <1>1 DEF Event
<1>7. NumbersCounted' /\ (Len(events[a]) < EventBound => Grows(a))
  <2>1. events' = [events EXCEPT ![a] = Append(events[a], e)]
    BY <1>2, <1>4
  <2>2. version[a] <= 1
    BY <1>3, <1>5, VersionAssumption
  <2>3. PICK v : v = 1
    OBVIOUS
  <2>4. /\ version' = [version EXCEPT ![a] = v]
        /\ v \in Nat /\ v <= Len(events[a]) + 1 /\ version[a] <= v
        /\ e.version \in Nat /\ e.version <= Len(events[a]) + 1
    BY <1>2, <1>4, <1>6, <2>2, <2>3
  <2>5. \A g \in Handlers : pc'[g] = "deleting" =>
          pc[g] = "deleting" /\ UNCHANGED <<agent[g], seen[g]>>
    BY <1>2
  <2> QED
    BY <2>1, <2>4, <2>5, Appended
<1>8. Len(events[a]) < EventBound
  BY <1>4, DeletingIsSmall, VersionAssumption DEF EventBound
<1>9. DeletionsCounted'
  BY <1>2, <1>3, CountKept DEF Deleting
<1> QED
  BY <1>7, <1>8, <1>9

LEMMA EndInvokeGrows ==
  ASSUME ProducerInv, NEW h \in Handlers, EndInvoke(h)
  PROVE  DeletionsCounted' /\ NumbersCounted' /\ (UNCHANGED events \/ Grows(agent[h]))
<1>1. PICK a \in Agents : a = agent[h]
  BY DEF ProducerInv, IInv, TypeOK
<1>2. \A g \in Handlers : pc'[g] = "deleting" =>
        pc[g] = "deleting" /\ UNCHANGED <<agent[g], seen[g]>>
  BY DEF EndInvoke, Done, ProducerInv, IInv, TypeOK
<1>3. CASE row[a] # "present"
  <2>1. UNCHANGED db
    BY <1>1, <1>3 DEF EndInvoke
  <2> QED
    BY <1>2, <2>1, NothingAppended DEF db
<1>4. CASE row[a] = "present"
  <2>1. PICK e : e = Event(version[a] + 1, "agent.invoked")
    OBVIOUS
  <2>2. /\ version[a] < MaxVersion
        /\ version' = [version EXCEPT ![a] = version[a] + 1]
        /\ events' = [events EXCEPT ![a] = Append(events[a], e)]
        /\ UNCHANGED row
    BY <1>1, <1>4, <2>1 DEF EndInvoke
  <2>3. version[a] \in 0..MaxVersion /\ Len(events[a]) = version[a]
    BY <1>4 DEF ProducerInv, IInv, TypeOK, LiveAgentIsNumbered
  <2>4. e.version = version[a] + 1 /\ version[a] \in Nat
    BY <2>1, <2>3, VersionAssumption DEF Event
  <2>5. NumbersCounted' /\ (Len(events[a]) < EventBound => Grows(a))
    <3>1. PICK v : v = version[a] + 1
      OBVIOUS
    <3>2. v \in Nat /\ v <= Len(events[a]) + 1 /\ version[a] <= v
      BY <2>3, <2>4, <3>1
    <3>3. version' = [version EXCEPT ![a] = v]
      BY <2>2, <3>1
    <3>4. e.version \in Nat /\ e.version <= Len(events[a]) + 1
      BY <2>4, <3>1, <3>2
    <3> QED
      BY <1>2, <2>2, <3>2, <3>3, <3>4, Appended
  <2>6. Len(events[a]) < EventBound
    BY <2>2, <2>3, DeletingIsSmall, VersionAssumption DEF EventBound
  <2>7. DeletionsCounted'
    <3>1. events \in [Agents -> Seq(EventRecords)]
      BY DEF ProducerInv, IInv, TypeOK, EventRecords
    <3> QED
      BY <1>2, <1>4, <2>2, <3>1, CountKept DEF Deleting
  <2> QED
    BY <1>1, <2>5, <2>6, <2>7
<1> QED
  BY <1>3, <1>4

LEMMA EndDeleteGrows ==
  ASSUME ProducerInv, NEW h \in Handlers, EndDelete(h)
  PROVE  DeletionsCounted' /\ NumbersCounted' /\ Grows(agent[h])
<1>1. PICK a \in Agents : a = agent[h]
  BY DEF ProducerInv, IInv, TypeOK
<1>2. PICK e : e = Event(seen[h] + 1, "agent.deleted")
  OBVIOUS
<1>3. /\ row' = [row EXCEPT ![a] = "gone"]
      /\ events' = [events EXCEPT ![a] = Append(events[a], e)]
      /\ UNCHANGED version
      /\ pc[h] = "deleting" /\ Done(h)
  BY <1>1, <1>2 DEF EndDelete
<1>4. /\ version[a] \in Nat /\ seen[h] \in Nat
      /\ version \in [Agents -> 0..MaxVersion]
      /\ pc \in [Handlers -> {"idle", "deleting", "invoking"}]
  BY VersionAssumption DEF ProducerInv, IInv, TypeOK
<1>5. /\ version[a] <= Len(events[a]) /\ seen[h] <= version[a]
      /\ Len(events[a]) \in Nat
  BY <1>1, <1>3, Counted DEF ProducerInv, NumbersCounted
<1>6. e.version = seen[h] + 1
  BY <1>2 DEF Event
<1>7. \A g \in Handlers : pc'[g] = "deleting" =>
        pc[g] = "deleting" /\ UNCHANGED <<agent[g], seen[g]>>
  BY <1>3 DEF Done, ProducerInv, IInv, TypeOK
<1>8. NumbersCounted' /\ (Len(events[a]) < EventBound => Grows(a))
  <2>1. PICK v : v = version[a]
    OBVIOUS
  <2>2. /\ version' = [version EXCEPT ![a] = v]
        /\ v \in Nat /\ v <= Len(events[a]) + 1 /\ version[a] <= v
        /\ e.version \in Nat /\ e.version <= Len(events[a]) + 1
    BY <1>3, <1>4, <1>5, <1>6, <2>1
  <2> QED
    BY <1>3, <1>7, <2>2, Appended
<1>9. PICK D : D = Deleting(a)
  OBVIOUS
<1>10. h \in D /\ Deleting(a)' = D \ {h}
  BY <1>1, <1>3, <1>4, <1>7, <1>9 DEF Deleting, Done
<1>11. /\ Cardinality(D) \in Nat \ {0} /\ Cardinality(D \ {h}) = Cardinality(D) - 1
       /\ Len(events[a]) + Cardinality(D) <= EventBound /\ EventBound \in Nat
  <2>1. IsFiniteSet(D) /\ Len(events[a]) + Cardinality(D) <= EventBound
    BY <1>9, DeletingIsSmall, Counted
  <2>2. EventBound \in Nat
    BY DeletingIsSmall, VersionAssumption DEF EventBound
  <2>3. Cardinality(D \ {h}) = Cardinality(D) - 1 /\ Cardinality(D) \in Nat
    BY <1>10, <2>1, FS_RemoveElement, FS_CardinalityType
  <2>4. Cardinality(D) # 0
    BY <1>10, <2>1, FS_EmptySet
  <2> QED
    BY <2>1, <2>2, <2>3, <2>4
<1>12. Grows(a)
  BY <1>5, <1>8, <1>11
<1>13. DeletionsCounted'
  <2> SUFFICES ASSUME NEW b \in Agents, row'[b] = "gone"
               PROVE  Len(events'[b]) + Cardinality(Deleting(b)') <= EventBound
    BY DEF DeletionsCounted, EventBound
  <2>1. CASE b = a
    <3>1. Deleting(b)' = D \ {h}
      BY <1>10, <2>1 DEF Deleting
    <3>2. Len(events'[b]) = Len(events[a]) + 1
      BY <1>12, <2>1 DEF Grows
    <3> QED
      BY <1>5, <1>11, <3>1, <3>2
  <2>2. CASE b # a
    <3>1. row[b] = "gone" /\ events'[b] = events[b]
      BY <1>3, <1>12, <2>2 DEF Grows, ProducerInv, IInv, TypeOK
    <3>2. PICK E : E = Deleting(b)'
      OBVIOUS
    <3>3. E \subseteq Deleting(b)
      BY <1>7, <3>2 DEF Deleting
    <3>4. Cardinality(E) <= Cardinality(Deleting(b)) /\ Cardinality(E) \in Nat
      BY <3>3, DeletingIsSmall, FS_Subset, FS_CardinalityType
    <3> QED
      BY <1>11, <3>1, <3>2, <3>4, DeletingIsSmall, Counted
  <2> QED
    BY <2>1, <2>2
<1> QED
  BY <1>1, <1>8, <1>12, <1>13

LEMMA OthersAppendNothing ==
  ASSUME ProducerInv, NEW h \in Handlers,
         \/ Abandon(h)
         \/ \E reply \in Replies : CallConnector(h, reply)
         \/ \E a \in Agents : BeginDelete(h, a) \/ BeginInvoke(h, a) \/ Refuse(h, a)
  PROVE  DeletionsCounted' /\ NumbersCounted' /\ UNCHANGED events
<1>1. UNCHANGED db
  BY DEF Abandon, CallConnector, BeginDelete, BeginInvoke, Refuse, vars, db
<1>2. /\ \A a \in Agents : version[a] \in Nat
      /\ pc \in [Handlers -> {"idle", "deleting", "invoking"}]
      /\ agent \in [Handlers -> Agents]
      /\ seen \in [Handlers -> 0..MaxVersion]
  BY VersionAssumption DEF ProducerInv, IInv, TypeOK
<1>3. ASSUME NEW g \in Handlers, pc'[g] = "deleting"
      PROVE  \/ pc[g] = "deleting" /\ UNCHANGED <<agent[g], seen[g]>>
             \/ /\ row[agent'[g]] = "present" /\ seen'[g] = version[agent'[g]]
                /\ version[agent'[g]] \in Nat
  <2>1. CASE Abandon(h)
    BY <1>2, <1>3, <2>1 DEF Abandon, Done
  <2>2. CASE \E reply \in Replies : CallConnector(h, reply)
    BY <1>2, <1>3, <2>2 DEF CallConnector
  <2>3. ASSUME NEW a \in Agents, BeginDelete(h, a)
        PROVE  \/ pc[g] = "deleting" /\ UNCHANGED <<agent[g], seen[g]>>
               \/ /\ row[agent'[g]] = "present" /\ seen'[g] = version[agent'[g]]
                  /\ version[agent'[g]] \in Nat
    BY <1>2, <1>3, <2>3 DEF BeginDelete
  <2>4. ASSUME NEW a \in Agents, BeginInvoke(h, a)
        PROVE  pc[g] = "deleting" /\ UNCHANGED <<agent[g], seen[g]>>
    BY <1>2, <1>3, <2>4 DEF BeginInvoke
  <2>5. ASSUME NEW a \in Agents, Refuse(h, a)
        PROVE  pc[g] = "deleting" /\ UNCHANGED <<agent[g], seen[g]>>
    BY <1>3, <2>5 DEF Refuse, vars
  <2> QED
    BY <2>1, <2>2, <2>3, <2>4, <2>5
<1> QED
  BY <1>1, <1>3, NothingAppended DEF db

LEMMA NextGrows ==
  ProducerInv /\ [Next]_vars =>
    ProducerInv' /\ (UNCHANGED events \/ \E a \in Agents : Grows(a))
<1> SUFFICES ASSUME ProducerInv, [Next]_vars
             PROVE  DeletionsCounted' /\ NumbersCounted'
                    /\ (UNCHANGED events \/ \E a \in Agents : Grows(a))
  BY NextIInv DEF ProducerInv
<1>1. CASE UNCHANGED vars
  <2>1. UNCHANGED <<row, version, events, pc, agent, seen>>
    BY <1>1 DEF vars
  <2> QED
    BY <2>1, NothingAppended DEF db
<1>2. CASE Next
  <2>1. PICK h \in Handlers :
          \/ EndDelete(h) \/ EndInvoke(h) \/ Abandon(h)
          \/ \E reply \in Replies : CallConnector(h, reply)
          \/ \E a \in Agents :
               CreateAgent(h, a) \/ BeginDelete(h, a) \/ BeginInvoke(h, a) \/ Refuse(h, a)
    BY <1>2 DEF Next
  <2>2. agent[h] \in Agents
    BY DEF ProducerInv, IInv, TypeOK
  <2>3. CASE EndDelete(h)
    BY <2>2, <2>3, EndDeleteGrows
  <2>4. CASE EndInvoke(h)
    BY <2>2, <2>4, EndInvokeGrows
  <2>5. ASSUME NEW a \in Agents, CreateAgent(h, a)
        PROVE  DeletionsCounted' /\ NumbersCounted' /\ Grows(a)
    BY <2>5, CreateAgentGrows
  <2> QED
    BY <2>1, <2>3, <2>4, <2>5, OthersAppendNothing
<1> QED
  BY <1>1, <1>2

-----------------------------------------------------------------------------
(* The consumer *)

\* ProjectionIsAPrefix, for one agent that has so many events.
IsPrefix(l, ap, n) ==
  /\ ap \in Seq(Nat)
  /\ \A i \in DOMAIN ap : ap[i] = i
  /\ Len(ap) <= n
  /\ l = IF ap = <<>> THEN NoVersion ELSE Len(ap)

ConsumerInv ==
  /\ last \in [Followed -> Int]
  /\ applied \in [Followed -> Seq(Nat)]
  /\ \A a \in Followed : IsPrefix(last[a], applied[a], Len(events[a]))

ProjectionInv == ProducerInv /\ ConsumerInv

LEMMA PrefixEach == ConsumerInv => ProjectionIsAPrefix
<1> SUFFICES ASSUME ConsumerInv, NEW a \in Followed
             PROVE  /\ \A i \in DOMAIN applied[a] : applied[a][i] = i
                    /\ Len(applied[a]) <= [b \in Followed |-> Len(events[b])][a]
                    /\ last[a] = IF applied[a] = <<>> THEN NoVersion ELSE Len(applied[a])
  BY DEF ProjectionIsAPrefix, C!ProjectionIsAPrefix, NoVersion, C!NoVersion
<1> QED
  BY DEF ConsumerInv, IsPrefix

LEMMA AppliedInOrder ==
  ASSUME NEW l \in Int, NEW ap, NEW n \in Nat, IsPrefix(l, ap, n),
         NEW v \in 1..n, version_decision(v, l) = "apply"
  PROVE  IsPrefix(v, Append(ap, v), n) /\ v \in Int /\ Append(ap, v) \in Seq(Nat)
<1>1. ap \in Seq(Nat) /\ Len(ap) \in Nat /\ DOMAIN ap = 1..Len(ap)
  BY LenProperties DEF IsPrefix
<1>2. v = Len(ap) + 1
  <2>1. CASE ap = <<>>
    BY <2>1 DEF IsPrefix, version_decision, NoVersion
  <2>2. CASE ap # <<>>
    <3>1. l = Len(ap) /\ l # NoVersion
      BY <1>1, <2>2 DEF IsPrefix, NoVersion
    <3> QED
      BY <1>1, <3>1 DEF version_decision, NoVersion
  <2> QED
    BY <2>1, <2>2
<1>3. PICK aq : aq = Append(ap, v)
  OBVIOUS
<1>4. /\ aq \in Seq(Nat) /\ Len(aq) = v /\ DOMAIN aq = 1..v /\ aq # <<>>
      /\ \A i \in 1..Len(ap) : aq[i] = ap[i]
      /\ aq[v] = v
  BY <1>1, <1>2, <1>3, AppendProperties
<1>5. \A i \in DOMAIN aq : aq[i] = i
  <2> SUFFICES ASSUME NEW i \in 1..v PROVE aq[i] = i
    BY <1>4
  <2>1. CASE i = v
    BY <1>4, <2>1
  <2>2. CASE i # v
    <3>1. i \in 1..Len(ap)
      BY <1>1, <1>2, <2>2
    <3>2. ap[i] = i
      BY <1>1, <3>1 DEF IsPrefix
    <3> QED
      BY <1>4, <3>1, <3>2
  <2> QED
    BY <2>1, <2>2
<1> QED
  BY <1>3, <1>4, <1>5 DEF IsPrefix

\* The number of an event of an agent is one of the numbers its count allows.
LEMMA NumberOfEvent ==
  ASSUME ProducerInv, NEW a \in Agents, NEW i \in DOMAIN events[a]
  PROVE  events[a][i].version \in 1..Len(events[a])
<1>1. events[a] \in Seq(EventRecords)
  BY DEF ProducerInv, IInv, TypeOK, EventRecords
<1>2. events[a][i] \in EventRecords /\ Len(events[a]) \in Nat
  BY <1>1, LenProperties, ElementOfSeq
<1>3. events[a][i].version \in 1..(MaxVersion + 1)
  BY <1>2 DEF EventRecords
<1>4. events[a][i].version <= Len(events[a])
  BY DEF ProducerInv, NumbersCounted
<1> QED
  BY <1>2, <1>3, <1>4, VersionAssumption

LEMMA OrchestratorStep ==
  ASSUME ProjectionInv, [Next]_vars, UNCHANGED projection
  PROVE  ProjectionInv' /\ [C!Next]_(C!vars)
<1>1. UNCHANGED <<last, applied, aside>>
  BY DEF projection
<1>2. ProducerInv' /\ (UNCHANGED events \/ \E a \in Agents : Grows(a))
  BY NextGrows DEF ProjectionInv
<1>3. \A a \in Agents : Len(events[a]) \in Nat
  BY Counted DEF ProjectionInv
<1>4. CASE UNCHANGED events
  <2>1. ConsumerInv'
    BY <1>1, <1>4 DEF ProjectionInv, ConsumerInv
  <2>2. UNCHANGED C!vars
    BY <1>1, <1>4 DEF C!vars
  <2> QED
    BY <1>2, <2>1, <2>2 DEF ProjectionInv
<1>5. ASSUME NEW a \in Agents, Grows(a)
      PROVE  ConsumerInv' /\ [C!Next]_(C!vars)
  <2>1. \A b \in Followed : Len(events[b]) <= Len(events'[b])
    BY <1>3, <1>5, FollowedAssumption DEF Grows
  <2>2. ConsumerInv'
    <3> SUFFICES ASSUME NEW b \in Followed
                 PROVE  IsPrefix(last[b], applied[b], Len(events'[b]))
      BY <1>1 DEF ProjectionInv, ConsumerInv
    <3>1. IsPrefix(last[b], applied[b], Len(events[b]))
      BY DEF ProjectionInv, ConsumerInv
    <3>2. Len(applied[b]) \in Nat /\ Len(events[b]) \in Nat /\ Len(events'[b]) \in Nat
      BY <1>2, <1>3, <3>1, Counted, FollowedAssumption, LenProperties DEF IsPrefix
    <3> QED
      BY <2>1, <3>1, <3>2 DEF IsPrefix
  <2>3. CASE a \in Followed
    <3> DEFINE P == [b \in Followed |-> Len(events[b])]
               Q == [b \in Followed |-> Len(events'[b])]
    <3>1. Q = [P EXCEPT ![a] = P[a] + 1] /\ P[a] < EventBound
      BY <1>5, <2>3, FollowedAssumption DEF Grows
    <3>2. C!Produce(a)
      BY <1>1, <3>1 DEF C!Produce, EventBound
    <3> QED
      BY <2>2, <2>3, <3>2 DEF C!Next
  <2>4. CASE a \notin Followed
    <3>1. \A b \in Followed : events'[b] = events[b]
      BY <1>5, <2>4, FollowedAssumption DEF Grows
    <3>2. [b \in Followed |-> Len(events'[b])] = [b \in Followed |-> Len(events[b])]
      BY <3>1
    <3> QED
      BY <1>1, <2>2, <3>2 DEF C!vars
  <2> QED
    BY <2>3, <2>4
<1> QED
  BY <1>2, <1>4, <1>5 DEF ProjectionInv

LEMMA DeliverStep ==
  ASSUME ProjectionInv, NEW a \in Followed, NEW p \in PayloadsOf(a), Deliver(a, p)
  PROVE  ProjectionInv' /\ [C!Next]_(C!vars)
<1>1. UNCHANGED vars /\ UNCHANGED <<row, version, events, pc, agent, seen, outputs>>
  BY DEF Deliver, vars
<1>2. ProducerInv'
  BY <1>1, NextGrows DEF ProjectionInv
<1>3. a \in Agents
  BY FollowedAssumption
<1>4. PICK f \in Formats, i \in DOMAIN events[a] :
        p = Payload(f.schema, f.complete, events[a][i].version)
  BY DEF PayloadsOf
<1>5. PICK v : v = events[a][i].version
  OBVIOUS
<1>6. v \in 1..Len(events[a]) /\ Len(events[a]) \in Nat
  BY <1>3, <1>5, NumberOfEvent, Counted DEF ProjectionInv
<1>7. p \in C!Messages(Len(events[a]))
  <2>1. f.schema \in {NoVersion, 1, 2} /\ f.complete \in BOOLEAN
    <3>1. f.schema \in {NoVersion, 1, 2}
      BY SMT DEF Formats, Format, CURRENT_SCHEMA_VERSION
    <3>2. f.complete \in BOOLEAN
      <4>1. PICK s \in {NoVersion, CURRENT_SCHEMA_VERSION, CURRENT_SCHEMA_VERSION + 1},
               c \in BOOLEAN : f = Format(s, c)
        BY Zenon DEF Formats
      <4> QED
        BY <4>1, Zenon DEF Format
    <3> QED
      BY <3>1, <3>2
  <2>2. p = C!Payload(f.schema, f.complete, v)
    BY <1>4, <1>5 DEF Payload, C!Payload
  <2> QED
    BY <1>6, <2>1, <2>2 DEF C!Messages, NoVersion, C!NoVersion
<1>8. [C!Next]_(C!vars)
  BY <1>7 DEF Deliver, C!Next
<1>9. ConsumerInv'
  <2>1. CASE C!Reject(a, p)
    BY <1>1, <2>1 DEF C!Reject, C!vars, ProjectionInv, ConsumerInv
  <2>2. CASE C!Receive(a, p)
    <3>1. PICK w : w = C!parse_event(p)
      OBVIOUS
    <3>2. w = NoVersion \/ w = v
      BY <1>4, <1>5, <3>1 DEF C!parse_event, Payload, NoVersion, C!NoVersion
    <3>3. version_decision(w, last[a]) = C!version_decision(w, last[a])
      BY DEF version_decision, C!version_decision, NoVersion, C!NoVersion
    <3>4. IsPrefix(last[a], applied[a], Len(events[a])) /\ last[a] \in Int
      BY DEF ProjectionInv, ConsumerInv
    <3>5. CASE version_decision(w, last[a]) = "apply"
      <4>1. w = v
        BY <3>2, <3>5 DEF version_decision
      <4>2. /\ IsPrefix(v, Append(applied[a], v), Len(events[a]))
            /\ v \in Int /\ Append(applied[a], v) \in Seq(Nat)
        BY <1>6, <3>4, <3>5, <4>1, AppliedInOrder
      <4>3. /\ last' = [last EXCEPT ![a] = v]
            /\ applied' = [applied EXCEPT ![a] = Append(applied[a], v)]
        BY <2>2, <3>1, <3>3, <3>5, <4>1 DEF C!Receive
      <4> QED
        BY <1>1, <4>2, <4>3 DEF ProjectionInv, ConsumerInv
    <3>6. CASE version_decision(w, last[a]) # "apply"
      <4>1. last' = [last EXCEPT ![a] = last[a]] /\ applied' = [applied EXCEPT ![a] = applied[a]]
        BY <2>2, <3>1, <3>3, <3>6 DEF C!Receive
      <4>2. UNCHANGED <<last, applied>>
        BY <4>1 DEF ProjectionInv, ConsumerInv
      <4> QED
        BY <1>1, <4>2 DEF ProjectionInv, ConsumerInv
    <3> QED
      BY <3>5, <3>6
  <2> QED
    BY <2>1, <2>2 DEF Deliver
<1> QED
  BY <1>2, <1>8, <1>9 DEF ProjectionInv

-----------------------------------------------------------------------------
(* The theorems *)

LEMMA ProjectionStep ==
  ProjectionInv /\ [ProjectionNext]_<<vars, projection>> => ProjectionInv' /\ [C!Next]_(C!vars)
<1> SUFFICES ASSUME ProjectionInv, [ProjectionNext]_<<vars, projection>>
             PROVE  ProjectionInv' /\ [C!Next]_(C!vars)
  OBVIOUS
<1>1. CASE [Next]_vars /\ UNCHANGED projection
  BY <1>1, OrchestratorStep
<1>2. ASSUME NEW a \in Followed, NEW p \in PayloadsOf(a), Deliver(a, p)
      PROVE  ProjectionInv' /\ [C!Next]_(C!vars)
  BY <1>2, DeliverStep
<1> QED
  BY <1>1, <1>2 DEF ProjectionNext

LEMMA ProjectionStart == ProjectionInit => ProjectionInv /\ C!Init
<1> SUFFICES ASSUME ProjectionInit PROVE ProjectionInv /\ C!Init
  OBVIOUS
<1>1. Init /\ C!Init
  BY DEF ProjectionInit
<1>2. IInv
  BY <1>1, InitIInv
<1>3. DeletionsCounted /\ NumbersCounted
  BY <1>1 DEF Init, DeletionsCounted, NumbersCounted
<1>4. ConsumerInv
  <2>1. /\ \A a \in Followed : events[a] = <<>>
        /\ last = [a \in Followed |-> NoVersion]
        /\ applied = [a \in Followed |-> <<>>]
    BY <1>1, FollowedAssumption DEF Init, C!Init, NoVersion, C!NoVersion
  <2>2. IsPrefix(NoVersion, <<>>, Len(<<>>)) /\ <<>> \in Seq(Nat) /\ NoVersion \in Int
    BY DEF IsPrefix, NoVersion
  <2> QED
    BY <2>1, <2>2 DEF ConsumerInv
<1> QED
  BY <1>1, <1>2, <1>3, <1>4 DEF ProjectionInv, ProducerInv

\* However many agents, handlers and invocations there are, and whatever the
\* stream repeats, reorders and mixes in, a consumer that follows the rule has
\* applied a prefix of the committed versions.
THEOREM ProjectionCorrect == ProjectionSpec => []ProjectionIsAPrefix
<1>1. ProjectionInv => ProjectionIsAPrefix
  BY PrefixEach DEF ProjectionInv
<1> QED
  BY <1>1, ProjectionStart, ProjectionStep, PTL DEF ProjectionSpec

\* The orchestrator is a producer as Consumer assumes one: each of its steps
\* adds one event to one agent, or none, and never more than the bound.
THEOREM ProducerCorrect == ProjectionSpec => ImplementsConsumer
BY ProjectionStart, ProjectionStep, PTL DEF ProjectionSpec, ImplementsConsumer, C!Spec
=============================================================================
