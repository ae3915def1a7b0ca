--------------------------- MODULE RegistryApiProofs ---------------------------
(***************************************************************************)
(* What TLAPS proves of Tenancy, for any tenants, subjects, agents,        *)
(* connectors, keys, tokens and any number of calls at once; of Redaction, *)
(* for configurations of any depth and width; and of RegistryApi, which    *)
(* puts both together with a client that reads page by page.               *)
(***************************************************************************)
EXTENDS RegistryApi, Recursion, SequenceTheorems, FiniteSetTheorems

-----------------------------------------------------------------------------
(* Callers *)

\* An identity is one the identity provider vouches for, or the anonymous one
\* of a development deployment.
LEMMA CallersAreEntitled ==
  ASSUME TypeOK, NEW caller \in Callers
  PROVE  /\ caller.tenant_id \in Tenants
         /\ caller.actor_id \in Subjects \cup {"anonymous"}
         /\ MayActFor(caller.actor_id, caller.tenant_id)
<1>1. PICK h \in UserinfoHeaders : caller = current_identity(h, deployment.anonymous)
  BY DEF Callers, Identities
<1>2. caller # NoIdentity
  BY DEF Callers
<1>3. CASE identity_from_userinfo(h) = NoIdentity
  <2>1. deployment.anonymous /\ caller = CallerIdentity("anonymous", DEFAULT_TENANT)
    BY <1>1, <1>2, <1>3 DEF current_identity
  <2> QED
    BY <2>1, IdentityAssumption DEF CallerIdentity, MayActFor
<1>4. CASE identity_from_userinfo(h) # NoIdentity
  <2>1. caller = CallerIdentity(h.sub, h.tenant) /\ h.sub # NoClaim /\ h.tenant # NoClaim
    BY <1>1, <1>4 DEF current_identity, identity_from_userinfo
  <2>2. PICK s \in Subjects : h = Header("claims", s, TenantOf[s])
    BY <2>1 DEF UserinfoHeaders, Header
  <2>3. h.sub = s /\ h.tenant = TenantOf[s]
    BY <2>2 DEF Header
  <2> QED
    BY <2>1, <2>3, IdentityAssumption DEF CallerIdentity, MayActFor
<1> QED
  BY <1>3, <1>4

-----------------------------------------------------------------------------
(* Who waits for what *)

\* What call o is about to be told an outcome of.
Asks(o, tenant, c, agent, input) ==
  /\ call[o].step = "waiting"
  /\ call[o].tenant = tenant
  /\ Head(call[o].todo) = c
  /\ call[o].agent = agent
  /\ call[o].input = input

\* A request on its way carries the tenant of its agent; if its call has not
\* given up on it, it is what the call waits for, and no handler is at it.
PostsAreAsked ==
  \A p \in posts :
    /\ p.token = deployment.orchestrator_token
    /\ p.tenant = agent_owner[p.agent]
    /\ p.from # Nobody =>
         /\ Asks(p.from, p.tenant, p.connector, p.agent, p.input)
         /\ \A i \in DOMAIN invocations : invocations[i].waiter # p.from

\* An invocation a call waits for has no outcome yet and is what it asks for.
WaitersAsk ==
  \A i \in DOMAIN invocations :
    LET inv == invocations[i] IN
    inv.waiter # Nobody =>
      /\ inv.status \in InFlight
      /\ inv.key \in [agent : Agents, input : Inputs]
      /\ Asks(inv.waiter, inv.tenant, inv.connector, inv.key.agent, inv.key.input)

\* A call acts for the tenant of its agent.
CallsOwnTheirAgent ==
  \A o \in Calls : call[o] # NoCall => call[o].tenant = agent_owner[call[o].agent]

\* uq_invocations_idempotency.
UniqueKeys ==
  \A i, j \in DOMAIN invocations :
    /\ invocations[i].tenant = invocations[j].tenant
    /\ invocations[i].connector = invocations[j].connector
    /\ invocations[i].key = invocations[j].key
    => i = j

IInv ==
  /\ TypeOK
  /\ PostsAreAsked
  /\ WaitersAsk
  /\ CallsOwnTheirAgent
  /\ UniqueKeys
  /\ TenantIsolation

-----------------------------------------------------------------------------
(* The shapes of a step *)

\* A handler that has been given an answer.
AnswerState(o, code, body) ==
  [step |-> "ready", tenant |-> call[o].tenant,
   agent |-> call[o].agent, input |-> call[o].input,
   todo |-> Tail(call[o].todo),
   outputs |-> call[o].outputs \cup
     {[connector |-> Head(call[o].todo), status |-> reported(code), invocation |-> body]}]

\* An answer moves the call that waited on to its next connector.
LEMMA AnswerMovesOn ==
  ASSUME TypeOK, NEW o \in Calls, NEW code,
         NEW body \in InFlight \cup Terminal \cup {"none"},
         call[o].step = "waiting", Answered(o, code, body)
  PROVE  /\ call' = [call EXCEPT ![o] = AnswerState(o, code, body)]
         /\ AnswerState(o, code, body) \in CallStates
<1>1. call[o] \in CallStates
  BY DEF TypeOK, NoCall
<1>2. o # Nobody
  BY NobodyAssumption
<1>3. call' = [call EXCEPT ![o].step = "ready", ![o].todo = Tail(@),
                           ![o].outputs = @ \cup
                  {[connector |-> Head(call[o].todo), status |-> reported(code),
                    invocation |-> body]}]
  BY <1>2 DEF Answered
<1>4. call' = [call EXCEPT ![o] = AnswerState(o, code, body)]
  <2>1. call'[o] = AnswerState(o, code, body)
    BY <1>1, <1>3 DEF CallStates, TypeOK, AnswerState
  <2>2. call' = [call EXCEPT ![o] = call'[o]]
    BY <1>3 DEF TypeOK
  <2> QED
    BY <2>1, <2>2
<1>5. call[o].todo \in Seq(Connectors) /\ call[o].todo # <<>>
  BY <1>1 DEF TypeOK, CallStates
<1>6. Head(call[o].todo) \in Connectors /\ Tail(call[o].todo) \in Seq(Connectors)
  BY <1>5
<1>7. [connector |-> Head(call[o].todo), status |-> reported(code),
       invocation |-> body] \in Outputs
  BY <1>6 DEF Outputs, reported
<1>8. AnswerState(o, code, body) \in CallStates
  BY <1>1, <1>6, <1>7 DEF CallStates, AnswerState
<1> QED
  BY <1>4, <1>8

-----------------------------------------------------------------------------
(* The invariant, action by action *)

LEMMA InitIInv == Init => IInv
<1> SUFFICES ASSUME Init PROVE IInv
  OBVIOUS
<1>1. TypeOK
  BY DEF Init, TypeOK, NoCall
<1>2. \A o \in Calls : call[o] = NoCall
  BY DEF Init
<1>3. DOMAIN invocations = {} /\ posts = {}
  BY DEF Init
<1>4. PostsAreAsked /\ WaitersAsk /\ CallsOwnTheirAgent /\ UniqueKeys
  BY <1>2, <1>3 DEF PostsAreAsked, WaitersAsk, CallsOwnTheirAgent, UniqueKeys
<1>5. TenantIsolation
  BY <1>3 DEF Init, TenantIsolation
<1> QED
  BY <1>1, <1>4, <1>5 DEF IInv

LEMMA RowsTyped ==
  ASSUME TypeOK, NEW i \in DOMAIN invocations
  PROVE  invocations[i] \in InvocationRows
BY DEF TypeOK

\* Of one row: it is its connector's tenant's, and so is whoever asked for it.
Isolated(inv) ==
  /\ inv.tenant = owner[inv.connector]
  /\ IF inv.actor \in Agents THEN agent_owner[inv.actor] = inv.tenant
                            ELSE MayActFor(inv.actor, inv.tenant)

\* No step takes an owner away from a connector or an agent, so rows that were
\* isolated are.
LEMMA IsolationKept ==
  ASSUME UNCHANGED deployment,
         \A c \in Connectors : owner[c] \in Tenants => owner'[c] = owner[c],
         \A a \in Agents : agent_owner[a] \in Tenants => agent_owner'[a] = agent_owner[a],
         NEW inv \in InvocationRows, Isolated(inv)
  PROVE  Isolated(inv)'
BY DEF Isolated, MayActFor, InvocationRows

LEMMA CreateConnectorIInv ==
  ASSUME IInv, NEW caller \in Callers, NEW c \in Connectors, NEW enabled \in BOOLEAN,
         CreateConnector(caller, c, enabled)
  PROVE  IInv'
<1> USE DEF IInv
<1>1. /\ caller.tenant_id \in Tenants
      /\ caller.actor_id \in Subjects \cup {"anonymous"}
      /\ MayActFor(caller.actor_id, caller.tenant_id)
  BY CallersAreEntitled
<1>2. /\ owner[c] = NoClaim
      /\ owner'   = [owner EXCEPT ![c] = caller.tenant_id]
      /\ creator' = [creator EXCEPT ![c] = caller.actor_id]
      /\ executable' = [executable EXCEPT ![c] = enabled]
      /\ UNCHANGED <<deployment, agent_owner, connector_ids, invocations, call, posts>>
  BY DEF CreateConnector, orchestrator
<1>3. TypeOK'
  BY <1>1, <1>2 DEF TypeOK
<1>4. PostsAreAsked' /\ WaitersAsk' /\ CallsOwnTheirAgent' /\ UniqueKeys'
  BY <1>2 DEF PostsAreAsked, WaitersAsk, CallsOwnTheirAgent, UniqueKeys, Asks
<1>5. \A d \in Connectors : owner'[d] # NoClaim => MayActFor(creator[d], owner[d])'
  BY <1>1, <1>2 DEF TypeOK, TenantIsolation, MayActFor
<1>6. \A d \in Connectors : owner[d] \in Tenants => owner'[d] = owner[d]
  BY <1>2, IdentityAssumption DEF TypeOK
<1>7. \A i \in DOMAIN invocations : Isolated(invocations[i])'
  <2> SUFFICES ASSUME NEW i \in DOMAIN invocations
               PROVE  Isolated(invocations[i])'
    BY <1>2
  <2>1. PICK inv \in InvocationRows : inv = invocations[i]
    BY RowsTyped
  <2>2. Isolated(inv)
    BY <2>1 DEF TenantIsolation, Isolated
  <2>3. Isolated(inv)'
    BY <1>2, <1>6, <2>2, IsolationKept
  <2> QED
    BY <1>2, <2>1, <2>3 DEF Isolated
<1>8. TenantIsolation'
  BY <1>2, <1>5, <1>7 DEF TenantIsolation, Isolated, MayActFor
<1> QED
  BY <1>3, <1>4, <1>8

LEMMA AdministerIInv ==
  ASSUME IInv, NEW caller \in Callers, NEW c \in Connectors, Administer(caller, c)
  PROVE  IInv'
<1> USE DEF IInv
<1>1. /\ executable' = [executable EXCEPT ![c] = ~@]
      /\ UNCHANGED <<deployment, owner, creator, agent_owner, connector_ids,
                     invocations, call, posts>>
  BY DEF Administer, orchestrator
<1>2. TypeOK'
  BY <1>1 DEF TypeOK
<1>3. PostsAreAsked' /\ WaitersAsk' /\ CallsOwnTheirAgent' /\ UniqueKeys'
  BY <1>1 DEF PostsAreAsked, WaitersAsk, CallsOwnTheirAgent, UniqueKeys, Asks
<1>4. TenantIsolation'
  BY <1>1 DEF TenantIsolation, MayActFor
<1> QED
  BY <1>2, <1>3, <1>4

LEMMA CreateAgentIInv ==
  ASSUME IInv, NEW caller \in Callers, NEW a \in Agents, NEW ids \in ConnectorLists,
         CreateAgent(caller, a, ids)
  PROVE  IInv'
<1> USE DEF IInv
<1>1. caller.tenant_id \in Tenants
  BY CallersAreEntitled
<1>2. /\ agent_owner[a] = NoClaim
      /\ agent_owner' = [agent_owner EXCEPT ![a] = caller.tenant_id]
      /\ connector_ids' = [connector_ids EXCEPT ![a] = ids]
      /\ UNCHANGED <<deployment, owner, creator, executable, invocations, call, posts>>
  BY DEF CreateAgent, registry
<1>3. TypeOK'
  BY <1>1, <1>2, ListAssumption DEF TypeOK
<1>4. \A b \in Agents : agent_owner[b] \in Tenants => agent_owner'[b] = agent_owner[b]
  BY <1>2, IdentityAssumption DEF TypeOK
<1>5. PostsAreAsked'
  BY <1>2, <1>4 DEF PostsAreAsked, Asks, TypeOK, Requests
<1>6. WaitersAsk' /\ UniqueKeys'
  BY <1>2 DEF WaitersAsk, UniqueKeys, Asks
<1>7. CallsOwnTheirAgent'
  BY <1>2, <1>4 DEF CallsOwnTheirAgent, TypeOK, CallStates
<1>8. \A i \in DOMAIN invocations : Isolated(invocations[i])'
  BY <1>2, <1>4, RowsTyped, IsolationKept DEF TenantIsolation, Isolated
<1>9. TenantIsolation'
  BY <1>2, <1>8 DEF TenantIsolation, Isolated, MayActFor
<1> QED
  BY <1>3, <1>5, <1>6, <1>7, <1>9

-----------------------------------------------------------------------------
(* The shapes in which a step changes the invocations *)

NewRow(tenant, c, key, actor, waiter) ==
  [tenant |-> tenant, connector |-> c, key |-> key, actor |-> actor,
   status |-> "accepted", waiter |-> waiter]

AddsRow(n, row) ==
  /\ n \notin DOMAIN invocations
  /\ DOMAIN invocations' = DOMAIN invocations \cup {n}
  /\ invocations'[n] = row
  /\ \A i \in DOMAIN invocations : invocations'[i] = invocations[i]
  /\ invocations' \in Seq(InvocationRows)

\* accept adds one row and leaves the others alone.
LEMMA AcceptAddsOne ==
  ASSUME TypeOK, NEW tenant \in Tenants, NEW c \in Connectors,
         NEW key \in IdempotencyKeys, NEW actor \in Subjects \cup {"anonymous"} \cup Agents,
         NEW waiter \in Calls \cup {Nobody},
         Accept(tenant, c, key, actor, waiter)
  PROVE  AddsRow(Len(invocations) + 1, NewRow(tenant, c, key, actor, waiter))
<1> DEFINE row == NewRow(tenant, c, key, actor, waiter)
<1>1. row \in InvocationRows
  BY DEF InvocationRows, InFlight, NewRow
<1>2. invocations' = Append(invocations, row) /\ invocations \in Seq(InvocationRows)
  BY DEF Accept, TypeOK, NewRow
<1> HIDE DEF row
<1>3. /\ invocations' \in Seq(InvocationRows)
      /\ DOMAIN invocations' = 1 .. Len(invocations) + 1
      /\ DOMAIN invocations = 1 .. Len(invocations)
      /\ \A i \in 1 .. Len(invocations) : invocations'[i] = invocations[i]
      /\ invocations'[Len(invocations) + 1] = row
      /\ Len(invocations) \in Nat
  BY <1>1, <1>2, AppendProperties
<1>4. /\ Len(invocations) + 1 \notin DOMAIN invocations
      /\ DOMAIN invocations' = DOMAIN invocations \cup {Len(invocations) + 1}
  BY <1>3
<1> QED
  BY <1>3, <1>4 DEF row, AddsRow

\* A key that is not there yet stays unique when it is added, and the new row
\* is isolated if it is its connector's and its actor's.
LEMMA AcceptKeepsOrder ==
  ASSUME UniqueKeys, TenantIsolation,
         NEW n, NEW tenant, NEW c, NEW key, NEW actor, NEW waiter,
         AddsRow(n, NewRow(tenant, c, key, actor, waiter)),
         Existing(tenant, c, key) = {},
         tenant = owner[c],
         IF actor \in Agents THEN agent_owner[actor] = tenant ELSE MayActFor(actor, tenant),
         UNCHANGED <<deployment, registry, orchestrator>>
  PROVE  UniqueKeys' /\ TenantIsolation'
<1>1. /\ n \notin DOMAIN invocations
      /\ DOMAIN invocations' = DOMAIN invocations \cup {n}
      /\ invocations'[n] =
           [tenant |-> tenant, connector |-> c, key |-> key, actor |-> actor,
            status |-> "accepted", waiter |-> waiter]
      /\ \A i \in DOMAIN invocations : invocations'[i] = invocations[i]
  BY DEF AddsRow, NewRow
<1>2. UniqueKeys'
  BY <1>1 DEF UniqueKeys, Existing
<1>3. UNCHANGED <<deployment, owner, creator, agent_owner>>
  BY DEF registry, orchestrator
<1>4. \A i \in DOMAIN invocations : Isolated(invocations[i])'
  BY <1>1, <1>3 DEF TenantIsolation, Isolated, MayActFor
<1>5. Isolated(invocations[n])'
  BY <1>1, <1>3 DEF Isolated, MayActFor
<1>6. \A i \in DOMAIN invocations' : Isolated(invocations[i])'
  BY <1>1, <1>4, <1>5
<1>7. TenantIsolation'
  BY <1>3, <1>6 DEF TenantIsolation, Isolated, MayActFor
<1> QED
  BY <1>2, <1>7

\* What a row is filed under never changes.
LEMMA WorkKeepsOrder ==
  ASSUME IInv,
         DOMAIN invocations' = DOMAIN invocations,
         \A i \in DOMAIN invocations :
           /\ invocations'[i].tenant    = invocations[i].tenant
           /\ invocations'[i].connector = invocations[i].connector
           /\ invocations'[i].key       = invocations[i].key
           /\ invocations'[i].actor     = invocations[i].actor,
         UNCHANGED <<deployment, registry, orchestrator>>
  PROVE  UniqueKeys' /\ TenantIsolation'
<1>1. UniqueKeys'
  BY DEF IInv, UniqueKeys
<1>2. UNCHANGED <<deployment, owner, creator, agent_owner>>
  BY DEF registry, orchestrator
<1>3. TenantIsolation'
  BY <1>2 DEF IInv, TenantIsolation, MayActFor
<1> QED
  BY <1>1, <1>3

-----------------------------------------------------------------------------
(* The runtime, action by action *)

LEMMA InvokeConnectorIInv ==
  ASSUME IInv, NEW caller \in Callers, NEW c \in Connectors, NEW k \in ClientKeys,
         InvokeConnector(caller, c, k)
  PROVE  IInv'
<1> USE DEF IInv
<1>1. /\ caller.tenant_id \in Tenants
      /\ caller.actor_id \in Subjects \cup {"anonymous"}
      /\ MayActFor(caller.actor_id, caller.tenant_id)
  BY CallersAreEntitled
<1>2. /\ owner[c] = caller.tenant_id
      /\ Existing(owner[c], c, ClientKey(k)) = {}
      /\ Accept(caller.tenant_id, c, ClientKey(k), caller.actor_id, Nobody)
      /\ UNCHANGED <<deployment, registry, orchestrator, call, posts>>
  BY DEF InvokeConnector
<1>3. ClientKey(k) \in IdempotencyKeys
  BY DEF ClientKey, IdempotencyKeys
<1> DEFINE n == Len(invocations) + 1
           row == NewRow(caller.tenant_id, c, ClientKey(k), caller.actor_id, Nobody)
<1>4. AddsRow(n, row)
  BY <1>1, <1>2, <1>3, AcceptAddsOne
<1>5. row.waiter = Nobody
  BY DEF NewRow
<1> HIDE DEF n, row
<1>6. TypeOK'
  BY <1>2, <1>4 DEF TypeOK, AddsRow, registry, orchestrator
<1>7. PostsAreAsked'
  BY <1>2, <1>4, <1>5 DEF PostsAreAsked, AddsRow, Asks, orchestrator
<1>8. WaitersAsk'
  BY <1>2, <1>4, <1>5 DEF WaitersAsk, AddsRow, Asks
<1>9. CallsOwnTheirAgent'
  BY <1>2 DEF CallsOwnTheirAgent, orchestrator
<1>10. caller.actor_id \notin Agents
  BY <1>1, ActorAssumption
<1>11. UniqueKeys' /\ TenantIsolation'
  BY <1>1, <1>2, <1>4, <1>10, AcceptKeepsOrder DEF row
<1> QED
  BY <1>6, <1>7, <1>8, <1>9, <1>11

\* While a handler is not waiting, nothing is on its way or under way for it.
LEMMA NobodyAnswersTheReady ==
  ASSUME IInv, NEW o \in Calls, call[o].step # "waiting"
  PROVE  /\ \A p \in posts : p.from # o
         /\ \A i \in DOMAIN invocations : invocations[i].waiter # o
<1>1. o # Nobody
  BY NobodyAssumption
<1>2. \A p \in posts : p.from # o
  BY <1>1 DEF IInv, PostsAreAsked, Asks
<1>3. \A i \in DOMAIN invocations : invocations[i].waiter # o
  BY <1>1 DEF IInv, WaitersAsk, Asks
<1> QED
  BY <1>2, <1>3

\* A handler nothing is under way for may change without anyone noticing.
LEMMA LoneHandler ==
  ASSUME IInv, NEW o \in Calls, call[o].step # "waiting",
         NEW state \in CallStates \cup {NoCall},
         state # NoCall => state.tenant = agent_owner[state.agent],
         state.step = "waiting" => state.todo # <<>>,
         call' = [call EXCEPT ![o] = state],
         UNCHANGED <<deployment, registry, orchestrator, invocations>>,
         posts' = posts
  PROVE  IInv'
<1> USE DEF IInv
<1>1. UNCHANGED <<deployment, owner, creator, executable, agent_owner, connector_ids,
                  invocations, posts>>
  BY DEF registry, orchestrator
<1>2. call' \in [Calls -> CallStates \cup {NoCall}]
  BY DEF TypeOK
<1>3. \A q \in Calls : call'[q] = IF q = o THEN state ELSE call[q]
  BY DEF TypeOK
<1>4. TypeOK'
  BY <1>1, <1>2, <1>3 DEF TypeOK
<1>5. PostsAreAsked'
  BY <1>1, <1>3, NobodyAnswersTheReady DEF PostsAreAsked, Asks, TypeOK, Requests
<1>6. WaitersAsk'
  BY <1>1, <1>3, NobodyAnswersTheReady DEF WaitersAsk, Asks, TypeOK, InvocationRows
<1>7. CallsOwnTheirAgent'
  BY <1>1, <1>3 DEF CallsOwnTheirAgent
<1>8. UniqueKeys' /\ TenantIsolation'
  BY <1>1 DEF UniqueKeys, TenantIsolation, MayActFor
<1> QED
  BY <1>4, <1>5, <1>6, <1>7, <1>8

LEMMA InvokeAgentIInv ==
  ASSUME IInv, NEW o \in Calls, NEW caller \in Callers, NEW a \in Agents, NEW x \in Inputs,
         InvokeAgent(o, caller, a, x)
  PROVE  IInv'
<1> DEFINE state == [step |-> "ready", tenant |-> caller.tenant_id, agent |-> a, input |-> x,
                     todo |-> connector_ids[a], outputs |-> {}]
<1>1. caller.tenant_id \in Tenants
  BY CallersAreEntitled DEF IInv
<1>2. /\ call[o] = NoCall
      /\ agent_owner[a] = caller.tenant_id
      /\ call' = [call EXCEPT ![o] = state]
      /\ UNCHANGED <<deployment, registry, orchestrator, invocations, posts>>
  BY DEF InvokeAgent
<1>3. state \in CallStates
  BY <1>1 DEF IInv, TypeOK, CallStates
<1>4. call[o].step # "waiting"
  BY <1>2 DEF NoCall
<1>5. state.tenant = agent_owner[state.agent] /\ state.step # "waiting"
  BY <1>2
<1> HIDE DEF state
<1> QED
  BY <1>2, <1>3, <1>4, <1>5, LoneHandler

LEMMA EndInvokeIInv ==
  ASSUME IInv, NEW o \in Calls, EndInvoke(o)
  PROVE  IInv'
<1>1. /\ call[o].step # "waiting"
      /\ call' = [call EXCEPT ![o] = NoCall]
      /\ UNCHANGED <<deployment, registry, orchestrator, invocations, posts>>
  BY DEF EndInvoke
<1>2. NoCall.step # "waiting"
  BY DEF NoCall
<1> QED
  BY <1>1, <1>2, LoneHandler

LEMMA PostIInv ==
  ASSUME IInv, NEW o \in Calls, Post(o)
  PROVE  IInv'
<1> USE DEF IInv
<1>a. PICK state : state = [call[o] EXCEPT !.step = "waiting"]
  OBVIOUS
<1>b. PICK post :
        post = [from |-> o, connector |-> Head(call[o].todo), tenant |-> call[o].tenant,
                token |-> deployment.orchestrator_token,
                agent |-> call[o].agent, input |-> call[o].input]
  OBVIOUS
<1>1. call[o] \in CallStates /\ call[o].step = "ready" /\ call[o].todo # <<>>
  BY DEF Post, TypeOK, NoCall
<1>2. /\ posts' = posts \cup {post}
      /\ call' = [call EXCEPT ![o] = state]
      /\ UNCHANGED <<deployment, registry, orchestrator, invocations>>
  BY <1>a, <1>b DEF Post
<1>3. Head(call[o].todo) \in Connectors
  BY <1>1 DEF CallStates
<1>4. post \in Requests
  BY <1>b, <1>1, <1>3 DEF Requests, TypeOK, CallStates
<1>5. /\ state \in CallStates
      /\ state.todo = call[o].todo
      /\ state.step = "waiting"
      /\ state.tenant = call[o].tenant
      /\ state.agent = call[o].agent
      /\ state.input = call[o].input
  BY <1>a, <1>1 DEF CallStates
<1>6. /\ post.from = o
      /\ post.token = deployment.orchestrator_token
      /\ post.connector = Head(state.todo)
      /\ post.tenant = state.tenant
      /\ post.agent = state.agent
      /\ post.input = state.input
  BY <1>b, <1>5
<1>7. \A q \in Calls : call'[q] = IF q = o THEN state ELSE call[q]
  BY <1>2 DEF TypeOK
<1>8. UNCHANGED <<deployment, owner, creator, executable, agent_owner, connector_ids,
                  invocations>>
  BY <1>2 DEF registry, orchestrator
<1>9. TypeOK'
  <2>1. call' \in [Calls -> CallStates \cup {NoCall}]
    BY <1>2, <1>5 DEF TypeOK
  <2>2. posts' \subseteq Requests
    BY <1>2, <1>4 DEF TypeOK
  <2>3. \A q \in Calls : call'[q].step = "waiting" => call'[q].todo # <<>>
    BY <1>1, <1>5, <1>7 DEF TypeOK
  <2> QED
    BY <1>8, <2>1, <2>2, <2>3 DEF TypeOK
<1>10. CallsOwnTheirAgent'
  <2>1. call[o] # NoCall
    BY <1>1 DEF NoCall
  <2> QED
    BY <1>5, <1>7, <1>8, <2>1 DEF CallsOwnTheirAgent
<1>11. PostsAreAsked'
  <2>1. state.tenant = agent_owner[state.agent]
    BY <1>1, <1>5 DEF CallsOwnTheirAgent, NoCall
  <2>2. \A p \in posts : p.from # o
    BY <1>1, NobodyAnswersTheReady
  <2>3. \A i \in DOMAIN invocations : invocations[i].waiter # o
    BY <1>1, NobodyAnswersTheReady
  <2>4. Asks(post.from, post.tenant, post.connector, post.agent, post.input)'
    BY <1>5, <1>6, <1>7 DEF Asks
  <2>5. ASSUME NEW p \in posts, p.from # Nobody
        PROVE  Asks(p.from, p.tenant, p.connector, p.agent, p.input)'
    BY <1>7, <2>2, <2>5 DEF PostsAreAsked, Asks, TypeOK, Requests
  <2> QED
    BY <1>2, <1>6, <1>8, <2>1, <2>3, <2>4, <2>5 DEF PostsAreAsked
<1>12. WaitersAsk'
  <2>1. \A i \in DOMAIN invocations : invocations[i].waiter # o
    BY <1>1, NobodyAnswersTheReady
  <2>2. \A i \in DOMAIN invocations : invocations[i].waiter \in Calls \cup {Nobody}
    BY RowsTyped DEF InvocationRows
  <2> QED
    BY <1>7, <1>8, <2>1, <2>2 DEF WaitersAsk, Asks
<1>13. UniqueKeys' /\ TenantIsolation'
  BY <1>8 DEF UniqueKeys, TenantIsolation, MayActFor
<1> QED
  BY <1>9, <1>10, <1>11, <1>12, <1>13

LEMMA StartIInv ==
  ASSUME IInv, NEW i \in DOMAIN invocations, Start(i)
  PROVE  IInv'
<1> USE DEF IInv
<1> DEFINE row == [invocations[i] EXCEPT !.status = "running"]
<1>1. /\ invocations[i].status = "accepted"
      /\ invocations' = [invocations EXCEPT ![i] = row]
      /\ UNCHANGED <<deployment, registry, orchestrator, call, posts>>
  BY DEF Start
<1>2. invocations[i] \in InvocationRows
  BY RowsTyped
<1>3. /\ row \in InvocationRows
      /\ row.tenant = invocations[i].tenant
      /\ row.connector = invocations[i].connector
      /\ row.key = invocations[i].key
      /\ row.actor = invocations[i].actor
      /\ row.waiter = invocations[i].waiter
      /\ row.status = "running"
  BY <1>2 DEF InvocationRows, InFlight
<1> HIDE DEF row
<1>4. /\ invocations' \in Seq(InvocationRows)
      /\ DOMAIN invocations' = DOMAIN invocations
      /\ \A j \in DOMAIN invocations : invocations'[j] = IF j = i THEN row ELSE invocations[j]
  BY <1>1, <1>3, ExceptSeq DEF TypeOK
<1>5. TypeOK'
  BY <1>1, <1>4 DEF TypeOK, registry, orchestrator
<1>6. PostsAreAsked'
  BY <1>1, <1>3, <1>4 DEF PostsAreAsked, Asks, orchestrator
<1>7. WaitersAsk'
  BY <1>1, <1>3, <1>4 DEF WaitersAsk, Asks, InFlight
<1>8. CallsOwnTheirAgent'
  BY <1>1 DEF CallsOwnTheirAgent, orchestrator
<1>9. UniqueKeys' /\ TenantIsolation'
  BY <1>1, <1>3, <1>4, WorkKeepsOrder
<1> QED
  BY <1>5, <1>6, <1>7, <1>8, <1>9

\* What the others see of an answer to a call: its handler goes on.
MovedOn(o) ==
  /\ call' \in [Calls -> CallStates \cup {NoCall}]
  /\ \A q \in Calls : q # o => call'[q] = call[q]
  /\ call'[o] # NoCall
  /\ call'[o].step = "ready"
  /\ call'[o].tenant = call[o].tenant
  /\ call'[o].agent = call[o].agent

Told(o) == IF o = Nobody THEN UNCHANGED call
                         ELSE call[o].step = "waiting" /\ MovedOn(o)

LEMMA AnswersAreTold ==
  ASSUME TypeOK, NEW o \in Calls \cup {Nobody}, NEW code,
         NEW body \in InFlight \cup Terminal \cup {"none"},
         o # Nobody => call[o].step = "waiting",
         Answered(o, code, body)
  PROVE  Told(o)
<1>1. CASE o = Nobody
  BY <1>1 DEF Told, Answered
<1>2. CASE o # Nobody
  <2>1. o \in Calls /\ call[o].step = "waiting"
    BY <1>2
  <2>2. /\ call' = [call EXCEPT ![o] = AnswerState(o, code, body)]
        /\ AnswerState(o, code, body) \in CallStates
    BY <2>1, AnswerMovesOn
  <2>3. call \in [Calls -> CallStates \cup {NoCall}]
    BY DEF TypeOK
  <2>4. /\ call' \in [Calls -> CallStates \cup {NoCall}]
        /\ \A q \in Calls : q # o => call'[q] = call[q]
        /\ call'[o] = AnswerState(o, code, body)
    BY <2>1, <2>2, <2>3
  <2>5. /\ AnswerState(o, code, body) # NoCall
        /\ AnswerState(o, code, body).step = "ready"
        /\ AnswerState(o, code, body).tenant = call[o].tenant
        /\ AnswerState(o, code, body).agent = call[o].agent
    BY DEF AnswerState, NoCall
  <2> QED
    BY <1>2, <2>1, <2>4, <2>5 DEF Told, MovedOn
<1> QED
  BY <1>1, <1>2

\* Once a call has been told, nothing is on its way or under way for it.
LEMMA ToldIInv ==
  ASSUME IInv, NEW o \in Calls \cup {Nobody}, Told(o),
         UNCHANGED <<deployment, registry, orchestrator>>,
         posts' \subseteq Requests,
         \A p \in posts' : \E q \in posts :
           /\ p.token = q.token /\ p.tenant = q.tenant /\ p.agent = q.agent
           /\ p.from # Nobody => p = q /\ p.from # o,
         invocations' \in Seq(InvocationRows),
         DOMAIN invocations' = DOMAIN invocations,
         \A i \in DOMAIN invocations :
           /\ invocations'[i].tenant    = invocations[i].tenant
           /\ invocations'[i].connector = invocations[i].connector
           /\ invocations'[i].key       = invocations[i].key
           /\ invocations'[i].actor     = invocations[i].actor
           /\ invocations'[i].waiter # Nobody =>
                /\ invocations'[i].waiter = invocations[i].waiter
                /\ invocations'[i].waiter # o
                /\ invocations'[i].status = invocations[i].status
  PROVE  IInv'
<1> USE DEF IInv
<1>1. UNCHANGED <<deployment, owner, creator, executable, agent_owner, connector_ids>>
  BY DEF registry, orchestrator
<1>2. \A q \in Calls : q # o => call'[q] = call[q]
  BY DEF Told, MovedOn
<1>3. TypeOK'
  <2>1. call' \in [Calls -> CallStates \cup {NoCall}]
    BY DEF Told, MovedOn, TypeOK
  <2>2. \A q \in Calls : call'[q].step = "waiting" => call'[q].todo # <<>>
    BY <1>2 DEF Told, MovedOn, TypeOK
  <2> QED
    BY <1>1, <2>1, <2>2 DEF TypeOK
<1>4. PostsAreAsked'
  <2> SUFFICES ASSUME NEW p \in posts'
               PROVE  /\ p.token = deployment'.orchestrator_token
                      /\ p.tenant = agent_owner'[p.agent]
                      /\ p.from # Nobody =>
                           /\ Asks(p.from, p.tenant, p.connector, p.agent, p.input)'
                           /\ \A i \in DOMAIN invocations' : invocations'[i].waiter # p.from
    BY DEF PostsAreAsked
  <2>1. PICK q \in posts :
          /\ p.token = q.token /\ p.tenant = q.tenant /\ p.agent = q.agent
          /\ p.from # Nobody => p = q /\ p.from # o
    OBVIOUS
  <2>2. p.token = deployment'.orchestrator_token /\ p.tenant = agent_owner'[p.agent]
    BY <1>1, <2>1 DEF PostsAreAsked
  <2>3. ASSUME p.from # Nobody
        PROVE  /\ Asks(p.from, p.tenant, p.connector, p.agent, p.input)'
               /\ \A i \in DOMAIN invocations' : invocations'[i].waiter # p.from
    <3>1. /\ p \in posts /\ p.from # o /\ p.from \in Calls
          /\ Asks(p.from, p.tenant, p.connector, p.agent, p.input)
          /\ \A i \in DOMAIN invocations : invocations[i].waiter # p.from
      BY <2>1, <2>3 DEF PostsAreAsked, TypeOK, Requests
    <3> QED
      BY <1>2, <2>3, <3>1 DEF Asks
  <2> QED
    BY <2>2, <2>3
<1>5. WaitersAsk'
  <2> SUFFICES ASSUME NEW i \in DOMAIN invocations, invocations'[i].waiter # Nobody
               PROVE  /\ invocations'[i].status \in InFlight
                      /\ invocations'[i].key \in [agent : Agents, input : Inputs]
                      /\ Asks(invocations[i].waiter, invocations[i].tenant,
                              invocations[i].connector, invocations[i].key.agent,
                              invocations[i].key.input)'
    BY DEF WaitersAsk
  <2>1. /\ invocations[i].waiter \in Calls
        /\ invocations[i].waiter # o
        /\ invocations'[i].waiter = invocations[i].waiter
    BY RowsTyped DEF InvocationRows
  <2> QED
    BY <1>2, <2>1 DEF WaitersAsk, Asks
<1>6. CallsOwnTheirAgent'
  BY <1>1, <1>2 DEF CallsOwnTheirAgent, Told, MovedOn, NoCall
<1>7. UniqueKeys' /\ TenantIsolation'
  BY WorkKeepsOrder
<1> QED
  BY <1>3, <1>4, <1>5, <1>6, <1>7

\* Two requests of one call are one, and so are two rows a call waits for.
LEMMA OneQuestion ==
  ASSUME IInv
  PROVE  /\ \A p, q \in posts : p.from = q.from /\ p.from # Nobody => p = q
         /\ \A i, j \in DOMAIN invocations :
              /\ invocations[i].waiter = invocations[j].waiter
              /\ invocations[i].waiter # Nobody
              => i = j
<1> USE DEF IInv
<1>1. ASSUME NEW p \in posts, NEW q \in posts, p.from = q.from, p.from # Nobody
      PROVE  p = q
  <2>1. p \in Requests /\ q \in Requests
    BY DEF TypeOK
  <2>2. /\ p.token = q.token /\ p.tenant = q.tenant /\ p.connector = q.connector
        /\ p.agent = q.agent /\ p.input = q.input
    BY <1>1 DEF PostsAreAsked, Asks
  <2> QED
    BY <1>1, <2>1, <2>2 DEF Requests
<1>2. ASSUME NEW i \in DOMAIN invocations, NEW j \in DOMAIN invocations,
             invocations[i].waiter = invocations[j].waiter,
             invocations[i].waiter # Nobody
      PROVE  i = j
  <2>1. /\ invocations[i].key \in [agent : Agents, input : Inputs]
        /\ invocations[j].key \in [agent : Agents, input : Inputs]
        /\ invocations[i].key.agent = invocations[j].key.agent
        /\ invocations[i].key.input = invocations[j].key.input
        /\ invocations[i].tenant = invocations[j].tenant
        /\ invocations[i].connector = invocations[j].connector
    BY <1>2 DEF WaitersAsk, Asks
  <2>2. invocations[i].key = invocations[j].key
    BY <2>1
  <2> QED
    BY <2>1, <2>2 DEF UniqueKeys
<1> QED
  BY <1>1, <1>2

LEMMA FinaliseIInv ==
  ASSUME IInv, NEW i \in DOMAIN invocations, NEW outcome \in Terminal, Finalise(i, outcome)
  PROVE  IInv'
<1> USE DEF IInv
<1>a. PICK row : row = [invocations[i] EXCEPT !.status = outcome, !.waiter = Nobody]
  OBVIOUS
<1>b. PICK o : o = invocations[i].waiter
  OBVIOUS
<1>1. invocations[i] \in InvocationRows
  BY RowsTyped
<1>2. /\ invocations' = [invocations EXCEPT ![i] = row]
      /\ Answered(o, http_status_for(outcome), outcome)
      /\ UNCHANGED <<deployment, registry, orchestrator, posts>>
  BY <1>a, <1>b DEF Finalise
<1>3. /\ row \in InvocationRows
      /\ row.tenant = invocations[i].tenant
      /\ row.connector = invocations[i].connector
      /\ row.key = invocations[i].key
      /\ row.actor = invocations[i].actor
      /\ row.waiter = Nobody
  BY <1>a, <1>1 DEF InvocationRows
<1>4. /\ invocations' \in Seq(InvocationRows)
      /\ DOMAIN invocations' = DOMAIN invocations
      /\ \A j \in DOMAIN invocations : invocations'[j] = IF j = i THEN row ELSE invocations[j]
  BY <1>2, <1>3, ExceptSeq DEF TypeOK
<1>5. o \in Calls \cup {Nobody} /\ (o # Nobody => call[o].step = "waiting")
  BY <1>b, <1>1 DEF InvocationRows, WaitersAsk, Asks
<1>6. Told(o)
  BY <1>2, <1>5, AnswersAreTold
<1>7. \A j \in DOMAIN invocations : j # i /\ invocations[j].waiter # Nobody =>
        invocations[j].waiter # o
  BY <1>b, OneQuestion
<1>8. \A p \in posts : p.from # Nobody => p.from # o
  BY <1>b DEF PostsAreAsked
<1>9. /\ posts' \subseteq Requests
      /\ \A p \in posts' : \E q \in posts :
           /\ p.token = q.token /\ p.tenant = q.tenant /\ p.agent = q.agent
           /\ p.from # Nobody => p = q /\ p.from # o
  BY <1>2, <1>8 DEF TypeOK
<1>10. \A j \in DOMAIN invocations :
           /\ invocations'[j].tenant    = invocations[j].tenant
           /\ invocations'[j].connector = invocations[j].connector
           /\ invocations'[j].key       = invocations[j].key
           /\ invocations'[j].actor     = invocations[j].actor
           /\ invocations'[j].waiter # Nobody =>
                /\ invocations'[j].waiter = invocations[j].waiter
                /\ invocations'[j].waiter # o
                /\ invocations'[j].status = invocations[j].status
  BY <1>3, <1>4, <1>7
<1> QED
  BY <1>2, <1>4, <1>5, <1>6, <1>9, <1>10, ToldIInv

LEMMA UnreachableIInv ==
  ASSUME IInv, NEW o \in Calls, NEW lost \in BOOLEAN, Unreachable(o, lost)
  PROVE  IInv'
<1> USE DEF IInv
<1>1. /\ call[o].step = "waiting"
      /\ Answered(o, 503, "none")
      /\ UNCHANGED <<deployment, registry, orchestrator>>
      /\ invocations' = [i \in DOMAIN invocations |-> Forget(o, invocations[i])]
  BY DEF Unreachable
<1>2. Told(o)
  BY <1>1, AnswersAreTold
<1>3. ASSUME NEW p \in posts'
      PROVE  /\ p \in Requests
             /\ \E q \in posts :
                  /\ p.token = q.token /\ p.tenant = q.tenant /\ p.agent = q.agent
                  /\ p.from # Nobody => p = q /\ p.from # o
  <2>1. CASE p \in posts /\ p.from # o
    BY <2>1 DEF TypeOK
  <2>2. CASE \E q \in posts : p = [q EXCEPT !.from = Nobody]
    <3>1. PICK q \in posts : p = [q EXCEPT !.from = Nobody]
      BY <2>2
    <3>2. q \in Requests
      BY DEF TypeOK
    <3>3. /\ p \in Requests
          /\ p.token = q.token /\ p.tenant = q.tenant /\ p.agent = q.agent
          /\ p.from = Nobody
      BY <3>1, <3>2 DEF Requests
    <3> QED
      BY <3>3
  <2> QED
    BY <2>1, <2>2 DEF Unreachable
<1>4. \A i \in DOMAIN invocations : Forget(o, invocations[i]) \in InvocationRows
  BY RowsTyped DEF Forget, InvocationRows
<1>5. /\ invocations' \in Seq(InvocationRows)
      /\ DOMAIN invocations' = DOMAIN invocations
  <2>1. DOMAIN invocations = 1 .. Len(invocations) /\ Len(invocations) \in Nat
    BY DEF TypeOK
  <2>2. invocations' \in [1 .. Len(invocations) -> InvocationRows]
    BY <1>1, <1>4, <2>1
  <2> QED
    BY <2>1, <2>2, SeqDef
<1>6. \A i \in DOMAIN invocations :
           /\ invocations'[i].tenant    = invocations[i].tenant
           /\ invocations'[i].connector = invocations[i].connector
           /\ invocations'[i].key       = invocations[i].key
           /\ invocations'[i].actor     = invocations[i].actor
           /\ invocations'[i].waiter # Nobody =>
                /\ invocations'[i].waiter = invocations[i].waiter
                /\ invocations'[i].waiter # o
                /\ invocations'[i].status = invocations[i].status
  BY <1>1, RowsTyped DEF Forget, InvocationRows
<1> QED
  BY <1>1, <1>2, <1>3, <1>5, <1>6, ToldIInv

LEMMA ArriveIInv ==
  ASSUME IInv, NEW p \in posts, Arrive(p)
  PROVE  IInv'
<1> USE DEF IInv
<1> DEFINE key == AgentKey(p.agent, p.input)
           existing == Existing(p.tenant, p.connector, key)
<1>1. /\ p.from \in Calls \cup {Nobody} /\ p.connector \in Connectors
      /\ p.tenant \in Tenants /\ p.agent \in Agents /\ p.input \in Inputs
  BY DEF TypeOK, Requests
<1>2. posts' = posts \ {p} /\ UNCHANGED <<deployment, registry, orchestrator>>
  BY DEF Arrive
<1>3. /\ posts' \subseteq Requests
      /\ \A q \in posts' : q \in posts /\ (q.from # Nobody => q.from # p.from)
  BY <1>2, OneQuestion DEF TypeOK
<1>4. /\ p.from # Nobody =>
           /\ Asks(p.from, p.tenant, p.connector, p.agent, p.input)
           /\ \A i \in DOMAIN invocations : invocations[i].waiter # p.from
      /\ p.tenant = agent_owner[p.agent]
  BY DEF PostsAreAsked
<1>5. ASSUME NEW code, NEW body \in InFlight \cup Terminal \cup {"none"},
             Answered(p.from, code, body), UNCHANGED invocations
      PROVE  IInv'
  <2>1. Told(p.from)
    BY <1>1, <1>4, <1>5, AnswersAreTold DEF Asks
  <2>2. \A q \in posts' : \E r \in posts :
           /\ q.token = r.token /\ q.tenant = r.tenant /\ q.agent = r.agent
           /\ q.from # Nobody => q = r /\ q.from # p.from
    BY <1>3
  <2>3. invocations' \in Seq(InvocationRows)
    BY <1>5 DEF TypeOK
  <2>4. \A i \in DOMAIN invocations :
           /\ invocations'[i].tenant    = invocations[i].tenant
           /\ invocations'[i].connector = invocations[i].connector
           /\ invocations'[i].key       = invocations[i].key
           /\ invocations'[i].actor     = invocations[i].actor
           /\ invocations'[i].waiter # Nobody =>
                /\ invocations'[i].waiter = invocations[i].waiter
                /\ invocations'[i].waiter # p.from
                /\ invocations'[i].status = invocations[i].status
    BY <1>4, <1>5
  <2>5. DOMAIN invocations' = DOMAIN invocations
    BY <1>5
  <2> QED
    BY <1>1, <1>2, <1>3, <2>1, <2>2, <2>3, <2>4, <2>5, ToldIInv
<1>6. CASE /\ Verdict(p) # 200
           /\ Answered(p.from, Verdict(p), "none")
           /\ UNCHANGED invocations
  BY <1>5, <1>6
<1>7. CASE /\ \E i \in existing :
                Answered(p.from, http_status_for(invocations[i].status), invocations[i].status)
           /\ UNCHANGED invocations
  <2>1. PICK i \in DOMAIN invocations :
          Answered(p.from, http_status_for(invocations[i].status), invocations[i].status)
    BY <1>7 DEF Existing
  <2>2. invocations[i].status \in InFlight \cup Terminal
    BY RowsTyped DEF InvocationRows
  <2> QED
    BY <1>5, <1>7, <2>1, <2>2
<1>8. CASE /\ Verdict(p) = 200
           /\ existing = {}
           /\ Accept(p.tenant, p.connector, key, p.agent, p.from)
           /\ UNCHANGED call
  <2> DEFINE n == Len(invocations) + 1
  <2>a. PICK row : row = NewRow(p.tenant, p.connector, key, p.agent, p.from)
    OBVIOUS
  <2>1. key \in [agent : Agents, input : Inputs] /\ key \in IdempotencyKeys
    BY <1>1 DEF AgentKey, IdempotencyKeys
  <2>2. AddsRow(n, row)
    BY <1>1, <1>8, <2>a, <2>1, AcceptAddsOne
  <2>3. /\ row.waiter = p.from
        /\ row.status = "accepted"
        /\ row.tenant = p.tenant
        /\ row.connector = p.connector
        /\ row.key = key
        /\ row.key.agent = p.agent
        /\ row.key.input = p.input
    BY <2>a DEF NewRow, AgentKey
  <2>4. owner[p.connector] = p.tenant
    BY <1>8 DEF Verdict
  <2> HIDE DEF n, key
  <2>5. UniqueKeys' /\ TenantIsolation'
    BY <1>1, <1>2, <1>4, <1>8, <2>a, <2>2, <2>4, AcceptKeepsOrder
  <2>6. UNCHANGED <<deployment, owner, creator, executable, agent_owner, connector_ids, call>>
    BY <1>2, <1>8 DEF registry, orchestrator
  <2>7. TypeOK'
    BY <1>3, <2>2, <2>6 DEF TypeOK, AddsRow
  <2>8. PostsAreAsked'
    <3> SUFFICES ASSUME NEW q \in posts', q.from # Nobody
                 PROVE  \A i \in DOMAIN invocations' : invocations'[i].waiter # q.from
      BY <1>3, <2>6 DEF PostsAreAsked, Asks
    <3>1. q \in posts /\ q.from # p.from
      BY <1>3
    <3> QED
      BY <2>2, <2>3, <3>1 DEF PostsAreAsked, AddsRow
  <2>9. WaitersAsk'
    <3>1. ASSUME NEW i \in DOMAIN invocations, invocations[i].waiter # Nobody
          PROVE  /\ invocations[i].status \in InFlight
                 /\ invocations[i].key \in [agent : Agents, input : Inputs]
                 /\ Asks(invocations[i].waiter, invocations[i].tenant,
                         invocations[i].connector, invocations[i].key.agent,
                         invocations[i].key.input)
      BY <3>1 DEF WaitersAsk
    <3>2. row.waiter # Nobody =>
            /\ row.status \in InFlight
            /\ row.key \in [agent : Agents, input : Inputs]
            /\ Asks(row.waiter, row.tenant, row.connector, row.key.agent, row.key.input)
      BY <1>4, <2>1, <2>3 DEF InFlight
    <3> QED
      BY <2>2, <2>6, <3>1, <3>2 DEF WaitersAsk, AddsRow, Asks
  <2>10. CallsOwnTheirAgent'
    BY <2>6 DEF CallsOwnTheirAgent
  <2> QED
    BY <2>5, <2>7, <2>8, <2>9, <2>10
<1> QED
  BY <1>6, <1>7, <1>8 DEF Arrive

-----------------------------------------------------------------------------
(* The theorems about Tenancy *)

LEMMA NextIInv == IInv /\ [Next]_vars => IInv'
<1> SUFFICES ASSUME IInv, [Next]_vars PROVE IInv'
  OBVIOUS
<1>1. ASSUME NEW caller \in Callers, NEW c \in Connectors, NEW enabled \in BOOLEAN,
             CreateConnector(caller, c, enabled)
      PROVE  IInv'
  BY <1>1, CreateConnectorIInv
<1>2. ASSUME NEW caller \in Callers, Public(caller)
      PROVE  IInv'
  <2>1. ASSUME NEW c \in Connectors, Administer(caller, c)
        PROVE  IInv'
    BY <2>1, AdministerIInv
  <2>2. ASSUME NEW c \in Connectors, NEW k \in ClientKeys, InvokeConnector(caller, c, k)
        PROVE  IInv'
    BY <2>2, InvokeConnectorIInv
  <2>3. ASSUME NEW a \in Agents, NEW ids \in ConnectorLists, CreateAgent(caller, a, ids)
        PROVE  IInv'
    BY <2>3, CreateAgentIInv
  <2>4. ASSUME NEW a \in Agents, NEW o \in Calls, NEW x \in Inputs,
               InvokeAgent(o, caller, a, x)
        PROVE  IInv'
    BY <2>4, InvokeAgentIInv
  <2> QED
    BY <1>2, <2>1, <2>2, <2>3, <2>4 DEF Public
<1>3. ASSUME NEW o \in Calls, Proceed(o)
      PROVE  IInv'
  BY <1>3, PostIInv, EndInvokeIInv, UnreachableIInv DEF Proceed
<1>4. ASSUME NEW p \in posts, Arrive(p)
      PROVE  IInv'
  BY <1>4, ArriveIInv
<1>5. ASSUME NEW i \in DOMAIN invocations, Work(i)
      PROVE  IInv'
  BY <1>5, StartIInv, FinaliseIInv DEF Work
<1>6. CASE UNCHANGED vars
  BY <1>6 DEF vars, IInv, TypeOK, PostsAreAsked, Asks, WaitersAsk, CallsOwnTheirAgent,
              UniqueKeys, TenantIsolation, MayActFor
<1> QED
  BY <1>1, <1>2, <1>3, <1>4, <1>5, <1>6 DEF Next, Serve, Unauthorized

LEMMA AlwaysIInv == Spec => []IInv
BY InitIInv, NextIInv, PTL DEF Spec

\* Every variable keeps to its type.
THEOREM TypeCorrect == Spec => []TypeOK
BY AlwaysIInv, PTL DEF IInv

\* No connector is created or invoked for another tenant than that of the
\* subject, or of the agent, that asked.
THEOREM Isolation == Spec => []TenantIsolation
BY AlwaysIInv, PTL DEF IInv

\* The same agent call never becomes two invocations of a connector.
THEOREM RetriesCollapsed == Spec => []RetriesCollapse
<1>1. IInv => RetriesCollapse
  <2> SUFFICES ASSUME IInv, NEW i \in DOMAIN invocations, NEW j \in DOMAIN invocations,
                      {"agent", "input"} \subseteq
                        DOMAIN invocations[i].key \cap DOMAIN invocations[j].key,
                      invocations[i].connector = invocations[j].connector,
                      invocations[i].key.agent = invocations[j].key.agent,
                      invocations[i].key.input = invocations[j].key.input
               PROVE  i = j
    BY DEF RetriesCollapse
  <2>1. /\ invocations[i].key \in IdempotencyKeys
        /\ invocations[j].key \in IdempotencyKeys
    BY RowsTyped DEF IInv, InvocationRows
  <2>2. /\ invocations[i].key \in [agent : Agents, input : Inputs]
        /\ invocations[j].key \in [agent : Agents, input : Inputs]
    BY <2>1 DEF IdempotencyKeys
  <2>3. invocations[i].key = invocations[j].key
    BY <2>2
  <2>4. invocations[i].tenant = invocations[j].tenant
    BY DEF IInv, TenantIsolation
  <2> QED
    BY <2>3, <2>4 DEF IInv, UniqueKeys
<1> QED
  BY <1>1, AlwaysIInv, PTL

-----------------------------------------------------------------------------
(* What the orchestrator reports *)

\* An invocation with an outcome keeps it, and no second row appears under a
\* key that is there.
Recorded ==
  /\ \A i \in DOMAIN invocations :
       /\ i \in DOMAIN invocations'
       /\ invocations'[i].tenant    = invocations[i].tenant
       /\ invocations'[i].connector = invocations[i].connector
       /\ invocations'[i].key       = invocations[i].key
       /\ invocations[i].status \in Terminal => invocations'[i].status = invocations[i].status
  /\ \A n \in DOMAIN invocations' \ DOMAIN invocations :
       Existing(invocations'[n].tenant, invocations'[n].connector, invocations'[n].key) = {}

LEMMA WorkRecords ==
  ASSUME IInv, NEW i \in DOMAIN invocations, Work(i)
  PROVE  Recorded
<1>1. invocations[i] \in InvocationRows /\ invocations \in Seq(InvocationRows)
  BY RowsTyped DEF IInv, TypeOK
<1>2. CASE Start(i)
  BY <1>1, <1>2 DEF Start, Recorded, Terminal, InvocationRows
<1>3. CASE \E outcome \in Terminal : Finalise(i, outcome)
  BY <1>1, <1>3 DEF Finalise, Recorded, Terminal, InvocationRows
<1> QED
  BY <1>2, <1>3 DEF Work

LEMMA AcceptRecords ==
  ASSUME NEW n, NEW tenant, NEW c, NEW key, NEW actor, NEW waiter,
         AddsRow(n, NewRow(tenant, c, key, actor, waiter)),
         Existing(tenant, c, key) = {}
  PROVE  Recorded
BY DEF AddsRow, NewRow, Recorded

LEMMA UnreachableRecords ==
  ASSUME IInv, NEW o \in Calls, NEW lost \in BOOLEAN, Unreachable(o, lost)
  PROVE  Recorded
BY RowsTyped DEF Unreachable, Recorded, Forget, InvocationRows, IInv

\* An output of an agent call agrees with what is recorded.
Agrees(t, a, x, out) ==
  LET rows == Existing(t, out.connector, AgentKey(a, x))
  IN /\ out.status = "completed" =>
          rows # {} /\ out.invocation \in {"succeeded"} \cup InFlight
     /\ out.invocation \in Terminal =>
          rows # {} /\ \A i \in rows : invocations[i].status = out.invocation

LEMMA AgreementLasts ==
  ASSUME Recorded, NEW t, NEW a, NEW x, NEW out, Agrees(t, a, x, out)
  PROVE  Agrees(t, a, x, out)'
BY DEF Recorded, Agrees, Existing

LEMMA AgreementUnchanged ==
  ASSUME UNCHANGED invocations, NEW t, NEW a, NEW x, NEW out, Agrees(t, a, x, out)
  PROVE  Agrees(t, a, x, out)'
BY DEF Agrees, Existing

AllAgree ==
  \A o \in Calls : call[o] # NoCall =>
    \A out \in call[o].outputs : Agrees(call[o].tenant, call[o].agent, call[o].input, out)

LEMMA AgreementMeansMatch == AllAgree => OutputsMatchInvocations
<1>1. ASSUME NEW rows, NEW v, rows # {}, \A i \in rows : invocations[i].status = v
      PROVE  {invocations[i].status : i \in rows} = {v}
  BY <1>1
<1> QED
  BY <1>1 DEF AllAgree, OutputsMatchInvocations, Agrees

\* Where no handler learns anything, all agree as long as outcomes are kept.
LEMMA NothingLearnt ==
  ASSUME AllAgree, Recorded \/ UNCHANGED invocations,
         \A o \in Calls : call'[o] # NoCall =>
           \/ call'[o].outputs = {}
           \/ /\ call[o] # NoCall
              /\ call'[o].outputs = call[o].outputs
              /\ call'[o].tenant = call[o].tenant
              /\ call'[o].agent = call[o].agent
              /\ call'[o].input = call[o].input
  PROVE  AllAgree'
<1>1. \A t, a, x, out : Agrees(t, a, x, out) => Agrees(t, a, x, out)'
  BY AgreementLasts, AgreementUnchanged
<1> QED
  BY <1>1 DEF AllAgree

\* Where one learns of an outcome, it is the one on record.
LEMMA OneLearns ==
  ASSUME IInv, AllAgree, Recorded \/ UNCHANGED invocations,
         NEW o \in Calls \cup {Nobody}, NEW code,
         NEW body \in InFlight \cup Terminal \cup {"none"},
         NEW t, NEW c, NEW a, NEW x, NEW out,
         out = [connector |-> c, status |-> reported(code), invocation |-> body],
         o # Nobody => Asks(o, t, c, a, x) /\ Agrees(t, a, x, out)',
         Answered(o, code, body)
  PROVE  AllAgree'
<1>1. CASE o = Nobody
  BY <1>1, NothingLearnt DEF Answered
<1>2. CASE o # Nobody
  <2>1. o \in Calls /\ Asks(o, t, c, a, x) /\ Agrees(t, a, x, out)'
    BY <1>2
  <2>2. call' = [call EXCEPT ![o] = AnswerState(o, code, body)]
    BY <2>1, AnswerMovesOn DEF Asks, IInv
  <2>3. \A q \in Calls : call'[q] = IF q = o THEN AnswerState(o, code, body) ELSE call[q]
    BY <2>2 DEF IInv, TypeOK
  <2>4. /\ AnswerState(o, code, body).outputs = call[o].outputs \cup {out}
        /\ AnswerState(o, code, body).tenant = t
        /\ AnswerState(o, code, body).agent = a
        /\ AnswerState(o, code, body).input = x
        /\ call[o].tenant = t /\ call[o].agent = a /\ call[o].input = x
        /\ call[o] # NoCall
    BY <2>1 DEF AnswerState, Asks, NoCall
  <2>5. \A t1, a1, x1, out1 : Agrees(t1, a1, x1, out1) => Agrees(t1, a1, x1, out1)'
    BY AgreementLasts, AgreementUnchanged
  <2>6. ASSUME NEW q \in Calls, q # o, call'[q] # NoCall, NEW out1 \in call'[q].outputs
        PROVE  Agrees(call[q].tenant, call[q].agent, call[q].input, out1)'
    BY <2>3, <2>5, <2>6 DEF AllAgree
  <2>7. ASSUME NEW out1 \in call'[o].outputs
        PROVE  Agrees(call[o].tenant, call[o].agent, call[o].input, out1)'
    BY <2>1, <2>3, <2>4, <2>5, <2>7 DEF AllAgree
  <2> QED
    BY <2>6, <2>7 DEF AllAgree
<1> QED
  BY <1>1, <1>2

\* An output that says neither completed nor how the invocation ended.
LEMMA SilenceAgrees ==
  ASSUME NEW out, out.status = "failed", out.invocation = "none"
  PROVE  \A t, a, x : Agrees(t, a, x, out)'
BY DEF Agrees, Terminal

\* The answer to a request an invocation was found or finished for.
LEMMA RecordAgrees ==
  ASSUME NEW i \in DOMAIN invocations, NEW status \in InFlight \cup Terminal,
         NEW t, NEW c, NEW a, NEW x, NEW out,
         UniqueKeys,
         invocations[i].tenant = t, invocations[i].connector = c,
         invocations[i].key = AgentKey(a, x), invocations[i].status = status,
         out = [connector |-> c, status |-> reported(http_status_for(status)),
                invocation |-> status]
  PROVE  Agrees(t, a, x, out)
<1>1. Existing(t, c, AgentKey(a, x)) = {i}
  BY DEF Existing, UniqueKeys
<1>2. out.status = "completed" => status \in {"succeeded"} \cup InFlight
  BY DEF reported, http_status_for, InFlight, Terminal
<1> QED
  BY <1>1, <1>2 DEF Agrees

LEMMA FinaliseAgrees ==
  ASSUME IInv, IInv', AllAgree, NEW i \in DOMAIN invocations, NEW outcome \in Terminal,
         Finalise(i, outcome)
  PROVE  AllAgree'
<1>a. PICK inv : inv = invocations[i]
  OBVIOUS
<1>b. PICK out : out = [connector |-> inv.connector,
                        status |-> reported(http_status_for(outcome)),
                        invocation |-> outcome]
  OBVIOUS
<1>1. inv \in InvocationRows /\ invocations \in Seq(InvocationRows)
  BY <1>a, RowsTyped DEF IInv, TypeOK
<1>2. Recorded
  BY WorkRecords DEF Work
<1>3. /\ inv.waiter \in Calls \cup {Nobody}
      /\ Answered(inv.waiter, http_status_for(outcome), outcome)
  BY <1>a, <1>1 DEF Finalise, InvocationRows
<1>4. ASSUME inv.waiter # Nobody
      PROVE  /\ Asks(inv.waiter, inv.tenant, inv.connector, inv.key.agent, inv.key.input)
             /\ inv.key = AgentKey(inv.key.agent, inv.key.input)
  BY <1>a, <1>4 DEF IInv, WaitersAsk, AgentKey
<1>5. /\ i \in DOMAIN invocations'
      /\ invocations'[i].tenant = inv.tenant
      /\ invocations'[i].connector = inv.connector
      /\ invocations'[i].key = inv.key
      /\ invocations'[i].status = outcome
  BY <1>a, <1>1 DEF Finalise, InvocationRows
<1>6. ASSUME inv.waiter # Nobody
      PROVE  Agrees(inv.tenant, inv.key.agent, inv.key.input, out)'
  <2>1. inv.key = AgentKey(inv.key.agent, inv.key.input) /\ UniqueKeys'
    BY <1>4, <1>6 DEF IInv
  <2>2. Existing(inv.tenant, inv.connector, inv.key)' = {i}
    BY <1>5, <2>1 DEF Existing, UniqueKeys
  <2>3. out.status = "completed" => outcome \in {"succeeded"} \cup InFlight
    BY <1>b DEF reported, http_status_for, InFlight, Terminal
  <2> QED
    BY <1>b, <1>5, <2>1, <2>2, <2>3 DEF Agrees
<1> QED
  BY <1>b, <1>2, <1>3, <1>4, <1>6, OneLearns

LEMMA ArriveAgrees ==
  ASSUME IInv, AllAgree, NEW p \in posts, Arrive(p)
  PROVE  AllAgree'
<1>1. /\ p.from \in Calls \cup {Nobody} /\ p.connector \in Connectors
      /\ p.tenant \in Tenants /\ p.agent \in Agents /\ p.input \in Inputs
  BY DEF IInv, TypeOK, Requests
<1>2. p.from # Nobody => Asks(p.from, p.tenant, p.connector, p.agent, p.input)
  BY DEF IInv, PostsAreAsked
<1>3. CASE /\ Verdict(p) # 200
           /\ Answered(p.from, Verdict(p), "none")
           /\ UNCHANGED invocations
  <2>1. PICK code : code = Verdict(p)
    OBVIOUS
  <2>2. code \in {401, 404, 409, 503}
    BY <1>3, <2>1 DEF Verdict, require_internal_caller
  <2>3. PICK out : out = [connector |-> p.connector, status |-> reported(code),
                          invocation |-> "none"]
    OBVIOUS
  <2>4. Agrees(p.tenant, p.agent, p.input, out)'
    <3>1. out.status = "failed" /\ out.invocation = "none"
      BY <2>2, <2>3 DEF reported
    <3> QED
      BY <3>1, SilenceAgrees
  <2> QED
    BY <1>1, <1>2, <1>3, <2>1, <2>3, <2>4, OneLearns
<1>4. CASE /\ \E i \in Existing(p.tenant, p.connector, AgentKey(p.agent, p.input)) :
                Answered(p.from, http_status_for(invocations[i].status), invocations[i].status)
           /\ UNCHANGED invocations
  <2>1. PICK i \in Existing(p.tenant, p.connector, AgentKey(p.agent, p.input)) :
          Answered(p.from, http_status_for(invocations[i].status), invocations[i].status)
    BY <1>4
  <2>2. PICK status : status = invocations[i].status
    OBVIOUS
  <2>3. PICK out : out = [connector |-> p.connector,
                          status |-> reported(http_status_for(status)),
                          invocation |-> status]
    OBVIOUS
  <2>4. /\ i \in DOMAIN invocations
        /\ invocations[i].tenant = p.tenant
        /\ invocations[i].connector = p.connector
        /\ invocations[i].key = AgentKey(p.agent, p.input)
    BY DEF Existing
  <2>5. status \in InFlight \cup Terminal
    BY <2>2, <2>4, RowsTyped DEF IInv, InvocationRows
  <2>6. Agrees(p.tenant, p.agent, p.input, out)
    BY <2>2, <2>3, <2>4, <2>5, RecordAgrees DEF IInv
  <2>7. Agrees(p.tenant, p.agent, p.input, out)'
    BY <1>4, <2>6, AgreementUnchanged
  <2> QED
    BY <1>1, <1>2, <1>4, <2>1, <2>2, <2>3, <2>5, <2>7, OneLearns
<1>5. CASE /\ Existing(p.tenant, p.connector, AgentKey(p.agent, p.input)) = {}
           /\ Accept(p.tenant, p.connector, AgentKey(p.agent, p.input), p.agent, p.from)
           /\ UNCHANGED call
  <2>1. AgentKey(p.agent, p.input) \in IdempotencyKeys
    BY <1>1 DEF AgentKey, IdempotencyKeys
  <2>2. TypeOK
    BY DEF IInv
  <2>3. AddsRow(Len(invocations) + 1, NewRow(p.tenant, p.connector,
                AgentKey(p.agent, p.input), p.agent, p.from))
    BY <1>1, <1>5, <2>1, <2>2, AcceptAddsOne
  <2>4. Recorded
    BY <1>5, <2>3, AcceptRecords
  <2> QED
    BY <1>5, <2>4, NothingLearnt
<1> QED
  BY <1>3, <1>4, <1>5 DEF Arrive

LEMMA ProceedAgrees ==
  ASSUME IInv, AllAgree, NEW o \in Calls, Proceed(o)
  PROVE  AllAgree'
<1>1. CASE Post(o)
  <2>1. /\ call[o] \in CallStates /\ call[o] # NoCall
        /\ call' = [call EXCEPT ![o].step = "waiting"]
        /\ UNCHANGED invocations
    BY <1>1 DEF Post, IInv, TypeOK, NoCall
  <2>2. \A q \in Calls :
          /\ q # o => call'[q] = call[q]
          /\ q = o => /\ call'[q].outputs = call[q].outputs
                      /\ call'[q].tenant = call[q].tenant
                      /\ call'[q].agent = call[q].agent
                      /\ call'[q].input = call[q].input
    BY <2>1 DEF IInv, TypeOK, CallStates
  <2> QED
    BY <2>1, <2>2, NothingLearnt
<1>2. CASE EndInvoke(o)
  BY <1>2, NothingLearnt DEF EndInvoke, IInv, TypeOK
<1>3. CASE \E lost \in BOOLEAN : Unreachable(o, lost)
  <2>1. PICK lost \in BOOLEAN : Unreachable(o, lost)
    BY <1>3
  <2>2. Recorded
    BY <2>1, UnreachableRecords
  <2>3. PICK t, c, a, x :
          /\ t = call[o].tenant /\ c = Head(call[o].todo)
          /\ a = call[o].agent /\ x = call[o].input
    OBVIOUS
  <2>4. Asks(o, t, c, a, x) /\ Answered(o, 503, "none")
    BY <2>1, <2>3 DEF Unreachable, Asks
  <2>5. PICK out : out = [connector |-> c, status |-> reported(503), invocation |-> "none"]
    OBVIOUS
  <2>6. Agrees(t, a, x, out)'
    <3>1. out.status = "failed" /\ out.invocation = "none"
      BY <2>5 DEF reported
    <3> QED
      BY <3>1, SilenceAgrees
  <2> QED
    BY <2>2, <2>4, <2>5, <2>6, OneLearns
<1> QED
  BY <1>1, <1>2, <1>3 DEF Proceed

LEMMA PublicAgrees ==
  ASSUME IInv, AllAgree, NEW caller \in Callers,
         \/ Public(caller)
         \/ \E c \in Connectors, enabled \in BOOLEAN : CreateConnector(caller, c, enabled)
  PROVE  AllAgree'
<1>1. ASSUME NEW c \in Connectors, NEW k \in ClientKeys, InvokeConnector(caller, c, k)
      PROVE  AllAgree'
  <2>1. /\ caller.tenant_id \in Tenants
        /\ caller.actor_id \in Subjects \cup {"anonymous"}
        /\ TypeOK
    BY CallersAreEntitled DEF IInv
  <2>2. /\ Existing(caller.tenant_id, c, ClientKey(k)) = {}
        /\ Accept(caller.tenant_id, c, ClientKey(k), caller.actor_id, Nobody)
        /\ UNCHANGED call
    BY <1>1 DEF InvokeConnector
  <2>3. ClientKey(k) \in IdempotencyKeys
    BY DEF ClientKey, IdempotencyKeys
  <2>4. AddsRow(Len(invocations) + 1,
                NewRow(caller.tenant_id, c, ClientKey(k), caller.actor_id, Nobody))
    BY <2>1, <2>2, <2>3, AcceptAddsOne
  <2>5. Recorded
    BY <2>2, <2>4, AcceptRecords
  <2> QED
    BY <2>2, <2>5, NothingLearnt
<1>2. ASSUME NEW a \in Agents, NEW o \in Calls, NEW x \in Inputs, InvokeAgent(o, caller, a, x)
      PROVE  AllAgree'
  <2>1. /\ \A q \in Calls : q # o => call'[q] = call[q]
        /\ call'[o].outputs = {}
        /\ UNCHANGED invocations
    BY <1>2 DEF InvokeAgent, IInv, TypeOK
  <2> QED
    BY <2>1, NothingLearnt
<1>3. ASSUME UNCHANGED <<call, invocations>>
      PROVE  AllAgree'
  BY <1>3, NothingLearnt
<1> QED
  BY <1>1, <1>2, <1>3 DEF Public, CreateConnector, Administer, CreateAgent

\* An agent's outputs say what became of its invocations, whatever is answered
\* late, repeated or lost.
THEOREM OutputsMatch == Spec => []OutputsMatchInvocations
<1>1. Init => AllAgree
  BY DEF Init, AllAgree
<1>2. IInv /\ IInv' /\ AllAgree /\ [Next]_vars => AllAgree'
  <2> SUFFICES ASSUME IInv, IInv', AllAgree, [Next]_vars PROVE AllAgree'
    OBVIOUS
  <2>1. ASSUME NEW i \in DOMAIN invocations, Work(i)
        PROVE  AllAgree'
    <3>1. CASE Start(i)
      BY <2>1, <3>1, WorkRecords, NothingLearnt DEF Start
    <3> QED
      BY <2>1, <3>1, FinaliseAgrees DEF Work
  <2>2. CASE UNCHANGED vars
    BY <2>2, NothingLearnt DEF vars
  <2> QED
    BY <2>1, <2>2, ArriveAgrees, ProceedAgrees, PublicAgrees DEF Next, Serve, Unauthorized
<1>3. AllAgree => OutputsMatchInvocations
  BY AgreementMeansMatch
<1> QED
  BY <1>1, <1>2, <1>3, AlwaysIInv, PTL DEF Spec

-----------------------------------------------------------------------------
(* The calls of the redaction *)

CallsAlong(path) ==
  CHOOSE g : g = [n \in Nat |-> IF n = 0 THEN Outermost ELSE Descend(g[n - 1], path[n])]

LEMMA CallsFor ==
  ASSUME NEW path
  PROVE  CallFor(path) = CallsAlong(path)[Len(path)]
BY DEF CallFor, CallsAlong

LEMMA CallsRecursive ==
  ASSUME NEW path
  PROVE  /\ CallsAlong(path)[0] = Outermost
         /\ \A n \in Nat : CallsAlong(path)[n + 1] = Descend(CallsAlong(path)[n], path[n + 1])
<1> DEFINE S == [function : {"redact_any", "redact_headers", "none"},
                 key : Keys \cup {NoKey} \cup {path[i].key : i \in Nat},
                 parent_sensitive : BOOLEAN]
           step == [x \in S \X Nat |-> IF x[2] = 0 THEN x[1] ELSE Descend(x[1], path[x[2]])]
<1>1. Outermost \in S
  BY DEF Outermost, Call
<1>2. ASSUME NEW c \in S, NEW i \in Nat
      PROVE  Descend(c, path[i]) \in S
  <2>1. Sensitive(c) \in BOOLEAN /\ path[i].key \in {path[j].key : j \in Nat}
    BY DEF Sensitive
  <2> QED
    BY <2>1 DEF Descend, Call
<1>3. step \in [S \X Nat -> S]
  <2> HIDE DEF S
  <2> QED
    BY <1>2
<1>4. \A c \in S, i \in Nat \ {0} : step[<<c, i>>] = Descend(c, path[i])
  <2> HIDE DEF S
  <2> QED
    OBVIOUS
<1> HIDE DEF S, step
<1>5. PICK f \in [Nat -> S] : Iterates(f, Outermost, step)
  BY <1>1, <1>3, TypedRecursionOnNat
<1>6. ASSUME NEW n \in Nat
      PROVE  f[n] = IF n = 0 THEN Outermost ELSE Descend(f[n - 1], path[n])
  <2>1. CASE n = 0
    BY <1>5, <2>1 DEF Iterates
  <2>2. CASE n # 0
    <3>1. n - 1 \in Nat /\ (n - 1) + 1 = n /\ n \in Nat \ {0}
      BY <2>2
    <3>2. f[n] = step[<<f[n - 1], n>>] /\ f[n - 1] \in S
      BY <1>5, <3>1 DEF Iterates
    <3> QED
      BY <1>4, <2>2, <3>1, <3>2
  <2> QED
    BY <2>1, <2>2
<1>7. f = [n \in Nat |-> IF n = 0 THEN Outermost ELSE Descend(f[n - 1], path[n])]
  BY <1>6
<1>8. CallsAlong(path) = [n \in Nat |-> IF n = 0 THEN Outermost
                                    ELSE Descend(CallsAlong(path)[n - 1], path[n])]
  BY <1>7, Zenon DEF CallsAlong
<1>9. ASSUME NEW n \in Nat
      PROVE  CallsAlong(path)[n + 1] = Descend(CallsAlong(path)[n], path[n + 1])
  <2>1. n + 1 \in Nat /\ n + 1 # 0 /\ (n + 1) - 1 = n
    OBVIOUS
  <2> QED
    BY <1>8, <2>1
<1> QED
  BY <1>8, <1>9

\* The call for a node is one step below that for the dict or list it is in.
LEMMA ParentPath ==
  ASSUME NEW path \in Seq(Steps), path # <<>>
  PROVE  /\ Parent(path) \in Seq(Steps)
         /\ Len(path) \in Nat \ {0}
         /\ Len(Parent(path)) = Len(path) - 1
         /\ \A i \in 1..(Len(path) - 1) : Parent(path)[i] = path[i]
         /\ path[Len(path)] \in Steps
<1>1. /\ Len(path) \in Nat \ {0} /\ 1 \in 1..(Len(path) + 1)
      /\ Len(path) - 1 \in 0..Len(path) /\ path[Len(path)] \in Steps
      /\ \A i \in 1..(Len(path) - 1) : i \in 1..Len(path)
  OBVIOUS
<1>2. \A i \in 1..(Len(path) - 1) : path[i] \in Steps
  BY <1>1
<1> DEFINE n == Len(path) - 1
<1>3. n \in Int /\ 1 \in Int /\ n - 1 + 1 = n /\ (IF 1 <= n THEN n - 1 + 1 ELSE 0) = n
  <2>1. n \in Nat
    BY <1>1
  <2> HIDE DEF n
  <2> QED
    BY <2>1
<1>4. /\ SubSeq(path, 1, n) \in Seq(Steps)
      /\ Len(SubSeq(path, 1, n)) = IF 1 <= n THEN n - 1 + 1 ELSE 0
      /\ \A i \in 1..(n - 1 + 1) : SubSeq(path, 1, n)[i] = path[1 + i - 1]
  <2> HIDE DEF n
  <2> QED
    BY <1>2, <1>3, SubSeqProperties DEF n
<1>5. \A i \in 1..n : 1 + i - 1 = i
  BY <1>3
<1> QED
  BY <1>1, <1>3, <1>4, <1>5 DEF Parent

LEMMA CallForChild ==
  /\ CallFor(<<>>) = Outermost
  /\ \A path \in Seq(Steps) : path # <<>> =>
       CallFor(path) = Descend(CallFor(Parent(path)), path[Len(path)])
<1>1. CallFor(<<>>) = Outermost
  BY CallsFor, CallsRecursive
<1>2. ASSUME NEW path \in Seq(Steps), path # <<>>
      PROVE  CallFor(path) = Descend(CallFor(Parent(path)), path[Len(path)])
  <2> DEFINE p == Parent(path)
             T == {n \in Nat : n < Len(path) => CallsAlong(path)[n] = CallsAlong(p)[n]}
  <2>0. /\ p \in Seq(Steps) /\ Len(path) \in Nat /\ Len(path) # 0 /\ Len(p) = Len(path) - 1
        /\ \A i \in 1..(Len(path) - 1) : p[i] = path[i]
    BY <1>2, ParentPath
  <2>1. 0 \in T
    BY CallsRecursive
  <2>2. ASSUME NEW n \in T
        PROVE  n + 1 \in T
    <3>1. CASE n + 1 < Len(path)
      <4>1. n \in Nat /\ n < Len(path) /\ n + 1 \in 1..(Len(path) - 1)
        BY <2>0, <3>1
      <4>2. CallsAlong(path)[n] = CallsAlong(p)[n] /\ p[n + 1] = path[n + 1]
        BY <2>0, <4>1
      <4>3. CallsAlong(path)[n + 1] = CallsAlong(p)[n + 1]
        <5> HIDE DEF p, T
        <5> QED
          BY <4>1, <4>2, CallsRecursive
      <4> QED
        BY <4>3
    <3>2. CASE ~(n + 1 < Len(path))
      BY <3>2
    <3> QED
      BY <3>1, <3>2
  <2>3. T \in SUBSET Nat
    OBVIOUS
  <2> HIDE DEF T, p
  <2>4. T = Nat
    BY <2>1, <2>2, <2>3, NatSetInduction
  <2>5. Len(p) \in Nat /\ Len(p) < Len(path) /\ Len(p) + 1 = Len(path)
    BY <2>0
  <2>6. CallsAlong(path)[Len(p)] = CallsAlong(p)[Len(p)]
    BY <2>4, <2>5 DEF T
  <2>7. CallsAlong(path)[Len(p) + 1] = Descend(CallsAlong(path)[Len(p)], path[Len(p) + 1])
    BY <2>5, CallsRecursive
  <2> QED
    BY <2>5, <2>6, <2>7, CallsFor DEF p
<1> QED
  BY <1>1, <1>2

-----------------------------------------------------------------------------
(* What a call knows of the path to its node *)

InDictLast(path) == "key" \in DOMAIN path[Len(path)]

LEMMA StepKinds ==
  /\ \A s \in Steps : "key" \in DOMAIN s => s.key \in Keys
  /\ \A k \in Keys : InDict(k) \in Steps /\ "key" \in DOMAIN InDict(k) /\ InDict(k).key = k
BY DEF Steps, InDict

\* A path adds the key of its last step, if that leads into a dict, to what is
\* true of its parent.
LEMMA PathGrows ==
  ASSUME NEW path \in Seq(Steps), path # <<>>
  PROVE  /\ KeyPositions(path) =
              KeyPositions(Parent(path)) \cup (IF InDictLast(path) THEN {Len(path)} ELSE {})
         /\ KeysOn(path) =
              KeysOn(Parent(path)) \cup (IF InDictLast(path) THEN {path[Len(path)].key} ELSE {})
         /\ \A n \in 1..(Len(path) - 1) : HeaderValueAt(path, n) <=> HeaderValueAt(Parent(path), n)
         /\ KeyPositions(Parent(path)) \subseteq 1..(Len(path) - 1)
<1> DEFINE p == Parent(path)
           m == Len(path) - 1
<1>1. /\ p \in Seq(Steps) /\ Len(path) = m + 1 /\ m \in Nat /\ Len(p) = m
      /\ \A i \in 1..m : p[i] = path[i]
  BY ParentPath
<1>2. DOMAIN path = 1..(m + 1) /\ DOMAIN p = 1..m
  BY <1>1
<1> HIDE DEF p, m
<1>3. KeyPositions(p) \subseteq 1..m
  BY <1>2 DEF KeyPositions
<1>4. \A i \in 1..m : i \in KeyPositions(path) <=> i \in KeyPositions(p)
  BY <1>1, <1>2 DEF KeyPositions
<1>5. KeyPositions(path) = KeyPositions(p) \cup (IF InDictLast(path) THEN {Len(path)} ELSE {})
  BY <1>1, <1>2, <1>3, <1>4 DEF KeyPositions, InDictLast
<1>6. KeysOn(path) = KeysOn(p) \cup (IF InDictLast(path) THEN {path[Len(path)].key} ELSE {})
  <2>1. \A i \in KeyPositions(p) : path[i] = p[i]
    BY <1>1, <1>3
  <2> QED
    BY <1>5, <2>1, Zenon DEF KeysOn
<1>7. ASSUME NEW n \in 1..m
      PROVE  HeaderValueAt(path, n) <=> HeaderValueAt(p, n)
  <2>1. KeyPositions(path) \subseteq 1..(m + 1)
    BY <1>2 DEF KeyPositions
  <2>2. ASSUME NEW i \in KeyPositions(path), i < n
        PROVE  i \in KeyPositions(p) /\ path[i] = p[i]
    <3>1. i \in 1..m
      BY <1>1, <2>1, <2>2
    <3> QED
      BY <1>1, <1>4, <3>1
  <2>3. ASSUME NEW i \in KeyPositions(p)
        PROVE  i \in KeyPositions(path) /\ path[i] = p[i]
    BY <1>1, <1>3, <1>4
  <2>4. ASSUME NEW i \in Nat \ {0}
        PROVE  \A j \in (i + 1)..(n - 1) : j \in KeyPositions(path) <=> j \in KeyPositions(p)
    <3>1. \A j \in (i + 1)..(n - 1) : j \in 1..m
      BY <1>1, <2>4
    <3> QED
      BY <1>4, <3>1
  <2>5. KeyPositions(path) \subseteq Nat \ {0} /\ KeyPositions(p) \subseteq Nat \ {0}
    BY <1>1, <2>1, <1>3
  <2>6. ASSUME HeaderValueAt(path, n)
        PROVE  HeaderValueAt(p, n)
    <3>1. PICK i \in KeyPositions(path) :
               /\ i < n /\ path[i].key = HeadersKey
               /\ \A j \in (i + 1)..(n - 1) : j \notin KeyPositions(path)
      BY <2>6 DEF HeaderValueAt
    <3>2. i \in KeyPositions(p) /\ path[i] = p[i] /\ i \in Nat \ {0}
      BY <2>2, <2>5, <3>1
    <3>3. n \in KeyPositions(p)
      BY <1>4, <2>6 DEF HeaderValueAt
    <3> QED
      BY <2>4, <3>1, <3>2, <3>3 DEF HeaderValueAt
  <2>7. ASSUME HeaderValueAt(p, n)
        PROVE  HeaderValueAt(path, n)
    <3>1. PICK i \in KeyPositions(p) :
               /\ i < n /\ p[i].key = HeadersKey
               /\ \A j \in (i + 1)..(n - 1) : j \notin KeyPositions(p)
      BY <2>7 DEF HeaderValueAt
    <3>2. i \in KeyPositions(path) /\ path[i] = p[i] /\ i \in Nat \ {0}
      BY <2>3, <2>5, <3>1
    <3>3. n \in KeyPositions(path)
      BY <1>4, <2>7 DEF HeaderValueAt
    <3> QED
      BY <2>4, <3>1, <3>2, <3>3 DEF HeaderValueAt
  <2> QED
    BY <2>6, <2>7
<1> QED
  BY <1>3, <1>5, <1>6, <1>7 DEF p, m

\* The innermost key is that of the greatest position with a key.
LEMMA InnermostIs ==
  ASSUME NEW path, KeyPositions(path) \subseteq Nat,
         NEW i \in KeyPositions(path), \A j \in KeyPositions(path) : j <= i
  PROVE  Innermost(path) = path[i].key
<1> DEFINE last == CHOOSE m \in KeyPositions(path) : \A j \in KeyPositions(path) : j <= m
<1>1. last \in KeyPositions(path) /\ \A j \in KeyPositions(path) : j <= last
  OBVIOUS
<1>2. last = i
  <2> HIDE DEF last
  <2>1. last <= i /\ i <= last /\ last \in Nat /\ i \in Nat
    BY <1>1
  <2> QED
    BY <2>1
<1> QED
  BY <1>2 DEF Innermost

\* k is the innermost key of a path, or there is none on it.
LastKey(path, k) ==
  \/ KeyPositions(path) = {} /\ k = NoKey
  \/ \E i \in KeyPositions(path) :
       (\A j \in KeyPositions(path) : j <= i) /\ path[i].key = k

LEMMA LastKeyGrows ==
  ASSUME NEW path \in Seq(Steps), path # <<>>, NEW k, LastKey(Parent(path), k)
  PROVE  /\ ~InDictLast(path) => LastKey(path, k)
         /\ InDictLast(path) => LastKey(path, path[Len(path)].key)
         /\ HeaderValueAt(path, Len(path)) <=> InDictLast(path) /\ k = HeadersKey
<1> DEFINE p == Parent(path)
           m == Len(path) - 1
<1>1. /\ Len(path) = m + 1 /\ m \in Nat
      /\ \A i \in 1..m : p[i] = path[i]
  BY ParentPath
<1>2. /\ KeyPositions(path) = KeyPositions(p) \cup (IF InDictLast(path) THEN {Len(path)} ELSE {})
      /\ KeyPositions(p) \subseteq 1..m
  BY PathGrows
<1>3. LastKey(p, k)
  OBVIOUS
<1> HIDE DEF p, m
<1>4. \A i \in KeyPositions(p) : i \in Nat /\ i <= m /\ path[i] = p[i] /\ i \in KeyPositions(path)
  BY <1>1, <1>2
<1>5. ASSUME ~InDictLast(path)
      PROVE  LastKey(path, k)
  <2>1. KeyPositions(path) = KeyPositions(p)
    BY <1>2, <1>5
  <2> QED
    BY <1>3, <1>4, <2>1 DEF LastKey
<1>6. ASSUME InDictLast(path)
      PROVE  LastKey(path, path[Len(path)].key)
  <2>1. m + 1 \in KeyPositions(path) /\ \A j \in KeyPositions(path) : j <= m + 1
    BY <1>1, <1>2, <1>4, <1>6
  <2> QED
    BY <1>1, <2>1 DEF LastKey
<1>7. ASSUME HeaderValueAt(path, Len(path))
      PROVE  InDictLast(path) /\ k = HeadersKey
  <2>1. m + 1 \in KeyPositions(path)
    BY <1>1, <1>7 DEF HeaderValueAt
  <2>2. m + 1 \notin KeyPositions(p)
    BY <1>1, <1>4
  <2>3. InDictLast(path)
    BY <1>2, <2>1, <2>2
  <2>4. PICK n \in KeyPositions(path) :
             /\ n < m + 1 /\ path[n].key = HeadersKey
             /\ \A j \in (n + 1)..((m + 1) - 1) : j \notin KeyPositions(path)
    BY <1>1, <1>7 DEF HeaderValueAt
  <2>5. n # m + 1
    BY <1>1, <1>2, <1>4, <2>4
  <2>6. n \in KeyPositions(p) /\ n \in Nat
    BY <1>1, <1>2, <1>4, <2>5
  <2>7. PICK i \in KeyPositions(p) : (\A j \in KeyPositions(p) : j <= i) /\ p[i].key = k
    BY <1>3, <2>6 DEF LastKey
  <2>8. i \in Nat /\ n <= i /\ i <= m /\ i \in KeyPositions(path) /\ path[i] = p[i]
    BY <1>4, <2>6, <2>7
  <2>9. ~(n + 1 <= i)
    BY <1>1, <2>4, <2>6, <2>8
  <2>10. n = i
    BY <2>6, <2>8, <2>9
  <2> QED
    BY <2>3, <2>4, <2>7, <2>8, <2>10
<1>8. ASSUME InDictLast(path), k = HeadersKey
      PROVE  HeaderValueAt(path, Len(path))
  <2>1. PICK i \in KeyPositions(p) : (\A j \in KeyPositions(p) : j <= i) /\ p[i].key = HeadersKey
    BY <1>3, <1>8, KeyAssumption DEF LastKey
  <2>2. /\ i \in Nat /\ i < m + 1 /\ i \in KeyPositions(path) /\ path[i].key = HeadersKey
        /\ m + 1 \in KeyPositions(path)
    BY <1>1, <1>2, <1>4, <1>8, <2>1
  <2>3. ASSUME NEW j \in (i + 1)..((m + 1) - 1)
        PROVE  j \notin KeyPositions(path)
    <3>1. ~(j <= i) /\ j # m + 1
      BY <1>1, <2>2
    <3> QED
      BY <1>1, <1>2, <2>1, <3>1
  <2> QED
    BY <1>1, <2>2, <2>3 DEF HeaderValueAt
<1> QED
  BY <1>5, <1>6, <1>7, <1>8

\* The call for a node knows whether a key on the path sounds like a
\* credential and what the innermost key is, and is one of _redact_any as
\* long as no header is on the path.
Informed(path) ==
  LET made == CallFor(path) IN
  /\ made.function \in {"redact_any", "redact_headers", "none"}
  /\ made.function # "none" =>
       /\ Sensitive(made) <=> KeysOn(path) \cap SensitiveKeys # {}
       /\ LastKey(path, made.key)
  /\ made.function = "redact_any" <=> ~IsHeaderValue(path)
  /\ made.function = "redact_headers" =>
       \A n \in DOMAIN path : HeaderValueAt(path, n) => n = Len(path)
  /\ made.function = "none" => \E n \in DOMAIN path : HeaderValueAt(path, n) /\ n # Len(path)

LEMMA OutermostInformed == Informed(<<>>)
<1>1. CallFor(<<>>) = Outermost
  BY CallForChild
<1>2. DOMAIN <<>> = {} /\ KeyPositions(<<>>) = {} /\ KeysOn(<<>>) = {}
  BY DEF KeyPositions, KeysOn
<1>3. ~IsHeaderValue(<<>>)
  BY <1>2 DEF IsHeaderValue
<1>4. ~Sensitive(Outermost) /\ Outermost.function = "redact_any" /\ Outermost.key = NoKey
  BY KeyAssumption DEF Sensitive, Outermost, Call
<1> QED
  BY <1>1, <1>2, <1>3, <1>4 DEF Informed, LastKey

LEMMA ChildInformed ==
  ASSUME NEW path \in Seq(Steps), path # <<>>, Informed(Parent(path))
  PROVE  Informed(path)
<1> DEFINE p == Parent(path)
           m == Len(path) - 1
           above == CallFor(p)
           made == CallFor(path)
           step == path[Len(path)]
<1>1. /\ p \in Seq(Steps) /\ Len(path) = m + 1 /\ m \in Nat /\ Len(p) = m /\ step \in Steps
  BY ParentPath
<1>2. DOMAIN path = 1..(m + 1) /\ DOMAIN p = 1..m
  BY <1>1
<1>3. made = Descend(above, step)
  BY CallForChild
<1>4. /\ KeysOn(path) = KeysOn(p) \cup (IF InDictLast(path) THEN {step.key} ELSE {})
      /\ \A n \in 1..m : HeaderValueAt(path, n) <=> HeaderValueAt(p, n)
  BY PathGrows
<1>5. InDictLast(path) <=> "key" \in DOMAIN step
  BY DEF InDictLast
<1>6. Informed(p)
  OBVIOUS
<1>7. above.function # "none" =>
        /\ ~InDictLast(path) => LastKey(path, above.key)
        /\ InDictLast(path) => LastKey(path, step.key)
        /\ HeaderValueAt(path, m + 1) <=> InDictLast(path) /\ above.key = HeadersKey
  BY <1>1, LastKeyGrows DEF Informed
<1> HIDE DEF p, m, above, made, step
<1>8. CASE above.function # "redact_any"
  <2>1. IsHeaderValue(p)
    BY <1>6, <1>8 DEF Informed, above
  <2>2. PICK n \in 1..m : HeaderValueAt(p, n)
    BY <1>2, <2>1 DEF IsHeaderValue
  <2>3. HeaderValueAt(path, n) /\ n \in DOMAIN path /\ n # m + 1
    BY <1>1, <1>2, <1>4, <2>2
  <2>4. made.function = "none"
    BY <1>3, <1>8 DEF Descend, Call
  <2> QED
    BY <1>1, <2>3, <2>4 DEF Informed, IsHeaderValue, made
<1>9. CASE above.function = "redact_any"
  <2>1. \A n \in 1..m : ~HeaderValueAt(path, n)
    BY <1>2, <1>4, <1>6, <1>9 DEF Informed, IsHeaderValue, above
  <2>2. Sensitive(above) <=> KeysOn(p) \cap SensitiveKeys # {}
    BY <1>6, <1>9 DEF Informed, above
  <2>3. \A n \in DOMAIN path : HeaderValueAt(path, n) => n = m + 1
    BY <1>1, <1>2, <2>1
  <2>4. m + 1 \in DOMAIN path
    BY <1>1, <1>2
  <2>5. CASE InDictLast(path)
    <3>1. /\ made.function = IF above.key = HeadersKey THEN "redact_headers" ELSE "redact_any"
          /\ made.key = step.key /\ made.parent_sensitive = Sensitive(above)
      BY <1>3, <1>5, <1>9, <2>5 DEF Descend, Call
    <3>2. Sensitive(made) <=> KeysOn(path) \cap SensitiveKeys # {}
      BY <1>4, <2>2, <2>5, <3>1 DEF Sensitive
    <3>3. LastKey(path, made.key)
      BY <1>7, <1>9, <2>5, <3>1
    <3>4. HeaderValueAt(path, m + 1) <=> above.key = HeadersKey
      BY <1>7, <1>9, <2>5
    <3> QED
      BY <1>1, <2>3, <2>4, <3>1, <3>2, <3>3, <3>4 DEF Informed, IsHeaderValue, made
  <2>6. CASE ~InDictLast(path)
    <3>1. /\ made.function = "redact_any"
          /\ made.key = above.key /\ made.parent_sensitive = Sensitive(above)
      BY <1>3, <1>5, <1>9, <2>6 DEF Descend, Call
    <3>2. Sensitive(made) <=> KeysOn(path) \cap SensitiveKeys # {}
      BY <1>4, <2>2, <2>6, <3>1 DEF Sensitive
    <3>3. LastKey(path, made.key)
      BY <1>7, <1>9, <2>6, <3>1
    <3>4. ~HeaderValueAt(path, m + 1)
      BY <1>7, <1>9, <2>6
    <3> QED
      BY <1>1, <2>3, <2>4, <3>1, <3>2, <3>3, <3>4 DEF Informed, IsHeaderValue, made
  <2> QED
    BY <2>5, <2>6
<1> QED
  BY <1>8, <1>9

LEMMA AllInformed == \A path \in Seq(Steps) : Informed(path)
<1> DEFINE T == {n \in Nat : \A path \in Seq(Steps) : Len(path) = n => Informed(path)}
<1>1. 0 \in T
  <2>1. \A path \in Seq(Steps) : Len(path) = 0 => path = <<>>
    OBVIOUS
  <2> QED
    BY <2>1, OutermostInformed
<1>2. ASSUME NEW n \in T
      PROVE  n + 1 \in T
  <2>1. ASSUME NEW path \in Seq(Steps), Len(path) = n + 1
        PROVE  Informed(path)
    <3>1. path # <<>>
      BY <2>1
    <3>2. Parent(path) \in Seq(Steps) /\ Len(Parent(path)) = n
      BY <2>1, <3>1, ParentPath
    <3> QED
      BY <3>1, <3>2, ChildInformed
  <2> QED
    BY <2>1
<1>3. T \in SUBSET Nat
  OBVIOUS
<1> HIDE DEF T
<1>4. T = Nat
  BY <1>1, <1>2, <1>3, NatSetInduction
<1>5. \A path \in Seq(Steps) : Len(path) \in Nat
  OBVIOUS
<1> QED
  BY <1>4, <1>5 DEF T

-----------------------------------------------------------------------------
(* What a redacted configuration shows *)

\* A value is replaced or left; a literal is left only where it may be seen.
LEMMA RedactedValue ==
  ASSUME NEW path \in Seq(Steps), NEW value \in Containers \cup Leafs,
         CallFor(path).function # "none"
  PROVE  LET result == redact_any(CallFor(path), value) IN
         /\ result \in {REDACTED, value}
         /\ value \in Containers /\ result # REDACTED => CallFor(path).function = "redact_any"
         /\ result = "literal" => ~MustHide(path)
<1> DEFINE made == CallFor(path)
           result == redact_any(made, value)
<1>1. Informed(path)
  BY AllInformed
<1>2. made.function \in {"redact_any", "redact_headers"}
  BY <1>1 DEF Informed
<1>3. CASE made.function = "redact_headers"
  <2>1. result = IF value = "reference" THEN value ELSE REDACTED
    BY <1>3 DEF redact_any, redact_headers
  <2> QED
    BY <1>3, <2>1 DEF REDACTED, Containers
<1>4. CASE made.function = "redact_any"
  <2>1. result = IF value \in Containers THEN value
                 ELSE redact_value(made.key, value, Sensitive(made))
    BY <1>4 DEF redact_any
  <2>2. result \in {REDACTED, value}
    BY <2>1 DEF redact_value
  <2>3. ASSUME result = "literal"
        PROVE  ~MustHide(path)
    <3>1. ~Sensitive(made) /\ made.key \in STRUCTURAL_KEYS
      BY <2>1, <2>3 DEF redact_value, REDACTED, Containers
    <3>2. ~IsHeaderValue(path) /\ KeysOn(path) \cap SensitiveKeys = {} /\ LastKey(path, made.key)
      BY <1>1, <1>4, <3>1 DEF Informed
    <3>3. made.key # NoKey
      BY <3>1, KeyAssumption
    <3>4. PICK i \in KeyPositions(path) :
               (\A j \in KeyPositions(path) : j <= i) /\ path[i].key = made.key
      BY <3>2, <3>3 DEF LastKey
    <3>5. KeyPositions(path) \subseteq Nat
      BY DEF KeyPositions
    <3>6. Innermost(path) = made.key
      BY <3>4, <3>5, InnermostIs
    <3> QED
      BY <3>1, <3>2, <3>6 DEF MustHide
  <2> QED
    BY <1>4, <2>2, <2>3
<1> QED
  BY <1>2, <1>3, <1>4

LEMMA RedactedConfig ==
  ASSUME NEW config
  PROVE  /\ DOMAIN redact_config(config) = {p \in DOMAIN config : CallFor(p).function # "none"}
         /\ \A p \in DOMAIN redact_config(config) :
              redact_config(config)[p] = redact_any(CallFor(p), config[p])
BY DEF redact_config

\* No step below _redact_any is left out.
LEMMA AnyReachesChildren ==
  ASSUME NEW p \in Seq(Steps), NEW q \in Seq(Steps), ChildOf(p, q),
         CallFor(p).function = "redact_any"
  PROVE  CallFor(q).function # "none"
<1>1. CallFor(q) = Descend(CallFor(p), q[Len(q)])
  BY CallForChild DEF ChildOf
<1> QED
  BY <1>1 DEF Descend, Call

\* What is shown is not a literal that must be hidden, and is nothing new.
LEMMA NothingLeaks ==
  ASSUME NEW config, IsConfig(config), NEW l \in Leaves(redact_config(config))
  PROVE  /\ l[2] = "literal" => ~MustHide(l[1])
         /\ l[2] = REDACTED \/ l \in Leaves(config)
<1> DEFINE shown == redact_config(config)
<1>1. /\ DOMAIN shown = {p \in DOMAIN config : CallFor(p).function # "none"}
      /\ \A p \in DOMAIN shown : shown[p] = redact_any(CallFor(p), config[p])
  BY RedactedConfig
<1> HIDE DEF shown
<1>2. PICK p \in DOMAIN shown : l = <<p, shown[p]>> /\ \A r \in DOMAIN shown : ~ChildOf(p, r)
  BY DEF Leaves, shown
<1>3. p \in Seq(Steps) /\ config[p] \in Containers \cup Leafs /\ p \in DOMAIN config
  BY <1>1 DEF IsConfig
<1>4. /\ shown[p] \in {REDACTED, config[p]}
      /\ config[p] \in Containers /\ shown[p] # REDACTED => CallFor(p).function = "redact_any"
      /\ shown[p] = "literal" => ~MustHide(p)
  BY <1>1, <1>3, RedactedValue
<1>5. ASSUME shown[p] # REDACTED
      PROVE  <<p, config[p]>> \in Leaves(config)
  <2>1. ASSUME NEW q \in DOMAIN config, ChildOf(p, q)
        PROVE  FALSE
    <3>1. config[p] \in Containers /\ q \in Seq(Steps)
      BY <2>1 DEF IsConfig, ChildOf, Containers
    <3>2. CallFor(p).function = "redact_any"
      BY <1>4, <1>5, <3>1
    <3>3. q \in DOMAIN shown
      BY <1>1, <1>3, <2>1, <3>1, <3>2, AnyReachesChildren
    <3> QED
      BY <1>2, <2>1, <3>3
  <2> QED
    BY <1>3, <2>1 DEF Leaves
<1> QED
  BY <1>2, <1>4, <1>5

\* The outermost value is a dict, so every other path begins with a key.
LEMMA PathsBeginWithAKey ==
  ASSUME NEW config, IsConfig(config), NEW path \in DOMAIN config, path # <<>>
  PROVE  1 \in KeyPositions(path)
<1> DEFINE T == {n \in Nat : \A p \in DOMAIN config : Len(p) = n + 1 => 1 \in KeyPositions(p)}
<1>1. \A p \in DOMAIN config : p \in Seq(Steps)
  BY DEF IsConfig
<1>2. 0 \in T
  <2>1. ASSUME NEW p \in DOMAIN config, Len(p) = 0 + 1
        PROVE  1 \in KeyPositions(p)
    <3>1. p \in Seq(Steps) /\ p # <<>> /\ Len(p) = 1
      <4>1. p \in Seq(Steps) /\ Len(p) = 1
        BY <1>1, <2>1
      <4> QED
        BY <4>1
    <3>2. Parent(p) \in Seq(Steps) /\ Len(Parent(p)) = 0
      BY <3>1, ParentPath
    <3>3. Parent(p) = <<>>
      BY <3>2
    <3>4. "key" \in DOMAIN p[Len(p)]
      BY <3>1, <3>3 DEF IsConfig
    <3> QED
      BY <3>1, <3>4 DEF KeyPositions
  <2> QED
    BY <2>1
<1>3. ASSUME NEW n \in T
      PROVE  n + 1 \in T
  <2>1. ASSUME NEW p \in DOMAIN config, Len(p) = (n + 1) + 1
        PROVE  1 \in KeyPositions(p)
    <3>1. p \in Seq(Steps) /\ p # <<>>
      <4>1. p \in Seq(Steps) /\ Len(p) # 0
        BY <1>1, <2>1
      <4> QED
        BY <4>1
    <3>2. Parent(p) \in DOMAIN config
      BY <3>1 DEF IsConfig
    <3>3. Len(Parent(p)) = n + 1
      BY <2>1, <3>1, ParentPath
    <3>4. 1 \in KeyPositions(Parent(p))
      BY <3>2, <3>3
    <3> QED
      BY <3>1, <3>4, PathGrows
  <2> QED
    BY <2>1
<1>4. T \in SUBSET Nat
  OBVIOUS
<1>5. path \in Seq(Steps)
  BY <1>1
<1>6. Len(path) - 1 \in Nat /\ (Len(path) - 1) + 1 = Len(path)
  BY <1>5
<1> HIDE DEF T
<1>7. T = Nat
  BY <1>2, <1>3, <1>4, NatSetInduction
<1> QED
  BY <1>6, <1>7 DEF T

\* What may be shown is.
LEMMA NothingHidden ==
  ASSUME NEW config, IsConfig(config), NEW l \in Leaves(config), MayShow(l[1], l[2])
  PROVE  l \in Leaves(redact_config(config))
<1> DEFINE shown == redact_config(config)
<1>1. /\ DOMAIN shown = {q \in DOMAIN config : CallFor(q).function # "none"}
      /\ \A q \in DOMAIN shown : shown[q] = redact_any(CallFor(q), config[q])
  BY RedactedConfig
<1> HIDE DEF shown
<1>2. PICK p \in DOMAIN config :
           l = <<p, config[p]>> /\ \A r \in DOMAIN config : ~ChildOf(p, r)
  BY DEF Leaves
<1> DEFINE v == config[p]
           made == CallFor(p)
<1>3. p \in Seq(Steps) /\ v \in Containers \cup Leafs /\ l[1] = p /\ l[2] = v
  BY <1>2 DEF IsConfig
<1>4. Informed(p)
  BY <1>3, AllInformed
<1>5. MayShow(p, v)
  BY <1>3
<1>6. made.function # "none" /\ redact_any(made, v) = v
  <2>1. CASE v = "reference" /\ \A n \in DOMAIN p : HeaderValueAt(p, n) => n = Len(p)
    <3>1. made.function \in {"redact_any", "redact_headers"}
      BY <1>4, <2>1 DEF Informed
    <3> QED
      BY <2>1, <3>1 DEF redact_any, redact_headers, redact_value, Containers
  <2>2. CASE /\ v \notin {"reference", "literal"} /\ ~IsHeaderValue(p)
             /\ KeysOn(p) \cap SensitiveKeys = {}
    <3>1. made.function = "redact_any" /\ ~Sensitive(made)
      BY <1>4, <2>2 DEF Informed
    <3> QED
      BY <2>2, <3>1 DEF redact_any, redact_value, Sensitive
  <2>3. CASE v = "literal" /\ ~MustHide(p)
    <3>1. made.function = "redact_any" /\ ~Sensitive(made) /\ LastKey(p, made.key)
      BY <1>4, <2>3 DEF Informed, MustHide
    <3>2. p # <<>>
      BY <2>3 DEF IsConfig
    <3>3. 1 \in KeyPositions(p)
      BY <3>2, PathsBeginWithAKey
    <3>4. PICK i \in KeyPositions(p) :
               (\A j \in KeyPositions(p) : j <= i) /\ p[i].key = made.key
      BY <3>1, <3>3 DEF LastKey
    <3>5. KeyPositions(p) \subseteq Nat
      BY <1>3 DEF KeyPositions
    <3>6. made.key \in STRUCTURAL_KEYS
      BY <2>3, <3>4, <3>5, InnermostIs DEF MustHide
    <3> QED
      BY <2>3, <3>1, <3>6 DEF redact_any, redact_value, Sensitive, Containers
  <2> QED
    BY <1>5, <2>1, <2>2, <2>3 DEF MayShow
<1>7. p \in DOMAIN shown /\ shown[p] = v /\ \A r \in DOMAIN shown : ~ChildOf(p, r)
  BY <1>1, <1>2, <1>6
<1> QED
  BY <1>2, <1>7 DEF Leaves, shown

-----------------------------------------------------------------------------
(* RegistryApi adds nothing to what Tenancy allows *)

LEMMA CreateIsTenancy ==
  ASSUME NEW caller \in Callers, NEW c \in Connectors, NEW enabled \in BOOLEAN,
         CreateConnector(caller, c, enabled)
  PROVE  Next
BY DEF Next

LEMMA StepIsTenancy == [ApiNext]_apiVars => [Next]_vars
<1> SUFFICES ASSUME [ApiNext]_apiVars PROVE [Next]_vars
  OBVIOUS
<1>1. CASE Registration
  <2>1. PICK caller \in Callers, c \in Connectors :
          \/ \E enabled \in BOOLEAN : Register(caller, c, PlainConfig, PlainConfig, enabled)
          \/ \E config \in Configs :
               \/ Register(caller, c, config, config, FALSE)
               \/ Register(caller, c, config, with_base_url(config), FALSE)
               \/ Inherit(caller, c, config)
    BY <1>1 DEF Registration
  <2>2. \E enabled \in BOOLEAN : CreateConnector(caller, c, enabled)
    BY <2>1 DEF Register, Inherit
  <2> QED
    BY <2>2, CreateIsTenancy
<1>2. CASE UNCHANGED vars
  BY <1>2
<1>3. CASE Serve
  BY <1>3 DEF Next
<1> QED
  BY <1>1, <1>2, <1>3 DEF ApiNext, apiVars, Rejection, RejectConfig, Reading,
     StartScroll, NextPage

\* The whole of the registry's surface implements Tenancy, so what holds of
\* every behaviour of Tenancy holds here.
THEOREM ApiIsTenancy == ApiSpec => Spec
<1>1. ApiInit => Init
  BY DEF ApiInit
<1> QED
  BY <1>1, StepIsTenancy, PTL DEF ApiSpec, Spec

-----------------------------------------------------------------------------
(* What leaves the service of a configuration *)

\* Everything stored is a tree, and everything published is the redaction of
\* the configuration its connector still has.
ContentInv ==
  /\ configs = [c \in Connectors |-> configs[c]]
  /\ \A c \in Connectors : IsConfig(configs[c])
  /\ \A e \in published :
       /\ e.connector \in Connectors
       /\ owner[e.connector] # NoClaim
       /\ e.config = to_schema(configs[e.connector])

\* A base_url beside the configuration makes it a larger tree.
LEMMA WithBaseUrl ==
  ASSUME NEW config, IsConfig(config)
  PROVE  IsConfig(with_base_url(config))
<1> DEFINE url  == <<InDict(BaseUrlKey)>>
           more == with_base_url(config)
<1>1. InDict(BaseUrlKey) \in Steps /\ "key" \in DOMAIN InDict(BaseUrlKey)
  BY StepKinds, RegistrationKeysAssumption
<1>2. /\ url \in Seq(Steps) /\ Len(url) = 1 /\ url # <<>> /\ url[1] = InDict(BaseUrlKey)
  BY <1>1
<1>3. Parent(url) = <<>>
  <2> HIDE DEF url
  <2>1. Parent(url) \in Seq(Steps) /\ Len(Parent(url)) = 0
    BY <1>2, ParentPath
  <2> QED
    BY <2>1
<1>4. /\ DOMAIN more = DOMAIN config \cup {url}
      /\ \A p \in DOMAIN more : more[p] = IF p \in DOMAIN config THEN config[p] ELSE "literal"
      /\ more = [p \in DOMAIN more |-> more[p]]
  BY DEF with_base_url
<1> HIDE DEF more, url
<1>5. /\ \A p \in DOMAIN config : config[p] \in Containers \cup Leafs
      /\ DOMAIN config \subseteq Seq(Steps)
      /\ <<>> \in DOMAIN config /\ config[<<>>] = "dict"
      /\ \A q \in DOMAIN config \ {<<>>} :
           /\ Parent(q) \in DOMAIN config
           /\ config[Parent(q)] = IF "key" \in DOMAIN q[Len(q)] THEN "dict" ELSE "list"
  BY DEF IsConfig
<1>6. more \in [DOMAIN more -> Containers \cup Leafs]
  BY <1>4, <1>5 DEF Leafs
<1>7. DOMAIN more \subseteq Seq(Steps)
  BY <1>2, <1>4, <1>5
<1>8. \A p \in DOMAIN config : p \in DOMAIN more /\ more[p] = config[p]
  BY <1>4
<1>9. ASSUME NEW q \in DOMAIN more \ {<<>>}
      PROVE  /\ Parent(q) \in DOMAIN more
             /\ more[Parent(q)] = IF "key" \in DOMAIN q[Len(q)] THEN "dict" ELSE "list"
  <2>1. CASE q \in DOMAIN config
    BY <1>5, <1>8, <2>1
  <2>2. CASE q = url
    BY <1>1, <1>2, <1>3, <1>5, <1>8, <2>2
  <2> QED
    BY <1>4, <2>1, <2>2
<1> QED
  BY <1>5, <1>6, <1>7, <1>8, <1>9 DEF IsConfig, more

LEMMA NoConfigIsConfig == IsConfig(NoConfig)
<1>1. <<>> \in Seq(Steps) /\ DOMAIN NoConfig = {<<>>} /\ NoConfig[<<>>] = "dict"
  BY DEF NoConfig
<1>2. NoConfig \in [DOMAIN NoConfig -> Containers \cup Leafs]
  BY DEF NoConfig, Containers
<1> QED
  BY <1>1, <1>2 DEF IsConfig

\* A connector that is new gets its configuration, and what was published
\* before is about others.
LEMMA CreationKeepsContent ==
  ASSUME TypeOK, ContentInv, NEW caller \in Callers, NEW c \in Connectors, NEW enabled \in BOOLEAN,
         CreateConnector(caller, c, enabled),
         NEW stored, IsConfig(stored),
         configs' = [configs EXCEPT ![c] = stored],
         \/ UNCHANGED published
         \/ published' = published \cup {[connector |-> c, config |-> to_schema(stored)]}
  PROVE  ContentInv'
<1>1. caller.tenant_id # NoClaim
  BY CallersAreEntitled, IdentityAssumption
<1>2. owner[c] = NoClaim /\ \A d \in Connectors : owner'[d] = IF d = c THEN caller.tenant_id ELSE owner[d]
  BY DEF CreateConnector, TypeOK
<1>3. /\ configs' = [d \in Connectors |-> configs'[d]]
      /\ \A d \in Connectors : configs'[d] = IF d = c THEN stored ELSE configs[d]
  BY DEF ContentInv
<1>4. ASSUME NEW e \in published
      PROVE  /\ e.connector \in Connectors
             /\ owner'[e.connector] # NoClaim
             /\ e.config = to_schema(configs'[e.connector])
  <2>1. e.connector \in Connectors /\ e.connector # c /\ owner[e.connector] # NoClaim
    BY <1>2 DEF ContentInv
  <2> QED
    BY <1>2, <1>3, <2>1 DEF ContentInv
<1>5. ASSUME NEW e \in published', e \notin published
      PROVE  /\ e.connector = c /\ owner'[c] # NoClaim
             /\ e.config = to_schema(configs'[c])
  <2>1. e = [connector |-> c, config |-> to_schema(stored)]
    BY <1>5
  <2>2. configs'[c] = stored
    BY <1>3
  <2> QED
    BY <1>1, <1>2, <2>1, <2>2
<1>6. \A d \in Connectors : IsConfig(configs'[d])
  BY <1>3 DEF ContentInv
<1>7. \A e \in published' :
           /\ e.connector \in Connectors
           /\ owner'[e.connector] # NoClaim
           /\ e.config = to_schema(configs'[e.connector])
  BY <1>4, <1>5
<1>8. \A config : to_schema(config)' = to_schema(config) /\ (IsConfig(config)' <=> IsConfig(config))
  OBVIOUS
<1> QED
  BY <1>3, <1>6, <1>7 DEF ContentInv

LEMMA NextContent == TypeOK /\ ContentInv /\ [ApiNext]_apiVars => ContentInv'
<1> SUFFICES ASSUME TypeOK, ContentInv, [ApiNext]_apiVars PROVE ContentInv'
  OBVIOUS
<1>1. CASE Registration
  <2>1. PICK caller \in Callers, c \in Connectors :
          \/ \E enabled \in BOOLEAN : Register(caller, c, PlainConfig, PlainConfig, enabled)
          \/ \E config \in Configs :
               \/ Register(caller, c, config, config, FALSE)
               \/ Register(caller, c, config, with_base_url(config), FALSE)
               \/ Inherit(caller, c, config)
    BY <1>1 DEF Registration
  <2>2. \A config \in Configs : IsConfig(config) /\ IsConfig(with_base_url(config))
    BY ConfigAssumption, WithBaseUrl
  <2>3. ASSUME NEW config, NEW stored, NEW enabled \in BOOLEAN, IsConfig(stored),
               Register(caller, c, config, stored, enabled)
        PROVE  ContentInv'
    <3>1. /\ CreateConnector(caller, c, enabled)
          /\ configs' = [configs EXCEPT ![c] = stored]
          /\ published' = published \cup {[connector |-> c, config |-> to_schema(stored)]}
      BY <2>3 DEF Register
    <3> QED
      BY <2>3, <3>1, CreationKeepsContent
  <2>4. ASSUME NEW config \in Configs, Inherit(caller, c, config)
        PROVE  ContentInv'
    <3>1. /\ CreateConnector(caller, c, FALSE)
          /\ configs' = [configs EXCEPT ![c] = config]
          /\ UNCHANGED published
      BY <2>4 DEF Inherit
    <3>2. IsConfig(config) /\ FALSE \in BOOLEAN
      BY <2>2
    <3> QED
      BY <3>1, <3>2, CreationKeepsContent
  <2>5. PlainConfig \in Configs /\ FALSE \in BOOLEAN
    BY ConfigAssumption
  <2> QED
    BY <2>1, <2>2, <2>3, <2>4, <2>5
<1>2. ASSUME UNCHANGED <<owner, configs, published>>
      PROVE  ContentInv'
  BY <1>2 DEF ContentInv
<1>3. Serve => UNCHANGED owner
  BY DEF Serve, Unauthorized, Public, Proceed, Work, Administer, InvokeConnector, CreateAgent,
     InvokeAgent, Post, EndInvoke, Unreachable, Arrive, Start, Finalise, registry, vars
<1> QED
  BY <1>1, <1>2, <1>3 DEF ApiNext, apiVars, vars, content, Rejection, RejectConfig,
     Reading, StartScroll, NextPage

LEMMA AlwaysContent == ApiSpec => []ContentInv
<1>1. ApiInit => ContentInv
  BY NoConfigIsConfig DEF ApiInit, ContentInv
<1>2. Spec => []TypeOK
  BY TypeCorrect
<1> QED
  BY <1>1, <1>2, ApiIsTenancy, NextContent, PTL DEF ApiSpec

\* All that is shown of a connector is the redaction of its configuration.
LEMMA ShownIsRedacted ==
  ASSUME ContentInv, NEW c \in Connectors, NEW shown \in Shown(c)
  PROVE  shown = redact_config(configs[c]) /\ IsConfig(configs[c])
BY DEF ContentInv, Shown, get_connector, to_schema

\* No answer and no event shows a literal that is under a header, below a key
\* like a credential or under an unknown name, however deep it sits.
THEOREM CredentialsNeverShown == ApiSpec => []CredentialsStayInside
<1>1. ContentInv => CredentialsStayInside
  BY ShownIsRedacted, NothingLeaks DEF CredentialsStayInside
<1> QED
  BY <1>1, AlwaysContent, PTL

\* References, structural settings and scalars are shown as they are stored.
THEOREM ConfigsAuditable == ApiSpec => []ConfigsStayAuditable
<1>1. ContentInv => ConfigsStayAuditable
  BY ShownIsRedacted, NothingHidden DEF ConfigsStayAuditable
<1> QED
  BY <1>1, AlwaysContent, PTL

-----------------------------------------------------------------------------
(* Reading page by page *)

\* The page that list_invocations makes of the rows it selects.
Newest(rows) == {i \in rows : Cardinality({j \in rows : j > i}) < Limit}

\* The numbers in a finite range have a greatest, if there are any.
LEMMA GreatestNumber ==
  ASSUME NEW n \in Nat, NEW D \in SUBSET (1..n), D # {}
  PROVE  \E m \in D : \A d \in D : d <= m
<1> DEFINE T == {n - d : d \in D}
<1>0. \A d \in D : d \in Nat /\ n - d \in Nat
  OBVIOUS
<1>1. T \in SUBSET Nat /\ T # {}
  BY <1>0
<1>2. PICK t \in T : \A u \in T : t <= u
  BY <1>1, LeastNumber
<1>3. PICK m \in D : t = n - m
  OBVIOUS
<1>4. ASSUME NEW d \in D
      PROVE  d <= m
  <2>1. n - m <= n - d
    BY <1>2, <1>3
  <2>2. d \in Nat /\ m \in Nat
    BY <1>0
  <2> QED
    BY <2>1, <2>2
<1> QED
  BY <1>4

\* Rows that a page leaves out are older than those on it, and a page that
\* leaves any out is full.
LEMMA NewestAreNewer ==
  ASSUME NEW n \in Nat, NEW rows \in SUBSET (1..n)
  PROVE  /\ Newest(rows) \subseteq rows
         /\ \A u \in rows \ Newest(rows), i \in Newest(rows) : u < i
         /\ rows \ Newest(rows) # {} => ~(Cardinality(Newest(rows)) < Limit)
<1> DEFINE Newer(i) == {j \in rows : j > i}
<1>0. \A i \in rows : i \in Nat
  OBVIOUS
<1>1. IsFiniteSet(1..n)
  BY FS_Interval
<1>2. IsFiniteSet(rows)
  BY <1>1, FS_Subset
<1>3. \A i \in rows : IsFiniteSet(Newer(i)) /\ Cardinality(Newer(i)) \in Nat
  BY <1>2, FS_Subset, FS_CardinalityType
<1>4. \A i \in rows : i \in Newest(rows) <=> Cardinality(Newer(i)) < Limit
  BY DEF Newest
<1>5. Newest(rows) \subseteq rows
  BY DEF Newest
<1>6. IsFiniteSet(Newest(rows)) /\ Cardinality(Newest(rows)) \in Nat
  BY <1>2, <1>5, FS_Subset, FS_CardinalityType
<1>7. ASSUME NEW u \in rows \ Newest(rows), NEW i \in Newest(rows)
      PROVE  u < i
  <2>1. u \in Nat /\ i \in Nat /\ i \in rows
    BY <1>0, <1>5
  <2>2. ~(Cardinality(Newer(u)) < Limit) /\ Cardinality(Newer(i)) < Limit
    BY <1>4, <2>1
  <2>3. CASE i <= u
    <3>1. \A j \in rows : j > u => j > i
      BY <1>0, <2>1, <2>3
    <3>2. Newer(u) \subseteq Newer(i)
      BY <3>1
    <3>3. Cardinality(Newer(u)) <= Cardinality(Newer(i))
      BY <1>3, <2>1, <3>2, FS_Subset
    <3> QED
      <4> HIDE DEF Newer
      <4> QED
        BY <1>3, <2>1, <2>2, <3>3, LimitAssumption
  <2> QED
    BY <2>1, <2>3
<1>8. ASSUME rows \ Newest(rows) # {}
      PROVE  ~(Cardinality(Newest(rows)) < Limit)
  <2>1. PICK m \in rows \ Newest(rows) : \A d \in rows \ Newest(rows) : d <= m
    BY <1>8, GreatestNumber
  <2>a. \A j \in rows : j > m => ~(j <= m)
    BY <1>0, <2>1
  <2>2. Newer(m) \subseteq Newest(rows)
    BY <2>1, <2>a
  <2>3. Cardinality(Newer(m)) <= Cardinality(Newest(rows))
    BY <1>6, <2>2, FS_Subset
  <2>4. ~(Cardinality(Newer(m)) < Limit) /\ Cardinality(Newer(m)) \in Nat
    BY <1>3, <1>4, <2>1
  <2> HIDE DEF Newer
  <2> QED
    BY <1>6, <2>3, <2>4, LimitAssumption
<1> QED
  BY <1>5, <1>7, <1>8

\* What a client has not been given of the rows it began with is older than
\* its page, and after a page that is short it has been given everything.
ScrollInv ==
  /\ scroll = [tenant |-> scroll.tenant, unseen |-> scroll.unseen, page |-> scroll.page]
  /\ \A i \in scroll.page \cup scroll.unseen :
       i \in DOMAIN invocations /\ invocations[i].tenant = scroll.tenant
  /\ \A u \in scroll.unseen, i \in scroll.page : u < i
  /\ Finished => scroll.unseen = {}

\* Invocations stay on record, for the tenant they are of.
RowsKept ==
  \A i \in DOMAIN invocations :
    i \in DOMAIN invocations' /\ invocations'[i].tenant = invocations[i].tenant

LEMMA NextKeepsRows == IInv /\ [Next]_vars => RowsKept
<1> SUFFICES ASSUME IInv, [Next]_vars PROVE RowsKept
  OBVIOUS
<1>1. Recorded => RowsKept
  BY DEF Recorded, RowsKept
<1>2. UNCHANGED invocations => RowsKept
  BY DEF RowsKept
<1>3. ASSUME NEW tenant \in Tenants, NEW c \in Connectors, NEW key \in IdempotencyKeys,
             NEW actor \in Subjects \cup {"anonymous"} \cup Agents,
             NEW waiter \in Calls \cup {Nobody},
             Accept(tenant, c, key, actor, waiter)
      PROVE  RowsKept
  <2>1. AddsRow(Len(invocations) + 1, NewRow(tenant, c, key, actor, waiter))
    BY <1>3, AcceptAddsOne DEF IInv
  <2> QED
    BY <2>1 DEF AddsRow, RowsKept
<1>4. ASSUME NEW caller \in Callers, NEW c \in Connectors, NEW k \in ClientKeys,
             InvokeConnector(caller, c, k)
      PROVE  RowsKept
  <2>1. /\ caller.tenant_id \in Tenants
        /\ caller.actor_id \in Subjects \cup {"anonymous"}
    BY CallersAreEntitled DEF IInv
  <2>2. ClientKey(k) \in IdempotencyKeys
    BY DEF ClientKey, IdempotencyKeys
  <2> QED
    BY <1>3, <1>4, <2>1, <2>2 DEF InvokeConnector
<1>5. ASSUME NEW p \in posts, Arrive(p)
      PROVE  RowsKept
  <2>1. /\ p.from \in Calls \cup {Nobody} /\ p.connector \in Connectors
        /\ p.tenant \in Tenants /\ p.agent \in Agents /\ p.input \in Inputs
    BY DEF IInv, TypeOK, Requests
  <2>2. AgentKey(p.agent, p.input) \in IdempotencyKeys
    BY <2>1 DEF AgentKey, IdempotencyKeys
  <2>3. \/ UNCHANGED invocations
        \/ Accept(p.tenant, p.connector, AgentKey(p.agent, p.input), p.agent, p.from)
    BY <1>5 DEF Arrive
  <2> QED
    BY <1>2, <1>3, <2>1, <2>2, <2>3
<1>6. ASSUME NEW o \in Calls, Proceed(o)
      PROVE  RowsKept
  BY <1>1, <1>2, <1>6, UnreachableRecords DEF Proceed, Post, EndInvoke
<1>7. ASSUME NEW i \in DOMAIN invocations, Work(i)
      PROVE  RowsKept
  BY <1>1, <1>7, WorkRecords
<1>8. ASSUME NEW caller \in Callers, Public(caller)
      PROVE  RowsKept
  BY <1>2, <1>4, <1>8 DEF Public, Administer, CreateAgent, InvokeAgent
<1>9. ASSUME NEW caller \in Callers, NEW c \in Connectors, NEW enabled \in BOOLEAN,
             CreateConnector(caller, c, enabled)
      PROVE  RowsKept
  BY <1>2, <1>9 DEF CreateConnector
<1>10. UNCHANGED vars => RowsKept
  BY <1>2 DEF vars
<1> QED
  BY <1>5, <1>6, <1>7, <1>8, <1>9, <1>10 DEF Next, Serve, Unauthorized

\* The page of a tenant's rows, and what it leaves out.
LEMMA PageOf ==
  ASSUME TypeOK, NEW tenant, NEW before
  PROVE  LET rows == {i \in DOMAIN invocations : invocations[i].tenant = tenant /\ i <= before}
             page == list_invocations(tenant, before)
         IN /\ page \subseteq rows
            /\ \A u \in rows \ page, i \in page : u < i
            /\ rows \ page # {} => ~(Cardinality(page) < Limit)
<1> DEFINE rows == {i \in DOMAIN invocations : invocations[i].tenant = tenant /\ i <= before}
<1>1. list_invocations(tenant, before) = Newest(rows)
  BY DEF list_invocations, Newest
<1>2. Len(invocations) \in Nat /\ rows \in SUBSET (1..Len(invocations))
  BY DEF TypeOK
<1> HIDE DEF rows
<1>3. /\ Newest(rows) \subseteq rows
      /\ \A u \in rows \ Newest(rows), i \in Newest(rows) : u < i
      /\ rows \ Newest(rows) # {} => ~(Cardinality(Newest(rows)) < Limit)
  BY <1>2, NewestAreNewer
<1> QED
  BY <1>1, <1>3 DEF rows

LEMMA StartScrolls ==
  ASSUME TypeOK, NEW caller, StartScroll(caller)
  PROVE  ScrollInv'
<1> DEFINE tenant == caller.tenant_id
           page   == list_invocations(tenant, Len(invocations))
           rows   == {i \in DOMAIN invocations : invocations[i].tenant = tenant}
<1>1. /\ Cardinality(page) = Limit
      /\ scroll' = [tenant |-> tenant, unseen |-> rows \ page, page |-> page]
      /\ invocations' = invocations
  BY DEF StartScroll, vars
<1>2. rows = {i \in DOMAIN invocations :
                invocations[i].tenant = tenant /\ i <= Len(invocations)}
  BY DEF TypeOK
<1>3. page \subseteq rows /\ \A u \in rows \ page, i \in page : u < i
  BY <1>2, PageOf
<1>4. \A i \in rows : i \in DOMAIN invocations /\ invocations[i].tenant = tenant
  OBVIOUS
<1> HIDE DEF page, rows, tenant
<1>5. /\ scroll'.tenant = tenant /\ scroll'.unseen = rows \ page /\ scroll'.page = page
      /\ scroll' = [tenant |-> scroll'.tenant, unseen |-> scroll'.unseen, page |-> scroll'.page]
  BY <1>1
<1>6. ~Finished'
  BY <1>1, <1>5, LimitAssumption DEF Finished
<1> QED
  BY <1>1, <1>3, <1>4, <1>5, <1>6 DEF ScrollInv

LEMMA NextPageScrolls ==
  ASSUME TypeOK, ScrollInv, NEW before \in DOMAIN invocations, NextPage(before)
  PROVE  ScrollInv'
<1> DEFINE tenant == scroll.tenant
           page   == list_invocations(tenant, before)
           rows   == {i \in DOMAIN invocations : invocations[i].tenant = tenant /\ i <= before}
           last   == CHOOSE i \in scroll.page : \A j \in scroll.page : i <= j
<1>1. /\ ~Finished
      /\ before >= last
      /\ scroll' = [scroll EXCEPT !.page = page, !.unseen = @ \ page]
      /\ invocations' = invocations
  BY DEF NextPage, vars
<1>2. /\ page \subseteq rows
      /\ \A u \in rows \ page, i \in page : u < i
      /\ rows \ page # {} => ~(Cardinality(page) < Limit)
  BY PageOf
<1>3. \A i \in rows : i \in DOMAIN invocations /\ invocations[i].tenant = tenant
  OBVIOUS
<1>4. DOMAIN invocations \subseteq Nat
  BY DEF TypeOK
<1>5. last \in scroll.page
  <2>1. scroll.page # {}
    BY <1>1, LimitAssumption, FS_EmptySet DEF Finished
  <2>2. scroll.page \in SUBSET Nat
    BY <1>4 DEF ScrollInv
  <2>3. \E m \in scroll.page : \A j \in scroll.page : m <= j
    BY <2>1, <2>2, LeastNumber
  <2> QED
    BY <2>3
<1>6. scroll.unseen \subseteq rows
  <2>1. ASSUME NEW u \in scroll.unseen
        PROVE  u \in rows
    <3>1. u \in DOMAIN invocations /\ invocations[u].tenant = tenant /\ u < last
      BY <1>5 DEF ScrollInv
    <3>2. u \in Nat /\ last \in Nat /\ before \in Nat
      BY <1>4, <1>5, <3>1 DEF ScrollInv
    <3>3. u <= before
      <4> HIDE DEF last
      <4> QED
        BY <1>1, <3>1, <3>2
    <3> QED
      BY <3>1, <3>3
  <2> QED
    BY <2>1
<1> HIDE DEF page, rows, last, tenant
<1>7. /\ scroll'.tenant = tenant /\ scroll'.unseen = scroll.unseen \ page /\ scroll'.page = page
      /\ scroll' = [tenant |-> scroll'.tenant, unseen |-> scroll'.unseen, page |-> scroll'.page]
  <2>1. PICK s, v : v = scroll.unseen /\ s = scroll.page
    OBVIOUS
  <2>2. scroll = [tenant |-> tenant, unseen |-> v, page |-> s]
    BY <2>1 DEF ScrollInv, tenant
  <2>3. scroll' = [tenant |-> tenant, unseen |-> v \ page, page |-> page]
    BY <1>1, <2>2
  <2> QED
    BY <2>1, <2>3
<1>8. Finished' => scroll'.unseen = {}
  <2>1. scroll'.unseen \subseteq rows \ page
    BY <1>6, <1>7
  <2> QED
    BY <1>2, <1>7, <2>1 DEF Finished
<1>9. \A u \in scroll'.unseen, i \in scroll'.page : u < i
  BY <1>2, <1>6, <1>7
<1>10. \A i \in scroll'.page \cup scroll'.unseen :
         i \in DOMAIN invocations' /\ invocations'[i].tenant = scroll'.tenant
  BY <1>1, <1>2, <1>3, <1>6, <1>7
<1> QED
  BY <1>7, <1>8, <1>9, <1>10 DEF ScrollInv

LEMMA NextScroll == IInv /\ ScrollInv /\ [ApiNext]_apiVars => ScrollInv'
<1> SUFFICES ASSUME IInv, ScrollInv, [ApiNext]_apiVars PROVE ScrollInv'
  OBVIOUS
<1>1. TypeOK
  BY DEF IInv
<1>2. ASSUME UNCHANGED scroll
      PROVE  ScrollInv'
  <2>1. RowsKept
    BY StepIsTenancy, NextKeepsRows
  <2>2. Finished' <=> Finished
    BY <1>2 DEF Finished
  <2> QED
    BY <1>2, <2>1, <2>2 DEF ScrollInv, RowsKept
<1>3. CASE Reading
  BY <1>1, <1>3, StartScrolls, NextPageScrolls DEF Reading
<1>4. Registration => UNCHANGED scroll
  BY DEF Registration, Register, Inherit
<1> QED
  BY <1>2, <1>3, <1>4 DEF ApiNext, apiVars, Rejection, RejectConfig

\* A client that reads to a page that is short has been given every row there
\* was when it began, and none of another tenant.
THEOREM ScrollComplete == ApiSpec => []ScrollSkipsNothing
<1>1. ApiInit => ScrollInv
  <2> SUFFICES ASSUME ApiInit PROVE ScrollInv
    OBVIOUS
  <2>1. scroll = [tenant |-> NoClaim, unseen |-> {}, page |-> {}]
    BY DEF ApiInit, NoScroll
  <2> QED
    BY <2>1 DEF ScrollInv
<1>2. ScrollInv => ScrollSkipsNothing
  BY DEF ScrollInv, ScrollSkipsNothing
<1> QED
  BY <1>1, <1>2, NextScroll, ApiIsTenancy, AlwaysIInv, PTL DEF ApiSpec
=============================================================================
