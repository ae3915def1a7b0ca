------------------------------- MODULE Tenancy -------------------------------
(***************************************************************************)
(* Tenants across both services: who creates connectors and agents, which  *)
(* agent reaches which connector through the internal surface of the       *)
(* registry, and what the orchestrator makes of the answers.               *)
(*                                                                         *)
(* The orchestrator and the registry are two processes with a network in   *)
(* between.  A call of the orchestrator waits no longer than its HTTP      *)
(* timeout; the request may arrive later all the same, the handler runs on *)
(* although nobody waits for it, or dies and leaves its row as it is, and  *)
(* the caller may invoke the agent again with the same input.  The steps   *)
(* inside accept and execute are those of Invocation, taken together here  *)
(* up to each commit; the lifecycle is cut down to whether a connector is  *)
(* executable.  A worker that has died is one that takes no further step.  *)
(***************************************************************************)
EXTENDS Identity, Naturals, Sequences

CONSTANTS
  Connectors, Agents,
  ConnectorLists,   \* the connector_ids an agent may be created with
  Inputs,           \* inputs an agent may be invoked with
  ClientKeys,       \* idempotency keys of public callers
  Calls,            \* invoke_agent handlers that may run at once
  Tokens,           \* values of INTERNAL_SERVICE_TOKEN
  Nobody,
  MaxInvocations    \* bound on the invocations table

\* connector_ids is whatever the client sent: any ids, of any tenant.
ASSUME ListAssumption == ConnectorLists \subseteq Seq(Connectors)
ASSUME NobodyAssumption == Nobody \notin Calls
\* The actor of an agent's call is written agent:{id}, as no subject is.
ASSUME ActorAssumption == Agents \cap (Subjects \cup {"anonymous"}) = {}
ASSUME TokenAssumption == NoClaim \notin Tokens
ASSUME BoundAssumption == MaxInvocations \in Nat

VARIABLES
  deployment,    \* the environment the two services were started with
  owner,         \* connectors.tenant_id, NoClaim where there is no row
  creator,       \* actor_id of the first audit row of the connector
  executable,    \* whether the status of the connector is executable
  agent_owner, connector_ids,   \* the agents table
  invocations,   \* the invocations table, in the order of created_at
  call,          \* each invoke_agent handler
  posts          \* internal requests on their way to the registry

registry     == <<owner, creator, executable>>
orchestrator == <<agent_owner, connector_ids>>
vars == <<deployment, owner, creator, executable, agent_owner, connector_ids,
          invocations, call, posts>>

InFlight == {"accepted", "running"}
Terminal == {"succeeded", "failed"}

NoCall == [step |-> "idle"]

ClientKey(k) == [client |-> k]

\* Mutant: a fresh key for every connector call that is posted.
MutantAgentKey(a, x) == [agent |-> a, input |-> x, nonce |-> Len(invocations)]

\* The idempotency key of the internal endpoint.
AgentKey(a, x) == [agent |-> a, input |-> x]

Init ==
  /\ deployment \in [anonymous : BOOLEAN,
                     registry_token : Tokens \cup {NoClaim},
                     orchestrator_token : Tokens \cup {NoClaim}]
  /\ owner         = [c \in Connectors |-> NoClaim]
  /\ creator       = [c \in Connectors |-> NoClaim]
  /\ executable    = [c \in Connectors |-> FALSE]
  /\ agent_owner   = [a \in Agents |-> NoClaim]
  /\ connector_ids = [a \in Agents |-> <<>>]
  /\ invocations   = <<>>
  /\ call          = [o \in Calls |-> NoCall]
  /\ posts         = {}

-----------------------------------------------------------------------------
(* The public surface of both services. *)

\* Whom a handler may find itself called by, and whether it may find that
\* there is no identity, which every endpoint of both services answers by 401.
Identities == {current_identity(h, deployment.anonymous) : h \in UserinfoHeaders}
Callers    == Identities \ {NoIdentity}
Unauthorized == NoIdentity \in Identities /\ UNCHANGED vars

\* create_connector, for a request that passes its other checks; created in an
\* executable state or not.
CreateConnector(caller, c, enabled) ==
  /\ owner[c] = NoClaim
  /\ owner'      = [owner EXCEPT ![c] = caller.tenant_id]
  /\ creator'    = [creator EXCEPT ![c] = caller.actor_id]
  /\ executable' = [executable EXCEPT ![c] = enabled]
  /\ UNCHANGED <<deployment, orchestrator, invocations, call, posts>>

\* The lifecycle endpoints, see ConnectorRegistry.
Administer(caller, c) ==
  /\ owner[c] = caller.tenant_id
  /\ executable' = [executable EXCEPT ![c] = ~@]
  /\ UNCHANGED <<deployment, owner, creator, orchestrator, invocations, call, posts>>

\* create_agent: the connector ids are stored as they come.
CreateAgent(caller, a, ids) ==
  /\ agent_owner[a] = NoClaim
  /\ agent_owner'   = [agent_owner EXCEPT ![a] = caller.tenant_id]
  /\ connector_ids' = [connector_ids EXCEPT ![a] = ids]
  /\ UNCHANGED <<deployment, registry, invocations, call, posts>>

-----------------------------------------------------------------------------
(* The invocation runtime of the registry. *)

\* find_existing: the row under the unique key.
Existing(tenant, c, key) ==
  {i \in DOMAIN invocations :
     /\ invocations[i].tenant = tenant
     /\ invocations[i].connector = c
     /\ invocations[i].key = key}

\* accept: the new row; `waiter' is the call that waits for its outcome.
Accept(tenant, c, key, actor, waiter) ==
  /\ Len(invocations) < MaxInvocations
  /\ invocations' = Append(invocations,
    [tenant |-> tenant, connector |-> c, key |-> key, actor |-> actor,
     status |-> "accepted", waiter |-> waiter])

\* invoke_connector_v1 up to accept.  A repeated key is a replay.
InvokeConnector(caller, c, k) ==
  /\ owner[c] = caller.tenant_id
  /\ executable[c]
  /\ Existing(owner[c], c, ClientKey(k)) = {}
  /\ Accept(caller.tenant_id, c, ClientKey(k), caller.actor_id, Nobody)
  /\ UNCHANGED <<deployment, registry, orchestrator, call, posts>>

-----------------------------------------------------------------------------
(* invoke_agent *)

InvokeAgent(o, caller, a, x) ==
  /\ call[o] = NoCall
  /\ agent_owner[a] = caller.tenant_id
  /\ call' = [call EXCEPT ![o] =
       [step |-> "ready", tenant |-> caller.tenant_id, agent |-> a, input |-> x,
        todo |-> connector_ids[a], outputs |-> {}]]
  /\ UNCHANGED <<deployment, registry, orchestrator, invocations, posts>>

\* The next connector of the fan-out, with internal_call_headers.
Post(o) ==
  /\ call[o].step = "ready"
  /\ call[o].todo # <<>>
  /\ posts' = posts \cup
       {[from |-> o, connector |-> Head(call[o].todo), tenant |-> call[o].tenant,
         token |-> deployment.orchestrator_token,
         agent |-> call[o].agent, input |-> call[o].input]}
  /\ call' = [call EXCEPT ![o].step = "waiting"]
  /\ UNCHANGED <<deployment, registry, orchestrator, invocations>>

\* _http_status_for.
http_status_for(status) ==
  CASE status = "succeeded"   -> 200
    [] status \in InFlight    -> 202
    [] status = "failed"      -> 502

\* Below 400 an output is reported as completed.
reported(code) == IF code < 400 THEN "completed" ELSE "failed"

\* The orchestrator takes an answer: its code, and the status in its body.
Answered(o, code, body) ==
  IF o = Nobody THEN UNCHANGED call
  ELSE call' = [call EXCEPT ![o].step = "ready", ![o].todo = Tail(@),
                            ![o].outputs = @ \cup
                  {[connector |-> Head(call[o].todo), status |-> reported(code),
                    invocation |-> body]}]

\* Mutant: the mesh token is taken for authorisation, the tenant not checked.
MutantVerdict(p) ==
  IF require_internal_caller(p.token, deployment.registry_token) # 200
  THEN require_internal_caller(p.token, deployment.registry_token)
  ELSE IF owner[p.connector] = NoClaim THEN 404
  ELSE IF ~executable[p.connector] THEN 409
  ELSE 200

\* What the internal endpoint says to a request before accept.
Verdict(p) ==
  IF require_internal_caller(p.token, deployment.registry_token) # 200
  THEN require_internal_caller(p.token, deployment.registry_token)
  ELSE IF owner[p.connector] # p.tenant THEN 404
  ELSE IF ~executable[p.connector] THEN 409
  ELSE 200

\* invoke_connector_internal up to accept: refusal, replay or a new row.
Arrive(p) ==
  LET key == AgentKey(p.agent, p.input)
      existing == Existing(p.tenant, p.connector, key)
  IN
  /\ p \in posts
  /\ posts' = posts \ {p}
  /\ \/ /\ Verdict(p) # 200
        /\ Answered(p.from, Verdict(p), "none")
        /\ UNCHANGED invocations
     \/ /\ Verdict(p) = 200
        /\ \E i \in existing :
             Answered(p.from, http_status_for(invocations[i].status), invocations[i].status)
        /\ UNCHANGED invocations
     \/ /\ Verdict(p) = 200
        /\ existing = {}
        /\ Accept(p.tenant, p.connector, key, p.agent, p.from)
        /\ UNCHANGED call
  /\ UNCHANGED <<deployment, registry, orchestrator>>

\* execute: the commit of the start, before the provider call.
Start(i) ==
  /\ invocations[i].status = "accepted"
  /\ invocations' = [invocations EXCEPT ![i].status = "running"]
  /\ UNCHANGED <<deployment, registry, orchestrator, call, posts>>

\* Mutant: the status travels in the body only.
MutantFinalise(i, outcome) ==
  /\ invocations[i].status = "running"
  /\ invocations' = [invocations EXCEPT ![i].status = outcome, ![i].waiter = Nobody]
  /\ Answered(invocations[i].waiter, 200, outcome)
  /\ UNCHANGED <<deployment, registry, orchestrator, posts>>

\* _finalise, and the answer to whoever still waits.
Finalise(i, outcome) ==
  /\ invocations[i].status = "running"
  /\ invocations' = [invocations EXCEPT ![i].status = outcome, ![i].waiter = Nobody]
  /\ Answered(invocations[i].waiter, http_status_for(outcome), outcome)
  /\ UNCHANGED <<deployment, registry, orchestrator, posts>>

Forget(o, i) == IF i.waiter = o THEN [i EXCEPT !.waiter = Nobody] ELSE i

\* httpx.HTTPError: no connection, or no answer in time.  The request is lost
\* or still on its way, or its handler goes on without a caller.
Unreachable(o, lost) ==
  LET mine == {p \in posts : p.from = o} IN
  /\ call[o].step = "waiting"
  /\ Answered(o, 503, "none")
  /\ posts' = (posts \ mine) \cup
       (IF lost THEN {} ELSE {[p EXCEPT !.from = Nobody] : p \in mine})
  /\ invocations' = [i \in DOMAIN invocations |-> Forget(o, invocations[i])]
  /\ UNCHANGED <<deployment, registry, orchestrator>>

\* The end of invoke_agent: Orchestrator has the event and its version.
EndInvoke(o) ==
  /\ call[o].step = "ready"
  /\ call[o].todo = <<>>
  /\ call' = [call EXCEPT ![o] = NoCall]
  /\ UNCHANGED <<deployment, registry, orchestrator, invocations, posts>>

-----------------------------------------------------------------------------

Public(caller) ==
  \/ \E c \in Connectors :
       Administer(caller, c) \/ \E k \in ClientKeys : InvokeConnector(caller, c, k)
  \/ \E a \in Agents :
       \/ \E ids \in ConnectorLists : CreateAgent(caller, a, ids)
       \/ \E o \in Calls, x \in Inputs : InvokeAgent(o, caller, a, x)

Proceed(o) == Post(o) \/ EndInvoke(o) \/ \E lost \in BOOLEAN : Unreachable(o, lost)

Work(i) == Start(i) \/ \E outcome \in Terminal : Finalise(i, outcome)

Serve ==
  \/ Unauthorized
  \/ \E caller \in Callers : Public(caller)
  \/ \E o \in Calls : Proceed(o)
  \/ \E p \in posts : Arrive(p)
  \/ \E i \in DOMAIN invocations : Work(i)

Next ==
  \/ Serve
  \/ \E caller \in Callers, c \in Connectors, enabled \in BOOLEAN :
       CreateConnector(caller, c, enabled)

Spec == Init /\ [][Next]_vars

-----------------------------------------------------------------------------
(* Properties *)

IdempotencyKeys == [client : ClientKeys] \cup [agent : Agents, input : Inputs]

InvocationRows ==
  [tenant : Tenants, connector : Connectors, key : IdempotencyKeys,
   actor : Subjects \cup {"anonymous"} \cup Agents,
   status : InFlight \cup Terminal, waiter : Calls \cup {Nobody}]

Outputs ==
  [connector : Connectors, status : {"completed", "failed"},
   invocation : InFlight \cup Terminal \cup {"none"}]

CallStates ==
  [step : {"ready", "waiting"}, tenant : Tenants, agent : Agents, input : Inputs,
   todo : Seq(Connectors), outputs : SUBSET Outputs]

Requests ==
  [from : Calls \cup {Nobody}, connector : Connectors, tenant : Tenants,
   token : Tokens \cup {NoClaim}, agent : Agents, input : Inputs]

\* Every variable holds a value of the column, request or handler state it
\* models, and a call that waits still has a connector to wait for.
TypeOK ==
  /\ deployment \in [anonymous : BOOLEAN, registry_token : Tokens \cup {NoClaim},
                     orchestrator_token : Tokens \cup {NoClaim}]
  /\ owner \in [Connectors -> Tenants \cup {NoClaim}]
  /\ creator \in [Connectors -> Subjects \cup {"anonymous", NoClaim}]
  /\ executable \in [Connectors -> BOOLEAN]
  /\ agent_owner \in [Agents -> Tenants \cup {NoClaim}]
  /\ connector_ids \in [Agents -> Seq(Connectors)]
  /\ invocations \in Seq(InvocationRows)
  /\ call \in [Calls -> CallStates \cup {NoCall}]
  /\ posts \subseteq Requests
  /\ \A o \in Calls : call[o].step = "waiting" => call[o].todo # <<>>

\* Whom the identity provider, or a development deployment, lets act for a
\* tenant.
MayActFor(actor, tenant) ==
  \/ actor \in Subjects /\ TenantOf[actor] = tenant
  \/ actor = "anonymous" /\ deployment.anonymous /\ tenant = DEFAULT_TENANT

\* Whoever asks, through the gateway or through an agent that names connectors
\* of other tenants, whatever tokens the services share: a connector is
\* created, and reached, only for the tenant of the one who asked ("an agent
\* in tenant A could name tenant B's connector id", main.py).
TenantIsolation ==
  /\ \A c \in Connectors : owner[c] # NoClaim => MayActFor(creator[c], owner[c])
  /\ \A i \in DOMAIN invocations :
       LET inv == invocations[i] IN
       /\ inv.tenant = owner[inv.connector]
       /\ IF inv.actor \in Agents THEN agent_owner[inv.actor] = inv.tenant
                                 ELSE MayActFor(inv.actor, inv.tenant)

\* "an orchestrator retry of the same agent call collapses onto the same
\* invocation instead of hitting the provider twice" (main.py): however often
\* calls time out, are repeated, or arrive after their caller has gone.
RetriesCollapse ==
  \A i, j \in DOMAIN invocations :
    /\ {"agent", "input"} \subseteq DOMAIN invocations[i].key \cap DOMAIN invocations[j].key
    /\ invocations[i].connector = invocations[j].connector
    /\ invocations[i].key.agent = invocations[j].key.agent
    /\ invocations[i].key.input = invocations[j].key.input
    => i = j

\* "every failed connector call read as completed" (main.py, of a time when
\* the answer had its status in the body only): an output is reported as
\* completed only on behalf of an invocation that exists and has succeeded, or
\* was still in flight; it carries a failure only if the failure is on record.
OutputsMatchInvocations ==
  \A o \in Calls : call[o] # NoCall => \A out \in call[o].outputs :
    LET rows == Existing(call[o].tenant, out.connector,
                         AgentKey(call[o].agent, call[o].input))
        recorded == {invocations[i].status : i \in rows}
    IN /\ out.status = "completed" =>
            rows # {} /\ out.invocation \in {"succeeded"} \cup InFlight
       /\ out.invocation \in Terminal => recorded = {out.invocation}
=============================================================================
