# TLA+ models of the FAVL agentic content gateway

The project models the parts of the repository in which several processes share
state: the connector registry (lifecycle and invocations), the transactional
outbox and its clock, the orchestrator, and the contract for consumers of the event
stream; both services together, with the network and the tenants between them; and
the guarded outbound call, where the adversity is in what a resolver and a provider
may answer.
Sources are named relative to the repository root.

## 1. Inventory

| component | state it keeps | operations | interacts with |
|---|---|---|---|
| lifecycle table, `services/connector-registry/app/lifecycle.py` | none (constants) | `find`, `idempotent_repeat`, `is_executable` | consulted by transitions and invocations |
| registry, lifecycle endpoints, `app/main.py`, `app/transitions.py` | `connectors`, `connector_audit` | create, install, configure, validate, enable, disable, rotate-credentials, revoke, archive, DELETE | stages events in the outbox in its own transaction; validate awaits an adapter |
| registry, invocations, `app/invocations.py`, `app/main.py` | `invocations` | two invoke endpoints; `accept`, `execute`, `_finalise` | reads the connector row, calls a provider through an adapter, stages events |
| adapters, `app/adapters/` | none | `validate_config`, `invoke`, `health_check` | called by create, validate, health and `execute`; providers over HTTP |
| outbound security, `app/security/` | the settings of the environment; within a call the current URL, the redirect count and the pinned address | `build_policy`, `validate_static`, `validate_url`, `request`, `check_addressable` | used by the adapters |
| redaction, `app/security/redaction.py`, `app/schemas.py` | none | `redact_config`; the validators of `ConnectorCreate` | every answer and event that carries a configuration |
| read endpoints, `app/main.py` | none | get and list connectors, `list_invocations` by pages, the audit listing | tables that others write between two pages |
| identity, `app/identity.py` (both services) | `ALLOW_ANONYMOUS`, `INTERNAL_SERVICE_TOKEN` | tenant and actor from verified headers; `require_internal_caller` | every endpoint |
| orchestrator, `services/orchestrator/app/` | `agents` | create, delete, invoke agent | internal calls to the registry, one after the other; stages events |
| outbox, `packages/favl-outbox/favl_outbox/` | `outbox_events`, one JetStream connection per replica | `enqueue`, `drain_once`, `_publish_row`, `_record_failure`, `connect`, `publish` | database, NATS JetStream |
| retry horizon, `favl_outbox/timing.py`, `config.py` | none | `worst_case_retry_horizon`, the startup check that the duplicate window covers it | the outbox relies on its conclusion |
| event contract, `favl_outbox/envelope.py`, `consumer.py` | none (a consumer keeps `last_applied`) | `build_envelope`, `envelope_from_row`, `parse_event`, `version_decision` | consumers of the stream |
| health, readiness, metrics | counters | reports | all of the above |
| console, `apps/console`; gateway, deployment, scripts | none | read-only pages; configuration | services over HTTP |

What is hard here:

* **Reads before locks.** `validate_connector` and `rotate_connector_credentials`
  load the row, and `transitions.apply` locks it later in the same session.
  `session.get(..., with_for_update=True)` does not overwrite a loaded row, so
  the transition is computed from the earlier read. Nothing but the unique
  constraint on `connector_audit` notices. `delete_agent` reads without a lock
  as well.
* **A writer that does not follow the protocol.** DELETE on a connector sets
  status and version itself: no look-up in the table and no audit row.
* **One provider call per idempotency key** although handlers race on the key,
  time out, and die between three separate commits.
* **A batch in one transaction.** The outbox publishes many rows between a
  claim and a commit, on several replicas, while the broker comes and goes and
  answers are lost.
* **A call through the guard.** A name is resolved, checked and pinned, and a
  redirect starts over at a destination the provider chose, under a policy put
  together from operator settings and connector wishes; stored configurations may
  be older than the checks of `validate_config`.
* **Event versions** are what consumers order by, and are computed by whoever
  writes the aggregate.
* **A bound on time, computed from settings.** The stream forgets message ids after a
  window. The gate at startup adds up the delays of one row; a drain makes that row
  wait for a whole batch, and a rollback or a crash makes it forget an attempt.
* **Tenants behind a trusted service.** An agent may name any connector id, and the
  orchestrator calls the registry with a token of the mesh. A call that timed out
  may arrive later, its handler runs on, and the caller repeats the agent call.
* **Configurations are trees.** A credential may sit at any depth, in a list, or under
  a header, in a row that an earlier release stored before there were checks.
* **Pages** are cut by a time while rows are inserted and change between two requests.

Correct means, per component: the lifecycle is only left along its edges, a
revocation is final and a connector in service has a complete audit trail; an
invocation calls its provider at most once, has one outcome, and says the same
thing in its row, its events and every answer; the outbox loses no committed
event, publishes none that was not committed, and neither retries for ever nor
gives up early; the events of an agent can be followed by version; a consumer
obeying the contract never skips or repeats a version and gets all of a living agent;
an event whose duplicate window covers the publishes of its row is stored once, and the
gate is meant to let no other deployment start; nothing is created or
reached for a tenant but by those who act for it, and a repeated agent call is one
invocation; what leaves of a configuration hides every credential and nothing else;
and no request leaves for a destination the operator does not permit, or leaves at
all when it was refused.

## 2. Modules

| module | models | composes |
|---|---|---|
| `Lifecycle` | the states, the table of edges and its look-ups | |
| `AbstractLifecycle` | what the table promises of `connectors.status` until a deletion is asked for | `Lifecycle` |
| `ConnectorRegistry` | the lifecycle endpoints, `transitions.apply`, audit rows, staged events | `Lifecycle`; refines `AbstractLifecycle` |
| `Invocation` | the invoke endpoints, `accept`, `execute`, `_finalise` | `Lifecycle` |
| `EventDelivery` | what the outbox promises | |
| `Outbox` | enqueue, publisher loop, connection, broker | refines `EventDelivery` |
| `EventContract` | `parse_event`, `version_decision` | |
| `Consumer` | a consumer of the stream that follows the contract | `EventContract` |
| `Orchestrator` | the agent endpoints and the fan-out | `EventContract` |
| `AgentProjection` | the orchestrator, the stream and a consumer of its events | `Orchestrator`, `Consumer`; refines `Consumer` |
| `RetryHorizon` | `timing.py`, the gate, and one outbox row through the drains of a replica on a clock | |
| `Adapter` | one `invoke` or `health_check` of each adapter through the outbound path, and `validate_config` | |
| `Identity` | `identity.py` and `require_internal_caller`, operators only | |
| `Tenancy` | both services, the network between them, tenants, tokens, keys and outputs | `Identity` |
| `Redaction` | `redaction.py`, operators only, and what it is meant to do | |
| `RegistryApi` | registration, answers and paging of the registry | `Tenancy`, `Redaction` |
| `Recursion` | induction over the naturals, and that a recursive function exists and obeys its equations | |
| `ConnectorRegistryProofs`, `InvocationProofs`, `OutboxProofs`, `AdapterProofs` | theorems | the module they name |
| `AgentProjectionProofs` | theorems about `Orchestrator` and `AgentProjection` | `AgentProjection` |
| `RegistryApiProofs` | theorems about `Tenancy`, `Redaction` and `RegistryApi` | `RegistryApi`, `Recursion` |
| `RetryHorizonProofs` | theorems | `RetryHorizon`, `Recursion` |
| `MC*` | the instances TLC checks | the module they name |

### How state and actions correspond to the code

**ConnectorRegistry.** `status`, `version` are columns of `connectors`, `audit` the
rows of `connector_audit`, `events` the outbox rows with
`aggregate_type = connector`. A handler that loads the row only under a lock
(`_transition` and the plain endpoints, DELETE after its refresh, create) is one
action. Validate and rotate are two actions, and `snap` is the row as the session
loaded it. `WriteEdge` is the write half of `apply`: SQLAlchemy emits only changed
columns, so an edge from a state to itself does not write the status; status,
version, audit row and event commit together or fail together on
`uq_connector_audit_version` (answer "failed", a 500). `apply` keeps the order of
the code: a real edge, then the idempotent repeat, then the refusal; a validation
swallows the refusal. `Abandon` is a worker or a client that goes away between
the two steps.

**Invocation.** `row`, `version`, `events` belong to `invocations`. A handler moves
through `idle -> admitted` (connector read and checked) `-> missed`
(`find_existing` found nothing) `-> inserted` (flushed, not committed)
`-> accepted -> running -> calling -> idle`. The insert of a key waits while another
open transaction has inserted it (`KeyLocked`), and then fails if that one has
committed. On that path the internal endpoint reads `record.kind` of a connector
that the rollback has expired: a 500. `Administer` moves the connector along the
table or by DELETE at any time. (The stale validation of section 5 is left out
there: `RevocationIsFinal` of `ConnectorRegistry` says it never reaches a connector
that was revoked, and revocation is all the properties of `Invocation` ask about.)
`Crash` forgets the handler and its open transaction.

**Outbox.** One drain is `Claim`, one `PublishAcked` or `PublishFailed` for each row
in `created_at` order, and `Commit`; the outcomes live in `acked` and `failed` until
then, and `Rollback` and `Restart` forget them. `born` is the rank of `created_at`,
which need not be the order of the commits. `PublishFailed` covers a connection
that is not ready, and a timeout after which the message may still arrive
(`wire`, `LateArrival`) or not (`Lose`). `conn` is "none" when `connect` failed at
boot: nothing tries again; "down" reconnects by itself.

**Orchestrator.** `invoke_agent` is `BeginInvoke`, one `CallConnector` for each
connector, and `EndInvoke` in a second transaction that re-reads the row under a
lock. `delete_agent` is `BeginDelete` (read) and `EndDelete` (commit), and stamps
the version it read plus one. The registry is an environment that answers 200,
202, an error, or nothing.

**EventContract, Consumer.** A payload is its schema version, whether its required
fields are there, and its aggregate version. The stream hands messages over in any
order, any number of times. What a consumer does with a decision is external: the
library only decides.

**AgentProjection.** `produced` of `Consumer` is the number of events the orchestrator has
committed. A delivery is any message about one of them: its envelope
(`envelope_from_row`), or a legacy, malformed or future form that carries the same
number. The stream is what `EventDelivery` promises: every committed event arrives,
in any order and any number of times, so `Deliver` needs no state of its own.
(Dead-lettered rows are out of scope here; they stop a projection by design.)

**RetryHorizon.** `status`, `attempts`, `next_attempt_at` are columns; `outcome`,
`retry_at`, `ahead` what the open transaction of `drain_once` holds until its commit.
Every action moves `now` by nothing or by the most its configured delay allows
(`Upto`): lock wait, connect, publish, restart, poll. The rest of a batch only
appears as time: `ahead` rows are published before the row, the others after it and
before the commit, and a batch claimed before the row was due (`OtherBatch`) may hold
the loop up. `Send` covers an answer, an answer lost, and a message that comes at
once, late or never; the stream (external) drops an id it stored no longer than
`window` ago. `Boot` is behind `WindowIsSafe`.

**Identity, Tenancy.** A header is its form (missing, garbage, claims) and two claims;
`TenantOf` is the identity provider. `deployment` are the settings the services were
started with. `posts` are internal requests on their way; `Unreachable` is the
orchestrator's timeout, after which the request may still arrive, with nobody
waiting. The steps of `accept` and `execute` are those of `Invocation`, taken
together up to each commit (`Arrive`, `Start`, `Finalise`), and `Orchestrator` has the
events that are left out here. An idempotency key is a record of what it is hashed
from, so equal keys are exactly equal calls.

**Redaction, RegistryApi.** A configuration is a tree of dicts and lists over leaves of
three kinds, given by its nodes: a function from paths of keys and indices to what is
there (`IsConfig` says which functions are trees). `CallFor` follows the recursion of
`_redact_any` down a path to the call that handles the node at its end, with the key
and the inherited sensitivity as its arguments: `_redact_any`, `_redact_headers`, or
none for what is buried in the value of a header. The regular expression
`SENSITIVE_KEY` is the set of keys it matches.
`Register` is `create_connector` with its validators and the event it stages;
`Inherit` a row from before the validators; `Shown` what leaves the service of a row.
`get_connector` is the answer to a caller of a tenant, the filter of `_tenant_connector`
included; reading changes nothing, so it is an operator and no action.
`scroll` is a client that reads `list_invocations` page by page; as the answer has no
`created_at`, the client goes on from the `started_at` of its last row, which
`NextPage` allows to be any time after that row was created.

**Adapter.** `cfg`, `operator`, `op` are the connector, the environment and which
method is called. `pc` is where the call is: `start` (checks of the adapter),
`secret`, `resolve` (`validate_url`), `pinned`, `waiting` (for the provider), `done`.
A host name is its labels from the top-level domain down, so that a suffix of the
text is a prefix of the sequence; an address is a class (public, private, never
permitted) and whether it comes wrapped in an IPv6 form. `Answers` is the resolver:
any set of addresses, another one each time. `Raise` sorts exceptions into those
the adapter turns into a code and those that reach the catch-all of `execute`;
`cause` keeps why a call failed beside the `result` it reported.

## 3. Runs

| run | instance | what it shows |
|---|---|---|
| `registry` | 2 ids of one name, 2 tenants, 2 handlers, version <= 4, all endpoints | a connector that was ever revoked is never live again, a live one is fully audited and its version never goes back, an enabled one was validated after its last configuration; until its deletion is asked for, its status follows the table (refinement of `AbstractLifecycle`) and its trail and events are its exact history |
| `one_way` | 1 id, 2 handlers, version <= 4 | **violated**: an archived connector becomes validated again |
| `invocation` | 1 key, 2 handlers, 2 crashes, fairness | at most one provider call, one owner of the row, one final outcome; answers and events agree with it; every request is answered, every invocation ends unless a worker dies, nothing new is served after a revocation |
| `invocation_race` | 1 key, 2 handlers | **violated**: the loser of a race on the internal endpoint fails |
| `outbox` | 2 rows, 2 replicas, batches of 2, 1 fault, lost answers, fairness | claims never overlap, attempts respect the limit, `EventDelivery` is implemented, every staged event is published or dead-lettered |
| `outbox_boot` | 2 rows, 1 replica, fairness | **violated**: a replica that booted without a broker never drains |
| `orchestrator` | `MCAgentProjection`: 2 agents of one name (one too wide), 2 handlers, version <= 3, a consumer of one agent, fairness | the events of a living agent can be followed, none follows its deletion, they say whether it exists; the consumer applies them once, in order, without gaps, whatever arrives; the composition implements `Consumer`; and each event of a living agent is applied in the end |
| `orchestrator_versions` | 1 agent, 2 handlers | **violated**: a consumer ignores the deletion of an agent |
| `adapter` | 3 adapters and an unknown kind, 36 configurations, 24 environments, 4 hosts | requests reach only what the operator permits, redirects are bounded, a refused call sends nothing, a validated configuration dispatches |
| `retry_horizon` | 1 row, 8 deployments (2 policies, 2 windows, alone or beside two other rows), 2 crashes or rollbacks, quarters of a second | the publishes of a row span no more than its backoffs and the bounded cost of each attempt; where the window covers that span and the last answer, the stream never holds an event twice |
| `retry_gate` | 1 row, every setting as shipped but a window of 1023 s, full batches, no fault, seconds | **violated**: an event is stored twice |
| `registry_api` | 2 tenants, 3 subjects (one of no tenant), 1 connector, 1 agent, 1 agent call at a time, 3 invocations, 2 client keys, pages of 2, 8 settings of the two tokens and of anonymity | tenants never meet, a repeated agent call is one invocation, outputs agree with the invocations; no configuration shows a credential and none hides more than it must; a scroll skips nothing |

Bounds. Two handlers are the smallest race; one can wait on the index of a key
while the other dies holding it, and both can die and ask again. Version 4 lets a
connector be created, read by a validation, deleted, archived and written back
(one id with version 7 also passes). The outbox needs two rows for a batch of which
one is acknowledged before a crash, arriving at different times for a batch that
leaves one to the other replica, and two limits that differ (2 and 3). One fault is
enough for a crash between acknowledgement and commit; more of them only repeat it.
The connectors of `adapter` vary one aspect at a time beside a base one, since
policy and checks treat the aspects separately; URL, host list and schemes, which
meet in the checks, are combined. Redirect ceilings 0 and 2 against wishes of none,
0, 1 and 9 lie on both sides of them.

A consumer of one agent is enough in `orchestrator`, since the contract keeps nothing
between aggregates; the other agent competes for the name and the handlers.
`retry_horizon` needs a policy below and above the limit of the row, windows that the
gate refuses and accepts, that cover the span and that do not, and a batch of more than
one. Of its 8 deployments the gate refuses two (the larger policy with the smaller
window); of the other six it accepts, one does not cover the span of its row. With two
faults an attempt is lost twice; the bound counts each of them. The window of
`retry_gate` is the smallest the gate accepts with the shipped settings.
In `registry_api` three invocations make a page of two and a rest, and one of them may
come after the scroll began. One connector meets two tenants, because either may own
it while agents of either name it. Configurations are up to three levels deep, with
one key in each dict below the outermost and seven keys, one for each way the code
treats a key; they are inspected in a system without other rows, because nothing else
depends on what a configuration holds.

Symmetry is used only in runs without liveness, over handlers, connector ids and client
keys that no constant tells apart.

Deadlock checking is off in the runs of the outbox and of the retry horizon (once the
rows are settled and the fault budget is spent the instance has nothing left to do,
and a service that the gate refuses never starts), of the adapter (a call ends), and of
`registry_api` (a connector whose configuration is inspected is left alone).

Fairness. `Invocation`: weak fairness of the steps of a handler. An asyncio task
that is not waiting runs on, the database answers, and the provider call ends
because `asyncio.wait_for` bounds it. Nothing is assumed of new requests,
administrators or crashes. `Outbox`: weak fairness of the loop's own steps (claim,
publish, commit), of the passing of a backoff, of the broker's return and of the
client's reconnection (`max_reconnect_attempts = -1`). Arrivals, losses, restarts
and outages get none. `AgentProjection`: weak fairness of the delivery of
each event of an agent: the stream keeps what it stores and a consumer that set a
message aside reads it again. Nothing is assumed of the orchestrator's handlers.

Every property of a passing run has a mutant: a definition named `Mutant...` just
before the one it replaces, with which the run must fail. They are plausible slips
(a missing constraint, a version taken before the increment, a lost guard), so a
property that tolerated them would not be about this code.

## 4. What is proved

Each theorem is about `Spec` for every value of the constants that satisfies the
named assumptions of its module; the bounds of the instances are constants there
(`MaxVersion`, `MaxCrashes`, `MaxFaults`, `MaxInvocations`, any natural number).
Liveness is not among them, so the proofs use no fairness.

**`ConnectorRegistryProofs`** (`OwnerAssumption`, `BoundAssumption`; any connectors,
tenants, handlers): `TypeCorrect`, `RevocationFinal`, `LiveAudited`,
`VersionNeverRegresses`. None of these is inductive alone: what a validation or
rotation may do depends on the row it loaded long ago. `RegistryInv` adds what is
true of such a snapshot. Call it fresh while the audit slot after its version is
still free. Every snapshot of a live row is fully audited below its version
(`SnapshotsAudited`); a fresh one is not of a connector that was ever revoked
(`FreshUnrevoked`: the revocation takes that slot), is current if the connector is
live (`FreshCurrent`), and agrees with every other fresh one (`FreshAgree`), since
they compete for one slot. A stale handler either fails on the unique constraint or
was fresh, and then the three say that its write does no harm. `EdgeFacts` collects
what is needed of the lifecycle table, so no other step opens it.

The second half of the module proves what a status means: `TrailComplete`,
`TableFollowed`, `EnabledValidated`. It sees a step by what it does to the tables
(`StepForm`: a handler ends, reads, inserts, deletes, or commits a transition).
`HistoryInv` says that until its deletion is asked for a connector's trail is its exact
history; the reason is `SnapshotsBehind`. Up to DELETE every write takes an audit
slot, so a snapshot is the row itself or is behind it, and the next slot is free only
to those that hold the row. Hence a transition that commits starts from the status
the connector has (`MoveIsCurrent`), extends the trail by one, and is an edge of the
table: every step is one of `AbstractLifecycle` or a stutter (`TableFollowed`, under
the mapping `TableStatus`). After DELETE the argument fails, and so does the claim
(`one_way`). `ValidatedInv` holds even then: what can still be enabled was validated
after its last configuration (`CheckedWasValidated`), and so was what a handler read
(`SnapshotsValidated`).

**`InvocationProofs`** (`ConnectorOfAssumption`, `CrashAssumption`; any keys and
handlers): `TypeCorrect`, `OneCall`, `SingleOwner`, `AnswersConsistent`,
`EventsComplete`, `OutcomeNeverChanges`. `InvocationInv` adds to the checked
invariants that the row is in the status its owner believes (`OwnersRowIsCurrent`,
because `execute` and `_finalise` never re-read it) and that no final answer was
given before there is an outcome (`NoEarlyAnswer`). One lemma per action, one step
per conjunct. `RevocationIsKept` is about the future of a behaviour: from a state where
a connector is revoked and no request that read it earlier is open, no call and no row
is ever added for a key of it. What lasts from there on is that the connector is
revoked, archived or on its way to deletion, from where the table does not lead back
(`NoWayBack`), and that no handler is past its check (`StaysClosed`).

**`OutboxProofs`** (`BatchAssumption`, `AttemptAssumption`, `FaultAssumption`,
`RowsAssumption`; any finite set of rows, any replicas): `TypeCorrect`,
`ClaimsExclusive`, `AttemptsBounded` (with `FreshIsUntried`), and
`OutboxImplementsDelivery`: under the mapping every initial state is one of
`EventDelivery`, and every step is a step of it or a stutter. That needs
`DeliveryInv`: claims do not overlap, a claimed row has one outcome (`OneOutcome`),
and whatever is in the stream or on the wire was staged (`StreamIsHonest`).

**`AgentProjectionProofs`**, of `Orchestrator` (`FanOutAssumption`, `VersionAssumption`; any agents, names,
fan-outs and handlers): `TypeCorrect`, `DeletionEnds`, `EventsMatch`, `LiveFollowed`.
The invariant `IInv` adds that the i-th event of an agent that exists has number i and
is no deletion (`LiveAgentIsNumbered`) and that a handler that fans out has passed the
check (`FanOutChecked`, which is what bounds its outputs). The last four conjuncts
speak of one agent each: `Consistent` collects them, and one lemma for each of the
three writes says that it leaves an agent consistent.

Of `AgentProjection` (as above, with `FollowedAssumption` and
`HandlersAssumption`: finitely many handlers): `ProjectionCorrect` and
`ProducerCorrect`, the refinement. `ProducerInv` adds what `Consumer` asks of a
producer. An agent that is gone may still get one event from each handler that has
read it for deletion, so the handlers are counted (`DeletionsCounted`: events and
pending deletions together stay within `MaxVersion + Cardinality(Handlers)`); and no
event has a number beyond the count of its agent's events, although a deletion uses a
version read long ago (`NumbersCounted`). Then every step appends to one agent or
none (`NextGrows`), a delivery carries a number the consumer may get
(`NumberOfEvent`), and the rule applies it only if it is the next (`AppliedInOrder`).

**`RegistryApiProofs`**, of `Tenancy` (`IdentityAssumption`, `ListAssumption`,
`NobodyAssumption`, `ActorAssumption`; any tenants, subjects, tokens, connectors, agents and calls):
`TypeCorrect`, `Isolation`, `RetriesCollapsed`, `OutputsMatch`. `IInv` adds that a
request on its way was asked by the owner of its agent (`PostsAreAsked`, with
`CallsOwnTheirAgent`), that an invocation somebody waits for is of the connector the
call has next (`WaitersAsk`), and that the key of an invocation is unique
(`UniqueKeys`, the constraint on the table). `OutputsMatch` needs besides that what an
output carries stays on record (`Recorded`). `ApiIsTenancy` says that every behaviour of
`RegistryApi` is one of `Tenancy`, so all of this holds there too.

Of `RegistryApi` (as above, with `KeyAssumption`, `ConfigAssumption`,
`RegistrationKeysAssumption`, `LimitAssumption`; configurations of any depth and width,
any page size): `CredentialsNeverShown`, `ConfigsAuditable`, `ScrollComplete`.

* What is redacted is decided on the way down the recursion, what must be hidden is said
  of the whole path. `Informed` joins the two: the call for a node knows the innermost
  key of its path (`LastKeyGrows`) and whether any key on it sounds like a credential,
  and it is a call of `_redact_any` exactly as long as no header is on the path
  (`PathGrows`). It is proved by induction on the length of the path (`AllInformed`,
  from `CallForChild` and `NatSetInduction`). `NothingLeaks` and `NothingHidden` follow
  for every tree.
* `ContentInv` carries this to the service: what is stored is a tree, also with a
  `base_url` beside it (`WithBaseUrl`), and everything published is the redaction of
  the configuration its connector still has.
* `ScrollInv` is why pages skip nothing: of the rows there were when a client began,
  those it has not seen are older than every row of its page. `NextKeepsRows` says that
  no row disappears or changes tenant meanwhile, `NewestAreNewer` that a page holds the
  newest of the rows it is cut from.

**`RetryHorizonProofs`** (`DelayAssumption`, `PolicyAssumption`, `WindowAssumption`,
`CompanyAssumption`; any delays, policies, windows, batches and number of faults):
`SpanBounded`, `CoveredStoresOnce`. `PowerOfTwo` and `Backoffs` are
recursive functions; that they obey their equations is proved in `Recursion`
(`TypedRecursionOnNat`). `ClockInv` is a budget: a row that has failed k times and lost f
attempts to faults, in company of c others, is sent again no later than

    Reach(c, k, f) = (k + f) * AttemptCost(c) + f * OutageCost + Backoffs[k + 1]

and wherever the replica is in its loop, the way from there to the next send fits
into what is left of it (`InBudget`). `Span` is `Reach` with every attempt and every
fault used up (`SpanIsReach`). `CoveredStoresOnce` is the claim of `timing.py` with the
sum it needs: where the window covers that span and the answer to the last publish, no
event is stored twice, however many faults there are (their number is a parameter of
the sum, since nothing in the code bounds it). The gate computes another sum, and there
is no such theorem about it: see `retry_gate` in section 5.

**`AdapterProofs`** (`LiteralAssumption`, `HostsAssumption`, `ConfigAssumption`,
`OperatorAssumption`; any hosts, configurations, environments, content types):
`ReachesPermitted`, `HopsLimited`, `RefusedUnsent`, `ConfigDispatches`, which is every
property of the run. The assumptions say what names and entries are made of, and that
numbers of redirects are not negative: `_positive_int` sees to that for a connector,
while the ceiling of the environment is taken to be one. `PolicyNarrows` is the first
half of the argument: whatever `build_policy` or an adapter's `_policy` makes of a
connector lets in nothing beyond the operator's settings (for hosts because to lie
under a domain is transitive, `StrictPrefixIsTransitive`). `CallInv` is the second: a
pinned address passed `validate_url` for the very URL that is asked for (`Guarded`),
there is one request per redirect and one more (`RequestsCounted`), only a redirect
changes the URL (`OwnUrl`), and a webhook's health check does not reach the network
(`Unsolicited`). A call ends in many ways, so one lemma (`FinishCallInv`) says what
is left to show of each.

Every invariant and every action property of a passing run is stated by a theorem. Only
model-checked are the liveness properties (`EveryEventIsApplied`, `EveryRequestAnswered`,
`EventuallySettled`, `EveryInvocationEnds`) with everything about fairness, because
TLAPS 1.4.5 proves neither liveness from fairness nor ENABLED, and the violations, which
are counterexamples.

## 5. Where the code and its documentation disagree

Each is a run of its own, except the last group.

* `one_way`, `transitions.py:99`. A validation reads a configured connector. DELETE
  raises the version without an audit row, archive follows. The validation then
  writes its stale result: the audit slot it needs was left free by DELETE, so the
  archived connector is `validated` again, at a lower version. Revoked connectors
  are safe (`RevocationIsFinal`): the revocation itself takes the slot.
* `invocation_race`, `main.py:933`. Both callers of the internal endpoint derive the
  same key. The loser's session is rolled back, and reading `record.kind` afterwards
  fails where the code means to replay the winner's row.
* `outbox_boot`, `jetstream.py:62`. `connect` runs once. If it fails there is no client
  that could reconnect, every attempt of every row fails, and rows are dead-lettered
  although the broker is back.
* `orchestrator_versions`, `orchestrator/app/main.py:313`. A delete that read the agent
  before an invocation was recorded repeats that invocation's version; the contract
  tells consumers to ignore it.
* `retry_gate`, `timing.py:59`. `config.py:68` says that "a service configured such that a
  retry could escape deduplication fails loudly". The gate counts one row that is alone;
  `drain_once` publishes up to `batch_size` (100) rows, each up to 5 s, between a claim
  and its commit. In the run the window is the smallest the gate accepts for the
  shipped settings (4 * 766.75 <= 3 * 1023). The first publish of a row is stored and
  its answer lost; the 99 others of the batch time out, the second attempt fails and the
  99 others of its batch time out as well; the third publish, behind a few older rows,
  arrives 1026 s after the first and is stored again. No crash is needed. Crashes and
  rollbacks do the same to a row with less company, since the gate counts one restart
  for each attempt, and an attempt that is not recorded
  not at all. At the shipped defaults (8 attempts, batches of 100, 5 s each to publish,
  connect and lock, 60 s to restart) the gate's sum is 767 s. `Span` with the answer to
  the last publish is 7171 s in a full batch without a fault, within the 7200 s of the
  window but beyond the share the gate means to use; with one fault it is 8237 s, and
  within the window for a company of up to 86. `Span` supposes that every publish of
  every batch times out, and is not claimed to be met exactly in company.
* Seen while modelling and evident from one line, hence no run: DELETE on a connector
  writes no audit row and accepts an enabled connector (`main.py:545`); rotating the
  credentials of a revoked connector is answered 200 as an idempotent repeat and not
  recorded (`main.py:693`, `transitions.py:114`); an invocation whose worker died stays
  `accepted` or `running`, and its key answers 202 from then on (`invocations.py:276`);
  a secret the connector may not address, and for webhook and internal connectors a
  rejected content type or one redirect too many, reach the catch-all of `execute` and
  are reported as `UPSTREAM_ERROR`, `failed_retryable`, while `base.py:44` calls
  everything but failures worth retrying terminal (`invocations.py:316`; `Caught` and
  `Raise` of `Adapter`);
  a request that read an enabled connector is accepted after its revocation
  (`main.py:778`); the orchestrator reports a 202 as "completed" (`main.py:386`);
  the health endpoint leaves out the tenant (`main.py:498`), so a connector that uses
  a tenant's secret is unhealthy, or with a webhook the endpoint fails, although it
  can be invoked; an allow-list entry with a leading dot does not admit "this domain"
  but only its subdomains (`ssrf.py:126`); a webhook's `validate_config` makes no
  `validate_static` check, so a target that is never permitted is accepted; the
  `health_url` of an http connector is not validated until it is used.
  `redaction.py:9` and `schemas.py:70` say that `env:NAME` references are shown and
  used, the code knows `secret://` only. `list_invocations` is "keyset-paged on
  created_at" (`main.py:828`) but its answer has no `created_at`: a client has
  `started_at` to go on from, which is missing as long as the last row of the page was
  not started, and with a page size of one the same row comes again.

## 6. Not modelled

* Of the adapters and outbound security: bodies, headers, the webhook signature,
  ports, and the clamping of timeouts and sizes. `Invocation` has only the classes of
  outcomes an adapter may return; `Adapter` says which.
* Of identity: base64 and JSON, which only decide between the forms a header may have.
  Of redaction: the regular expression, which only decides which keys are sensitive.
* Of the registry's reads: filters, the audit listing, and rows that share one
  `created_at` (microseconds), of which a page may cut off one.
* Health and readiness probes, metrics: they report state and change none. The
  console: a read-only client of the endpoints.
* Gateway configuration, deployment, the scripts of the repository (checks over its own
  sources), and migrations, whose constraints are modelled where they bite.
* The outbox window: `Outbox` has no clock and lets the stream deduplicate for ever;
  `RetryHorizon` says when it may: where the window covers the span of a row that is not
  crowded out of its batches by older ones (`CompanyAssumption`).

## 7. Plan

1. `Invocation` composed with `ConnectorRegistry` in place of `Administer`.
2. `Outbox` in place of the stream of `AgentProjection`: a dead-lettered row leaves a gap
   that a consumer sees.
3. Proofs: of the modules that items 1 and 2 would add. Of the present ones nothing but
   liveness is left to TLC alone.
