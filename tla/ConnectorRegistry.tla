-------------------------- MODULE ConnectorRegistry --------------------------
(***************************************************************************)
(* The lifecycle side of services/connector-registry: the connectors       *)
(* table, the append-only connector_audit table, the events staged in the  *)
(* outbox, and the HTTP handlers that write them concurrently from several *)
(* workers and replicas.                                                   *)
(*                                                                         *)
(* A handler that loads the row only under SELECT ... FOR UPDATE is one    *)
(* atomic action.  validate_connector and rotate_connector_credentials     *)
(* load the row first, without a lock, and call transitions.apply          *)
(* afterwards in the same session: session.get(..., with_for_update=True)  *)
(* takes the lock but does not overwrite attributes already loaded, so     *)
(* apply works on the status and version of the EARLIER read.  They are    *)
(* two actions, and the snapshot lives in `snap' in between.               *)
(*                                                                         *)
(* Left out, because no property tells the values apart: the descriptive   *)
(* columns (name, config, scopes, reason text, timestamps, actor) and the  *)
(* two idempotency columns that validation stores with the report.         *)
(***************************************************************************)
EXTENDS Lifecycle, Naturals, Sequences

CONSTANTS
  Connectors,   \* connector ids (uuid4: an id is used for one row only)
  Tenants,
  OwnerOf,      \* the tenant that registers each id
  NameOf,       \* the name each id is registered under
  Requests,     \* the handlers that may be in flight at once
  MaxVersion    \* bound on connectors.version

ASSUME OwnerAssumption    == OwnerOf \in [Connectors -> Tenants]
ASSUME BoundAssumption    == MaxVersion \in Nat

VARIABLES
  status,    \* connectors.status, or Absent
  version,   \* connectors.version
  audit,     \* rows of connector_audit, per connector
  events,    \* outbox events staged for the connector, in commit order
  pc,        \* where each handler is
  snap,      \* what an in-flight handler loaded before it took the lock
  answer     \* the class of the last HTTP answer of each handler

db   == <<status, version, audit, events>>
vars == <<status, version, audit, events, pc, snap, answer>>

NoSnap == [conn |-> "none"]

AuditRow(v, from, to, event) ==
  [version |-> v, from |-> from, to |-> to, event |-> event]

Init ==
  /\ status  = [c \in Connectors |-> Absent]
  /\ version = [c \in Connectors |-> 0]
  /\ audit   = [c \in Connectors |-> {}]
  /\ events  = [c \in Connectors |-> <<>>]
  /\ pc      = [r \in Requests |-> "idle"]
  /\ snap    = [r \in Requests |-> NoSnap]
  /\ answer  = [r \in Requests |-> "none"]

-----------------------------------------------------------------------------
(* The end of a handler: "ok" is a 2xx, "refused" a 4xx, "failed" a 500.   *)

Answer(r, class) ==
  /\ pc'     = [pc EXCEPT ![r] = "idle"]
  /\ snap'   = [snap EXCEPT ![r] = NoSnap]
  /\ answer' = [answer EXCEPT ![r] = class]

AnswerOnly(r, class) == Answer(r, class) /\ UNCHANGED db

\* _tenant_connector, and the tenant check at the top of transitions.apply.
Visible(c, tenant) == status[c] # Absent /\ OwnerOf[c] = tenant

\* Mutant: the audit table without its unique constraint.
MutantAuditSlotFree(c, v) == TRUE

\* uq_connector_audit_version: one audit row per connector and version.
AuditSlotFree(c, v) == \A a \in audit[c] : a.version # v

\* Mutant: the audit row carries the version before the increment.
MutantWriteEdge(r, c, s, v, edge) ==
  /\ v < MaxVersion
  /\ IF AuditSlotFree(c, v + 1)
     THEN /\ status'  = [status EXCEPT ![c] = edge.target]
          /\ version' = [version EXCEPT ![c] = v + 1]
          /\ audit'   = [audit EXCEPT ![c] =
                           @ \cup {AuditRow(v, s, edge.target, edge.event)}]
          /\ events'  = [events EXCEPT ![c] =
                           Append(@, [version |-> v + 1, subject |-> edge.event])]
          /\ Answer(r, "ok")
     ELSE AnswerOnly(r, "failed")

(***************************************************************************)
(* The write half of transitions.apply, on a row loaded with status s and  *)
(* version v.  SQLAlchemy writes only the columns whose value changed, so  *)
(* an edge from a state to itself leaves the status column alone.  Row,    *)
(* audit entry and outbox event commit together, or the unique constraint  *)
(* on the audit table rolls all three back and the request is a 500.       *)
(***************************************************************************)
WriteEdge(r, c, s, v, edge) ==
  /\ v < MaxVersion
  /\ IF AuditSlotFree(c, v + 1)
     THEN /\ status'  = [status EXCEPT ![c] =
                           IF edge.target = s THEN @ ELSE edge.target]
          /\ version' = [version EXCEPT ![c] = v + 1]
          /\ audit'   = [audit EXCEPT ![c] =
                           @ \cup {AuditRow(v + 1, s, edge.target, edge.event)}]
          /\ events'  = [events EXCEPT ![c] =
                           Append(@, [version |-> v + 1, subject |-> edge.event])]
          /\ Answer(r, "ok")
     ELSE AnswerOnly(r, "failed")

(***************************************************************************)
(* transitions.apply on a row loaded with status s and version v.  A real  *)
(* edge is looked for first; then the idempotent repeat, which writes      *)
(* nothing; then the refusal, which the caller turns into `rejection'.     *)
(***************************************************************************)
apply(r, c, s, v, target, event, reason, rejection) ==
  \/ \E edge \in find(s, target, event) :
       IF edge.requires_reason /\ ~reason
       THEN AnswerOnly(r, "refused")
       ELSE WriteEdge(r, c, s, v, edge)
  \/ /\ find(s, target, event) = {}
     /\ AnswerOnly(r, IF idempotent_repeat(s, target) THEN "ok" ELSE rejection)

-----------------------------------------------------------------------------
(* create_connector *)

\* An unknown kind or a configuration its adapter refuses is a 422.
CreateInvalid(r, c) ==
  /\ pc[r] = "idle"
  /\ status[c] = Absent
  /\ AnswerOnly(r, "refused")

\* uq_connectors_tenant_name.
NameTaken(c) ==
  \E d \in Connectors : /\ status[d] # Absent
                        /\ OwnerOf[d] = OwnerOf[c]
                        /\ NameOf[d] = NameOf[c]

Create(r, c, s) ==
  /\ pc[r] = "idle"
  /\ status[c] = Absent
  /\ MaxVersion >= 1
  /\ IF NameTaken(c)
     THEN AnswerOnly(r, "refused")
     ELSE /\ status'  = [status EXCEPT ![c] = s]
          /\ version' = [version EXCEPT ![c] = 1]
          /\ audit'   = [audit EXCEPT ![c] =
                           {AuditRow(1, "", s, "connector.created")}]
          /\ events'  = [events EXCEPT ![c] =
                           <<[version |-> 1, subject |-> "connector.created"]>>]
          /\ Answer(r, "ok")

-----------------------------------------------------------------------------
(* The endpoints that only call _transition: install, configure, enable,   *)
(* disable, revoke and archive.                                            *)

EndpointTarget ==
  [install |-> "installed", configure |-> "configured", enable |-> "enabled",
   disable |-> "disabled", revoke |-> "revoked", archive |-> "archived"]

EndpointEvent ==
  [install |-> NoEvent, configure |-> "connector.configured",
   enable |-> "connector.enabled", disable |-> "connector.disabled",
   revoke |-> "connector.revoked", archive |-> "connector.archived"]

PlainEndpoints == DOMAIN EndpointTarget

Transition(r, c, tenant, endpoint, reason) ==
  /\ pc[r] = "idle"
  /\ IF Visible(c, tenant)
     THEN apply(r, c, status[c], version[c], EndpointTarget[endpoint],
                EndpointEvent[endpoint], reason, "refused")
     ELSE AnswerOnly(r, "refused")

-----------------------------------------------------------------------------
(* The handlers that read before they lock. *)

\* Mutant: the row is used without the 404 check.
MutantBeginRead(r, c, tenant, endpoint) ==
  /\ pc[r] = "idle"
  /\ pc'   = [pc EXCEPT ![r] = endpoint]
  /\ snap' = [snap EXCEPT ![r] = [conn |-> c, status |-> status[c],
                                  version |-> version[c]]]
  /\ UNCHANGED <<db, answer>>

BeginRead(r, c, tenant, endpoint) ==
  /\ pc[r] = "idle"
  /\ IF Visible(c, tenant)
     THEN /\ pc'   = [pc EXCEPT ![r] = endpoint]
          /\ snap' = [snap EXCEPT ![r] = [conn |-> c, status |-> status[c],
                                          version |-> version[c]]]
          /\ UNCHANGED <<db, answer>>
     ELSE AnswerOnly(r, "refused")

\* validate_connector up to `await validate_config'.
BeginValidate(r, c, tenant) == BeginRead(r, c, tenant, "validate")

\* The rest of it.  TransitionRejected is swallowed: the report is returned.
EndValidate(r, valid) ==
  /\ pc[r] = "validate"
  /\ LET s == snap[r] IN
       IF valid
       THEN apply(r, s.conn, s.status, s.version, "validated",
                  "connector.validation_succeeded", FALSE, "ok")
       ELSE apply(r, s.conn, s.status, s.version, "configured",
                  "connector.validation_failed", TRUE, "ok")

\* rotate_connector_credentials: the target is the state just read.
BeginRotate(r, c, tenant) == BeginRead(r, c, tenant, "rotate")

EndRotate(r, reason) ==
  /\ pc[r] = "rotate"
  /\ LET s == snap[r] IN
       apply(r, s.conn, s.status, s.version, s.status,
             "connector.credentials_rotated", reason, "refused")

\* The worker dies, or its client goes away, between the read and the write.
Abandon(r) ==
  /\ pc[r] # "idle"
  /\ pc'   = [pc EXCEPT ![r] = "idle"]
  /\ snap' = [snap EXCEPT ![r] = NoSnap]
  /\ UNCHANGED <<db, answer>>

-----------------------------------------------------------------------------
(* request_connector_deletion: refreshes the row under the lock, but writes *)
(* status itself, without transitions.apply: no table look-up, no reason,   *)
(* no audit row.                                                            *)

RequestDeletion(r, c, tenant) ==
  /\ pc[r] = "idle"
  /\ \/ /\ ~Visible(c, tenant) \/ status[c] = "deleted"
        /\ AnswerOnly(r, "refused")
     \/ /\ Visible(c, tenant)
        /\ status[c] = "deletion_requested"
        /\ AnswerOnly(r, "ok")
     \/ /\ Visible(c, tenant)
        /\ status[c] \notin {"deleted", "deletion_requested"}
        /\ version[c] < MaxVersion
        /\ status'  = [status EXCEPT ![c] = "deletion_requested"]
        /\ version' = [version EXCEPT ![c] = @ + 1]
        /\ events'  = [events EXCEPT ![c] =
             Append(@, [version |-> version[c] + 1,
                        subject |-> "connector.deletion_requested"])]
        /\ UNCHANGED audit
        /\ Answer(r, "ok")

-----------------------------------------------------------------------------

Next ==
  \E r \in Requests :
    \/ Abandon(r)
    \/ \E valid \in BOOLEAN : EndValidate(r, valid)
    \/ \E reason \in BOOLEAN : EndRotate(r, reason)
    \/ \E c \in Connectors :
         \/ CreateInvalid(r, c)
         \/ \E s \in CREATABLE_STATES : Create(r, c, s)
         \/ \E tenant \in Tenants :
              \/ BeginValidate(r, c, tenant)
              \/ BeginRotate(r, c, tenant)
              \/ RequestDeletion(r, c, tenant)
              \/ \E endpoint \in PlainEndpoints, reason \in BOOLEAN :
                   Transition(r, c, tenant, endpoint, reason)

Spec == Init /\ [][Next]_vars

-----------------------------------------------------------------------------
(* Properties *)

Statuses == States \cup {Absent}
Versions == 0..MaxVersion
Subjects == Events \cup {"connector.created"}

AuditRows == [version : Versions, from : States \cup {""}, to : States,
              event : Subjects]
Snapshots == [conn : Connectors, status : States, version : Versions]

\* Every variable holds a value of the column, table or handler state it
\* stands for; a handler between its read and its write has a snapshot.
TypeOK ==
  /\ status \in [Connectors -> Statuses]
  /\ version \in [Connectors -> Versions]
  /\ audit \in [Connectors -> SUBSET AuditRows]
  /\ events \in [Connectors -> Seq([version : Versions, subject : Subjects])]
  /\ pc \in [Requests -> {"idle", "validate", "rotate"}]
  /\ answer \in [Requests -> {"none", "ok", "refused", "failed"}]
  /\ DOMAIN snap = Requests
  /\ \A r \in Requests : pc[r] # "idle" => snap[r] \in Snapshots

Live(c) == status[c] \in CREATABLE_STATES

\* The versions of connector c that have a row in its audit trail.
Audited(c) == {a.version : a \in audit[c]}

\* Revocation is one-way (test_revocation_is_one_way states it of the table;
\* README: "It cannot be re-enabled, only replaced"): a connector that was
\* ever revoked is in no live state again, whatever deletion requests and
\* archivals follow and however old the row is that a handler still holds.
EverRevoked(c) == \E a \in audit[c] : a.event = "connector.revoked"

RevocationIsFinal == \A c \in Connectors : EverRevoked(c) => ~Live(c)

\* A live connector, in particular one that may serve invocations, has one
\* audit row for each of its versions and the newest says how it got into
\* the state it is in: whatever was lost to a race, the trail of a connector
\* in service is complete (models.py on uq_connector_audit_version).
LiveIsFullyAudited ==
  \A c \in Connectors : Live(c) =>
    /\ 1..version[c] \subseteq Audited(c)
    /\ \E a \in audit[c] : a.version = version[c] /\ a.to = status[c]

\* "No unvalidated configuration reaches a provider" (lifecycle.py): when a
\* connector is enabled, each configuration in its trail was followed by a
\* successful validation, and so was a creation in an unvalidated state.
Unvalidated(a) ==
  \/ a.event = "connector.configured"
  \/ a.event = "connector.created" /\ a.to \in {"draft", "installed", "configured"}

EnabledWasValidated ==
  \A c \in Connectors : is_executable(status[c]) =>
    \A a \in audit[c] : Unvalidated(a) /\ a.version <= version[c] =>
      \E b \in audit[c] : /\ b.event = "connector.validation_succeeded"
                          /\ a.version < b.version
                          /\ b.version <= version[c]

\* A handler that lost a race answers 500 and the writes of the handler that
\* won stay: the version column never goes back while the connector is live.
LiveVersionNeverRegresses ==
  [][\A c \in Connectors :
       Live(c) /\ status'[c] \in CREATABLE_STATES =>
         version'[c] >= version[c]]_vars

-----------------------------------------------------------------------------
(* What holds of a connector until DELETE is called on it. *)

DeletionAsked(c) ==
  \E i \in DOMAIN events[c] : events[c][i].subject = "connector.deletion_requested"

\* The status column moves only along the edges of the lifecycle table
\* ("nothing else is permitted to write `connectors.status`", README), also
\* when handlers act on rows they read long before, until a deletion is
\* asked for.
Table == INSTANCE AbstractLifecycle WITH
           status <- [c \in Connectors |-> IF DeletionAsked(c)
                                           THEN "deletion_requested" ELSE status[c]]
FollowsTable == Table!Spec

\* The audit trail is the history: exactly one row per version, each starting
\* in the state the one before it ended in, the last one ending in the
\* current state; and the outbox events carry the same versions and subjects
\* in the same order ("Every transition writes an immutable connector_audit
\* row ... in the same transaction as the state change and the outbox event").
TrailIsHistory ==
  \A c \in Connectors : status[c] # Absent /\ ~DeletionAsked(c) =>
    /\ Audited(c) = 1..version[c]
    /\ Len(events[c]) = version[c]
    /\ \A a \in audit[c] :
         /\ events[c][a.version] = [version |-> a.version, subject |-> a.event]
         /\ a.version = version[c] => a.to = status[c]
         /\ \A b \in audit[c] : b.version = a.version + 1 => b.from = a.to

-----------------------------------------------------------------------------
(* What the tests say of the table and the code does not do; see README.md. *)

\* test_lifecycle.py: no one-way state is "exited into a live state".
OneWayStatesAreFinal ==
  [][\A c \in Connectors :
       status[c] \in ONE_WAY_INTO => status'[c] \notin CREATABLE_STATES]_vars
=============================================================================
