----------------------------- MODULE RegistryApi -----------------------------
(***************************************************************************)
(* What the connector registry takes in and gives out: the checks on a     *)
(* configuration that is registered (schemas.py, create_connector), its    *)
(* redaction wherever it leaves the service (_to_schema, the               *)
(* connector.created event), and the paging through the invocations of a   *)
(* tenant while new ones arrive.  Rows and callers are those of Tenancy.   *)
(***************************************************************************)
EXTENDS Tenancy, Redaction

CONSTANTS
  FORBIDDEN_CONFIG_KEYS, OPERATOR_ONLY_CONFIG_KEYS,
  BaseUrlKey,     \* "base_url"
  Configs,        \* configurations somebody may try to register
  PlainConfig,    \* the one connectors have in whatever else is explored
  Limit           \* the page size of list_invocations

ASSUME ConfigAssumption == PlainConfig \in Configs /\ \A config \in Configs : IsConfig(config)
ASSUME RegistrationKeysAssumption ==
  FORBIDDEN_CONFIG_KEYS \cup OPERATOR_ONLY_CONFIG_KEYS \cup {BaseUrlKey} \subseteq Keys
ASSUME LimitAssumption == Limit \in Nat \ {0}

VARIABLES
  configs,      \* connectors.config, where there is a row
  published,    \* payloads of the connector.created events
  scroll        \* a client reading the invocations of its tenant page by page

content == <<configs, published>>
apiVars == <<vars, configs, published, scroll>>

NoConfig == [p \in {<<>>} |-> "dict"]
NoScroll == [tenant |-> NoClaim, unseen |-> {}, page |-> {}]

ApiInit ==
  /\ Init
  /\ configs   = [c \in Connectors |-> NoConfig]
  /\ published = {}
  /\ scroll    = NoScroll

-----------------------------------------------------------------------------
(* Registration. *)

\* The two validators of ConnectorCreate, over the outermost keys.
Rejected(config) ==
  \E k \in FORBIDDEN_CONFIG_KEYS \cup OPERATOR_ONLY_CONFIG_KEYS : <<InDict(k)>> \in DOMAIN config

\* create_connector adds a base_url that was sent outside the configuration.
with_base_url(config) ==
  [p \in DOMAIN config \cup {<<InDict(BaseUrlKey)>>} |->
     IF p \in DOMAIN config THEN config[p] ELSE "literal"]

\* _to_schema, on the configuration.
to_schema(config) == redact_config(config)

\* create_connector: the stored row keeps the configuration, the event and
\* the answer get the redacted one.
Register(caller, c, config, stored, enabled) ==
  /\ ~Rejected(config)
  /\ stored \in {config, with_base_url(config)}
  /\ CreateConnector(caller, c, enabled)
  /\ configs'   = [configs EXCEPT ![c] = stored]
  /\ published' = published \cup {[connector |-> c, config |-> to_schema(stored)]}
  /\ UNCHANGED scroll

\* A row that an earlier release stored, before the validators existed.
Inherit(caller, c, config) ==
  /\ CreateConnector(caller, c, FALSE)
  /\ configs' = [configs EXCEPT ![c] = config]
  /\ UNCHANGED <<published, scroll>>

\* What get_connector answers to a caller of the tenant: the row through
\* _to_schema, or nothing, which is the 404 of a row that is missing or of
\* another tenant.  list_connectors selects by the same tenant.
get_connector(tenant, c) == IF owner[c] = tenant THEN {to_schema(configs[c])} ELSE {}

\* 422.
RejectConfig(config) == Rejected(config) /\ UNCHANGED apiVars

-----------------------------------------------------------------------------
(* list_invocations *)

\* Mutant: the order is left to its default, oldest first.
MutantListInvocations(tenant, before) ==
  LET rows == {i \in DOMAIN invocations : invocations[i].tenant = tenant /\ i <= before}
  IN {i \in rows : Cardinality({j \in rows : j < i}) < Limit}

\* The newest of the rows created before a time, which is given by how many
\* invocations had been created by then.
list_invocations(tenant, before) ==
  LET rows == {i \in DOMAIN invocations : invocations[i].tenant = tenant /\ i <= before}
  IN {i \in rows : Cardinality({j \in rows : j > i}) < Limit}

\* A first page that is short is all there is.
StartScroll(caller) ==
  LET tenant == caller.tenant_id
      page   == list_invocations(tenant, Len(invocations))
      rows   == {i \in DOMAIN invocations : invocations[i].tenant = tenant}
  IN
  /\ Cardinality(page) = Limit
  /\ scroll' = [tenant |-> tenant, unseen |-> rows \ page, page |-> page]
  /\ UNCHANGED <<vars, content>>

\* A short page is the last one.
Finished == Cardinality(scroll.page) < Limit

\* The answer has no created_at.  What a client can go on from is started_at
\* of the last row of its page, which is some time after that row was created
\* and is missing as long as the row has not been started.
NextPage(before) ==
  LET page == list_invocations(scroll.tenant, before)
      last == CHOOSE i \in scroll.page : \A j \in scroll.page : i <= j
  IN
  /\ scroll # NoScroll
  /\ ~Finished
  /\ invocations[last].status # "accepted"
  /\ before >= last
  /\ scroll' = [scroll EXCEPT !.page = page, !.unseen = @ \ page]
  /\ UNCHANGED <<vars, content>>

-----------------------------------------------------------------------------

\* Bound: a connector whose configuration is inspected is the only row, and
\* takes no part in anything else.
Empty == \A c \in Connectors, a \in Agents : owner[c] = NoClaim /\ agent_owner[a] = NoClaim

Inspecting ==
  \E c \in Connectors : owner[c] # NoClaim /\ configs[c] # PlainConfig

Registration ==
  \E caller \in Callers, c \in Connectors :
    \/ \E enabled \in BOOLEAN : Register(caller, c, PlainConfig, PlainConfig, enabled)
    \/ /\ Empty
       /\ \E config \in Configs :
            \/ Register(caller, c, config, config, FALSE)
            \/ Register(caller, c, config, with_base_url(config), FALSE)
            \/ Inherit(caller, c, config)

Rejection == Empty /\ \E config \in Configs : RejectConfig(config)

Reading ==
  \/ \E caller \in Callers : StartScroll(caller)
  \/ \E before \in DOMAIN invocations : NextPage(before)

ApiNext ==
  \/ Registration \/ Rejection
  \/ /\ ~Inspecting
     /\ Reading \/ (Serve /\ UNCHANGED <<content, scroll>>)

ApiSpec == ApiInit /\ [][ApiNext]_apiVars

-----------------------------------------------------------------------------
(* Properties *)

\* What leaves the service of a configuration: answers and events.
Shown(c) ==
  (UNION {get_connector(tenant, c) : tenant \in Tenants})
    \cup {e.config : e \in {p \in published : p.connector = c}}

\* "a secret that slipped past validation is never republished"
\* (redaction.py): no literal below a credential-like key, in a header or
\* under an unknown key is shown, however deep in dicts and lists it sits and
\* whichever release stored it; and nothing appears that was not there.
CredentialsStayInside ==
  \A c \in Connectors : owner[c] # NoClaim =>
    \A shown \in Shown(c) :
      /\ \A l \in Leaves(configs[c]) :
           l[2] = "literal" /\ MustHide(l[1]) => l \notin Leaves(shown)
      /\ \A l \in Leaves(shown) : l[2] = REDACTED \/ l \in Leaves(configs[c])

\* "hiding it would make configuration impossible to audit": references,
\* structural settings and scalars are shown as they are stored.
ConfigsStayAuditable ==
  \A c \in Connectors : owner[c] # NoClaim =>
    \A shown \in Shown(c), l \in Leaves(configs[c]) :
      MayShow(l[1], l[2]) => l \in Leaves(shown)

\* "Offset paging would drift as new invocations arrive during a scroll"
\* (main.py): a client that has read to the last page has seen each
\* invocation that was there when it began, whatever was accepted, started
\* or finished meanwhile, and none of another tenant.
ScrollSkipsNothing ==
  /\ \A i \in scroll.page : invocations[i].tenant = scroll.tenant
  /\ scroll # NoScroll /\ Finished => scroll.unseen = {}
=============================================================================
