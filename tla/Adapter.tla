------------------------------- MODULE Adapter -------------------------------
(***************************************************************************)
(* One call of an adapter of services/connector-registry (app/adapters),   *)
(* invoke or health_check, through the guarded outbound path of            *)
(* app/security: operator and connector policy, secret look-up, the checks *)
(* on the URL, name resolution with pinning, and the redirect loop.        *)
(*                                                                         *)
(* The resolver may answer anything, and differently each time it is       *)
(* asked; the provider may answer anything.  A host name is the sequence   *)
(* of its labels from the top-level domain down, an address its class and  *)
(* whether it is wrapped in an IPv6 form.  Ports, paths, bodies, headers   *)
(* and the signature are left out.                                         *)
(***************************************************************************)
EXTENDS Naturals, Sequences, SequencesExt, FiniteSetsExt

CONSTANTS
  Hosts,       \* host names
  LiteralOf,   \* the address a host name spells out, or NoAddress
  Configs,     \* the connector's kind and config, validated or older than a check
  Operators,   \* the settings of the deployment's environment
  Types        \* content types

Classes   == {"public", "private", "forbidden"}
Addresses == [class : Classes, wrapped : BOOLEAN]
NoAddress == [class |-> "none", wrapped |-> FALSE]
NoType    == "no type"
DefaultTypes == {"json"}
Urls      == [scheme : {"http", "https"}, host : Hosts]

IsName(s) == s \in Seq(Range(s))

\* An entry of an allow-list: a host, or what lies under a domain.
IsEntry(e) ==
  /\ e = [name |-> e.name, wild |-> e.wild]
  /\ IsName(e.name) /\ e.wild \in BOOLEAN

ASSUME LiteralAssumption == LiteralOf \in [Hosts -> Addresses \cup {NoAddress}]
ASSUME HostsAssumption == \A h \in Hosts : IsName(h)
\* What a connector wishes is one number of redirects, or none.
ASSUME ConfigAssumption ==
  \A c \in Configs :
    /\ c.url \in Urls /\ c.health_url \in Urls
    /\ \A e \in c.hosts : IsEntry(e)
    /\ c.redirects \subseteq Nat /\ \A m, n \in c.redirects : m = n
ASSUME OperatorAssumption ==
  \A o \in Operators : o.redirects \in Nat /\ \A e \in o.hosts : IsEntry(e)

VARIABLES
  cfg, operator, op,   \* the connector, the deployment, "invoke" or "health"
  pc, url,             \* where outbound.request is
  redirects,
  target,              \* ValidatedTarget.address
  sent,                \* the requests that left, in order
  cause, result        \* why the call failed, and what it returned

input == <<cfg, operator, op>>
vars  == <<cfg, operator, op, pc, url, redirects, target, sent, cause, result>>

Init ==
  /\ cfg \in Configs /\ operator \in Operators /\ op \in {"invoke", "health"}
  /\ url = IF cfg.kind = "http" /\ op = "health" THEN cfg.health_url ELSE cfg.url
  /\ pc = "start" /\ redirects = 0 /\ target = NoAddress
  /\ sent = <<>> /\ cause = "none" /\ result = "none"

-----------------------------------------------------------------------------
(* security/policy.py *)

\* Python's `S or T'.
OrElse(S, T) == IF S = {} THEN T ELSE S

\* An operator entry admits itself and, with a leading dot, what ends in it.
Admits(o, e) == e = o \/ (o.wild /\ IsStrictPrefix(o.name, e.name))

build_policy(c) ==
  [hosts     |-> IF operator.hosts = {} THEN c.hosts
                 ELSE {e \in c.hosts : \E o \in operator.hosts : Admits(o, e)},
   schemes   |-> OrElse(c.schemes \cap operator.schemes, operator.schemes),
   private   |-> operator.private,
   redirects |-> Min(OrElse(c.redirects, {3}) \cup {operator.redirects}),
   types     |-> OrElse(c.types \cap operator.types, operator.types)]

\* The _policy methods of the three adapters.
policy ==
  CASE cfg.kind = "http"     -> build_policy(cfg)
    [] cfg.kind = "webhook"  -> [build_policy(cfg) EXCEPT !.redirects = 0]
    [] cfg.kind = "internal" ->
         [hosts |-> {[name |-> cfg.url.host, wild |-> FALSE]},
          schemes |-> {"http", "https"}, private |-> TRUE, redirects |-> 0,
          types |-> DefaultTypes]

-----------------------------------------------------------------------------
(* security/ssrf.py *)

normalise_address(a) == [a EXCEPT !.wrapped = FALSE]

\* classify finds nothing against the address.
permitted(a) ==
  LET class == normalise_address(a).class IN
  class = "public" \/ (policy.private /\ class = "private")

host_allowed(h) ==
  \E e \in policy.hosts :
    IF e.wild THEN IsStrictPrefix(e.name, h) ELSE h = e.name

validate_static(u) ==
  /\ u.scheme \in policy.schemes
  /\ host_allowed(u.host)
  /\ LiteralOf[u.host] # NoAddress => permitted(LiteralOf[u.host])

\* What getaddrinfo may answer: a literal stands for itself.
Answers(h) ==
  IF LiteralOf[h] # NoAddress THEN {{LiteralOf[h]}} ELSE SUBSET Addresses

-----------------------------------------------------------------------------
(* The result of a call *)

\* InvocationResult.failure.
failure(code) ==
  CASE code \in {"UPSTREAM_TIMEOUT", "DEADLINE_EXCEEDED"}        -> "timed_out"
    [] code \in {"UPSTREAM_UNAVAILABLE", "UPSTREAM_ERROR"}       -> "failed_retryable"
    [] OTHER                                                    -> "failed_terminal"

Blocked == {"URL_BLOCKED", "ADDRESS_BLOCKED", "NO_LOCATION"}   \* SSRFBlocked

\* The exceptions each invoke turns into a code of its own; the rest reach
\* execute, for which they are an UPSTREAM_ERROR.
Caught ==
  {"UPSTREAM_TIMEOUT", "UPSTREAM_UNAVAILABLE", "RESPONSE_TOO_LARGE"} \cup Blocked
  \cup (IF cfg.kind = "internal" THEN {} ELSE {"SECRET_NOT_FOUND", "NO_SECRET_REF"})
  \cup (IF cfg.kind = "http" THEN {"CONTENT_TYPE_REJECTED", "TOO_MANY_REDIRECTS"} ELSE {})

Finish(why, what) ==
  /\ pc' = "done" /\ cause' = why /\ result' = what
  /\ UNCHANGED <<input, url, redirects, target, sent>>

\* A health check turns what is raised into "unhealthy", except that the one
\* of the webhook lets SecretNotPermitted and a KeyError through.
Raise(why) ==
  Finish(why, IF op = "invoke"
              THEN failure(IF why \in Caught THEN why ELSE "UPSTREAM_ERROR")
              ELSE IF /\ cfg.kind = "webhook"
                      /\ why \in {"SECRET_NOT_PERMITTED", "NO_SECRET_REF"}
                   THEN "error" ELSE "unhealthy")

\* An adapter that answers without an exception.
Refuse(why) == Finish(why, IF op = "invoke" THEN failure(why) ELSE "unhealthy")

Goto(l) == pc' = l /\ UNCHANGED <<input, url, redirects, target, sent, cause, result>>

-----------------------------------------------------------------------------
(* Actions *)

\* No adapter is registered for the kind: execute answers, health raises.
UnknownKind ==
  /\ pc = "start" /\ cfg.kind \notin {"http", "webhook", "internal"}
  /\ Finish("UNKNOWN_KIND", IF op = "invoke" THEN failure("UNKNOWN_KIND") ELSE "error")

\* The checks before anything else is done, in the order of each adapter.
Begin(late) ==
  /\ pc = "start"
  /\ \/ /\ cfg.kind = "internal"
        /\ CASE ~cfg.service                      -> Refuse("SERVICE_NOT_REGISTERED")
             [] cfg.service /\ op = "invoke" /\ late -> Refuse("DEADLINE_EXCEEDED")
             [] cfg.service /\ op = "invoke" /\ ~late /\ ~cfg.operation ->
                  Refuse("OPERATION_NOT_SUPPORTED")
             [] OTHER                             -> Goto("resolve")
     \/ /\ cfg.kind \in {"http", "webhook"}
        /\ CASE op = "invoke" /\ late -> Refuse("DEADLINE_EXCEEDED")
             [] op = "health" /\ cfg.kind = "webhook" /\ ~validate_static(cfg.url) ->
                  Raise("URL_BLOCKED")
             [] OTHER -> Goto("secret")

\* check_addressable: the connector's own secrets and its tenant's.  The
\* health endpoint does not pass the tenant on, so a tenant's secret
\* ("tenant") is not addressable there.
check_addressable == cfg.secret # "foreign" /\ (cfg.secret = "tenant" => op = "invoke")

\* config["signing_secret_ref"] of a record older than that requirement.
NoReference == cfg.kind = "webhook" /\ cfg.secret = "none"

\* Mutant: the webhook's health check goes on to deliver.
MutantResolveSecret ==
  /\ pc = "secret"
  /\ IF ~check_addressable THEN Raise("SECRET_NOT_PERMITTED")
     ELSE IF cfg.secret = "missing" THEN Raise("SECRET_NOT_FOUND") ELSE Goto("resolve")

\* _headers of http, the signing secret of webhook, which it cannot do
\* without.  The webhook's health check ends here.
ResolveSecret ==
  /\ pc = "secret"
  /\ \/ ~check_addressable /\ Raise("SECRET_NOT_PERMITTED")
     \/ check_addressable /\ cfg.secret = "missing" /\ Raise("SECRET_NOT_FOUND")
     \/ NoReference /\ Raise("NO_SECRET_REF")
     \/ /\ check_addressable /\ cfg.secret # "missing" /\ ~NoReference
        /\ IF op = "health" /\ cfg.kind = "webhook"
           THEN Finish("none", "healthy") ELSE Goto("resolve")

\* validate_url: every address of the answer must pass, one is pinned.
ValidateUrl ==
  /\ pc = "resolve"
  /\ \/ ~validate_static(url) /\ Raise("URL_BLOCKED")
     \/ /\ validate_static(url)
        /\ \E answer \in Answers(url.host) :
             \/ /\ answer = {} \/ \E a \in answer : ~permitted(a)
                /\ Raise("ADDRESS_BLOCKED")
             \/ /\ \A a \in answer : permitted(a)
                /\ \E a \in answer : target' = normalise_address(a)
                /\ pc' = "pinned"
                /\ UNCHANGED <<input, url, redirects, sent, cause, result>>

\* Mutant: the client resolves the name again.
MutantConnect ==
  /\ pc = "pinned"
  /\ \E answer \in Answers(url.host) : \E a \in answer :
       sent' = Append(sent, [url |-> url, address |-> a])
  /\ pc' = "waiting"
  /\ UNCHANGED <<input, url, redirects, target, cause, result>>

\* client.request to the pinned address.
Connect ==
  /\ pc = "pinned"
  /\ sent' = Append(sent, [url |-> url, address |-> target])
  /\ pc' = "waiting"
  /\ UNCHANGED <<input, url, redirects, target, cause, result>>

\* Mutant: off by one in the redirect budget.
MutantRedirected(location) ==
  /\ pc = "waiting"
  /\ IF redirects > policy.redirects THEN Raise("TOO_MANY_REDIRECTS")
     ELSE /\ pc' = "resolve" /\ url' = location /\ redirects' = redirects + 1
          /\ UNCHANGED <<input, target, sent, cause, result>>

\* 301, 302, 303, 307 or 308 with a location.
Redirected(location) ==
  /\ pc = "waiting"
  /\ IF redirects + 1 > policy.redirects THEN Raise("TOO_MANY_REDIRECTS")
     ELSE /\ pc' = "resolve" /\ url' = location /\ redirects' = redirects + 1
          /\ UNCHANGED <<input, target, sent, cause, result>>

\* The same without a location, a timeout of httpx or of execute, or another
\* error of the transport.
Failed ==
  /\ pc = "waiting"
  /\ \E why \in {"NO_LOCATION", "UPSTREAM_TIMEOUT", "UPSTREAM_UNAVAILABLE"} : Raise(why)

\* The classification of a status at the end of each invoke.
code_for(status) ==
  IF cfg.kind # "internal" /\ status \in {"408 429", "502 503 504"}
  THEN "UPSTREAM_UNAVAILABLE"
  ELSE IF status \in {"4xx", "408 429"} THEN "UPSTREAM_CLIENT_ERROR"
                                        ELSE "UPSTREAM_ERROR"

Healthy == IF cfg.kind = "http" THEN {"2xx", "3xx"} ELSE {"2xx"}

Responded(status, type, large) ==
  /\ pc = "waiting"
  /\ CASE type \notin policy.types \cup {NoType} -> Raise("CONTENT_TYPE_REJECTED")
       [] type \in policy.types \cup {NoType} /\ large -> Raise("RESPONSE_TOO_LARGE")
       [] OTHER ->
            IF op = "health"
            THEN Finish("none", IF status \in Healthy THEN "healthy" ELSE "unhealthy")
            ELSE IF status = "2xx" THEN Finish("none", "succeeded")
                                   ELSE Refuse(code_for(status))

Statuses == {"2xx", "3xx", "408 429", "4xx", "502 503 504", "5xx"}

Next ==
  \/ UnknownKind \/ ResolveSecret \/ ValidateUrl \/ Connect \/ Failed
  \/ \E late \in BOOLEAN : Begin(late)
  \/ \E location \in Urls : Redirected(location)
  \/ \E status \in Statuses, type \in Types \cup {NoType}, large \in BOOLEAN :
       Responded(status, type, large)

Spec == Init /\ [][Next]_vars

-----------------------------------------------------------------------------
(* validate_config: what create and validate accept under the settings. *)

\* Mutant: the URL and the operation are only checked when they are used.
MutantValidateConfig ==
  CASE cfg.kind = "http"     -> cfg.hosts # {}
    [] cfg.kind = "webhook"  -> cfg.hosts # {} /\ cfg.secret # "none"
    [] cfg.kind = "internal" -> cfg.service
    [] OTHER                 -> FALSE

validate_config ==
  CASE cfg.kind = "http"     -> cfg.hosts # {} /\ validate_static(cfg.url)
    [] cfg.kind = "webhook"  -> cfg.hosts # {} /\ cfg.secret # "none"
    [] cfg.kind = "internal" -> cfg.service /\ cfg.operation
    [] OTHER                 -> FALSE

-----------------------------------------------------------------------------
(* Properties *)

\* "a connector's configuration may only NARROW the outbound policy"
\* (policy.py) and "the connection goes to the address already validated"
\* (outbound.py): whatever the connector asks for, the resolver answers and
\* the provider redirects to, a request reaches only addresses, hosts and
\* schemes the operator permits.
ReachesOnlyPermitted ==
  \A i \in DOMAIN sent :
    LET u == sent[i].url  a == sent[i].address IN
    /\ ~a.wrapped
    /\ a.class = "public" \/ (a.class = "private" /\ (operator.private \/ cfg.kind = "internal"))
    /\ cfg.kind = "internal" => u.host = cfg.url.host
    /\ cfg.kind # "internal" =>
         /\ u.scheme \in operator.schemes
         /\ operator.hosts # {} =>
              \E o \in operator.hosts : Admits(o, [name |-> u.host, wild |-> FALSE])

\* A provider that redirects for ever gets at most the operator's number of
\* redirects out of the gateway, and one request from a webhook or an
\* internal connector ("fixed at zero regardless of configuration").
HopsBounded ==
  Len(sent) <= 1 + (IF cfg.kind = "http" THEN operator.redirects ELSE 0)

\* A call that fails before dispatch has sent nothing, so that the caller may
\* fix the cause and repeat it; nor has a webhook's health check ("no
\* unsolicited delivery is sent").
RefusedMeansUnsent ==
  /\ cause \in {"UNKNOWN_KIND", "SERVICE_NOT_REGISTERED", "DEADLINE_EXCEEDED",
                "OPERATION_NOT_SUPPORTED", "SECRET_NOT_PERMITTED", "SECRET_NOT_FOUND",
                "NO_SECRET_REF"}
       => sent = <<>>
  /\ cfg.kind = "webhook" /\ op = "health" => sent = <<>>

\* A configuration that passes validate_config is not refused for itself when
\* it is used: an http or internal call fails for reasons of the network.
\* (The URL of an http health check may be another one, which nobody checks.)
ValidatedConfigDispatches ==
  validate_config /\ cfg.kind # "webhook" =>
    /\ cause \notin {"UNKNOWN_KIND", "SERVICE_NOT_REGISTERED", "OPERATION_NOT_SUPPORTED"}
    /\ cause = "URL_BLOCKED" /\ cfg.kind = "http" /\ op = "invoke" => redirects > 0
=============================================================================
