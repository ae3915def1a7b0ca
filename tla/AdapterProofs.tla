----------------------------- MODULE AdapterProofs -----------------------------
(***************************************************************************)
(* What TLAPS proves of Adapter, for any hosts, configurations, settings   *)
(* of the operator, answers of the resolver and answers of the provider.   *)
(***************************************************************************)
EXTENDS Adapter, SequenceTheorems, TLAPS

-----------------------------------------------------------------------------
(* Host names *)

LEMMA StrictPrefixIsShorter ==
  ASSUME NEW s, NEW t, IsName(s), IsName(t), IsStrictPrefix(s, t)
  PROVE  Len(s) < Len(t)
<1>1. /\ s \in Seq(Range(s)) /\ t \in Seq(Range(t))
      /\ Len(s) \in Nat /\ Len(t) \in Nat
  BY LenProperties DEF IsName
<1>2. Len(s) <= Len(t) /\ SubSeq(s, 1, Len(s)) = SubSeq(t, 1, Len(s)) /\ s # t
  BY DEF IsStrictPrefix, IsPrefix
<1>3. SubSeq(s, 1, Len(s)) = s /\ SubSeq(t, 1, Len(t)) = t
  BY <1>1
<1>4. Len(s) # Len(t)
  BY <1>2, <1>3
<1> QED
  BY <1>1, <1>2, <1>4

LEMMA StrictPrefixIsTransitive ==
  ASSUME NEW s, NEW t, NEW u, IsName(s), IsName(t), IsName(u),
         IsStrictPrefix(s, t), IsStrictPrefix(t, u)
  PROVE  IsStrictPrefix(s, u)
<1>1. Len(s) < Len(t) /\ Len(t) < Len(u)
  BY StrictPrefixIsShorter
<1>2. /\ s \in Seq(Range(s)) /\ t \in Seq(Range(t)) /\ u \in Seq(Range(u))
      /\ Len(s) \in Nat /\ Len(t) \in Nat /\ Len(u) \in Nat
  BY LenProperties DEF IsName
<1>3. SubSeq(s, 1, Len(s)) = SubSeq(t, 1, Len(s)) /\ SubSeq(t, 1, Len(t)) = SubSeq(u, 1, Len(t))
  BY DEF IsStrictPrefix, IsPrefix
<1>4. \A i \in 1..Len(t) : t[i] = u[i]
  BY <1>1, <1>2, <1>3
<1>5. SubSeq(t, 1, Len(s)) = SubSeq(u, 1, Len(s))
  BY <1>1, <1>2, <1>4
<1> QED
  BY <1>1, <1>2, <1>3, <1>5 DEF IsStrictPrefix, IsPrefix

\* An entry the operator admits lets in only hosts the operator admits.
LEMMA AdmittedHost ==
  ASSUME NEW o, NEW e, NEW h, IsEntry(o), IsEntry(e), IsName(h), Admits(o, e),
         IF e.wild THEN IsStrictPrefix(e.name, h) ELSE h = e.name
  PROVE  Admits(o, [name |-> h, wild |-> FALSE])
<1>1. CASE e.wild
  <2>1. CASE e = o
    BY <1>1, <2>1 DEF Admits
  <2>2. CASE o.wild /\ IsStrictPrefix(o.name, e.name)
    <3>1. IsStrictPrefix(o.name, h)
      BY <1>1, <2>2, StrictPrefixIsTransitive DEF IsEntry
    <3> QED
      BY <2>2, <3>1 DEF Admits
  <2> QED
    BY <2>1, <2>2 DEF Admits
<1>2. CASE ~e.wild
  <2>1. e = [name |-> h, wild |-> FALSE]
    BY <1>2 DEF IsEntry
  <2> QED
    BY <2>1
<1> QED
  BY <1>1, <1>2

-----------------------------------------------------------------------------
(* The policy *)

Known == {"http", "webhook", "internal"}

\* How many redirects a call may follow.
Budget == IF cfg.kind = "http" THEN operator.redirects ELSE 0

\* What the operator permits the connector to reach.
HostPermitted(h) ==
  IF cfg.kind = "internal" THEN h = cfg.url.host
  ELSE operator.hosts # {} =>
         \E o \in operator.hosts : Admits(o, [name |-> h, wild |-> FALSE])
SchemePermitted(scheme) == cfg.kind # "internal" => scheme \in operator.schemes
AddressPermitted(a) ==
  /\ ~a.wrapped
  /\ a.class = "public" \/ (a.class = "private" /\ (operator.private \/ cfg.kind = "internal"))

Permitted(u, a) == HostPermitted(u.host) /\ SchemePermitted(u.scheme) /\ AddressPermitted(a)

LEMMA SmallestWish ==
  ASSUME NEW R \in SUBSET Nat, \A m, n \in R : m = n, NEW k \in Nat
  PROVE  Min(OrElse(R, {3}) \cup {k}) \in Nat /\ Min(OrElse(R, {3}) \cup {k}) <= k
<1>1. PICK n \in Nat : OrElse(R, {3}) = {n}
  <2>1. CASE R = {}
    BY <2>1 DEF OrElse
  <2>2. CASE R # {}
    <3>1. PICK n \in R : TRUE
      BY <2>2
    <3>2. R = {n}
      BY <3>1
    <3> QED
      BY <2>2, <3>1, <3>2 DEF OrElse
  <2> QED
    BY <2>1, <2>2
<1>2. PICK S : S = OrElse(R, {3}) \cup {k}
  OBVIOUS
<1>3. S = {n, k}
  BY <1>1, <1>2
<1>4. \E x \in S : \A y \in S : x <= y
  <2>1. CASE n <= k
    BY <1>3, <2>1
  <2>2. CASE k <= n
    BY <1>3, <2>2
  <2> QED
    BY <2>1, <2>2
<1>5. Min(S) \in S /\ \A y \in S : Min(S) <= y
  BY <1>4 DEF Min
<1> QED
  BY <1>1, <1>2, <1>3, <1>5

\* "a connector's configuration may only NARROW the outbound policy".
LEMMA PolicyNarrows ==
  ASSUME cfg \in Configs, operator \in Operators, cfg.kind \in Known
  PROVE  /\ policy.redirects \in Nat /\ policy.redirects <= Budget
         /\ policy.private => operator.private \/ cfg.kind = "internal"
         /\ \A scheme \in policy.schemes : SchemePermitted(scheme)
         /\ \A e \in policy.hosts, h \in Hosts :
              (IF e.wild THEN IsStrictPrefix(e.name, h) ELSE h = e.name) => HostPermitted(h)
<1>1. CASE cfg.kind = "internal"
  <2>1. policy = [hosts |-> {[name |-> cfg.url.host, wild |-> FALSE]},
                  schemes |-> {"http", "https"}, private |-> TRUE, redirects |-> 0,
                  types |-> DefaultTypes]
    BY <1>1 DEF policy
  <2> QED
    BY <1>1, <2>1 DEF Budget, SchemePermitted, HostPermitted
<1>2. CASE cfg.kind \in {"http", "webhook"}
  <2>1. /\ policy.hosts = build_policy(cfg).hosts
        /\ policy.schemes = build_policy(cfg).schemes
        /\ policy.private = operator.private
        /\ policy.redirects = IF cfg.kind = "http" THEN build_policy(cfg).redirects ELSE 0
    BY <1>2 DEF policy, build_policy
  <2>2. build_policy(cfg).redirects \in Nat /\ build_policy(cfg).redirects <= operator.redirects
    BY ConfigAssumption, OperatorAssumption, SmallestWish DEF build_policy
  <2>3. build_policy(cfg).schemes \subseteq operator.schemes
    BY DEF build_policy, OrElse
  <2>4. ASSUME NEW e \in build_policy(cfg).hosts, NEW h \in Hosts,
               IF e.wild THEN IsStrictPrefix(e.name, h) ELSE h = e.name
        PROVE  HostPermitted(h)
    <3> SUFFICES ASSUME operator.hosts # {}
                 PROVE  \E o \in operator.hosts : Admits(o, [name |-> h, wild |-> FALSE])
      BY <1>2 DEF HostPermitted
    <3>1. PICK o \in operator.hosts : Admits(o, e) /\ e \in cfg.hosts
      BY DEF build_policy
    <3>2. IsEntry(o) /\ IsEntry(e) /\ IsName(h)
      BY <3>1, ConfigAssumption, OperatorAssumption, HostsAssumption
    <3> QED
      BY <2>4, <3>1, <3>2, AdmittedHost
  <2>5. policy.redirects \in Nat /\ policy.redirects <= Budget
    BY <1>2, <2>1, <2>2 DEF Budget
  <2> QED
    BY <1>2, <2>1, <2>3, <2>4, <2>5 DEF SchemePermitted
<1> QED
  BY <1>1, <1>2 DEF Known

\* What passes validate_url is permitted.
LEMMA ValidatedIsPermitted ==
  ASSUME cfg \in Configs, operator \in Operators, cfg.kind \in Known,
         NEW u \in Urls, validate_static(u), NEW a \in Addresses, permitted(a)
  PROVE  Permitted(u, normalise_address(a))
<1>1. u.host \in Hosts
  BY DEF Urls
<1>2. PICK e \in policy.hosts : IF e.wild THEN IsStrictPrefix(e.name, u.host) ELSE u.host = e.name
  BY DEF validate_static, host_allowed
<1>3. HostPermitted(u.host)
  BY <1>1, <1>2, PolicyNarrows
<1>4. SchemePermitted(u.scheme)
  BY PolicyNarrows DEF validate_static
<1>5. AddressPermitted(normalise_address(a))
  BY PolicyNarrows DEF permitted, normalise_address, AddressPermitted, Addresses
<1> QED
  BY <1>3, <1>4, <1>5 DEF Permitted

-----------------------------------------------------------------------------
(* The invariant *)

Sent == [url : Urls, address : Addresses \cup {NoAddress}]

CallTyped ==
  /\ cfg \in Configs /\ operator \in Operators
  /\ url \in Urls /\ redirects \in Nat
  /\ target \in Addresses \cup {NoAddress}
  /\ sent \in Seq(Sent)

\* Only a known adapter gets anywhere, and nothing has failed before the end.
Places ==
  /\ pc \in {"secret", "resolve", "pinned", "waiting"} => cfg.kind \in Known
  /\ pc \in {"start", "secret"} => redirects = 0
  /\ pc # "done" => cause = "none"

\* Only a redirect changes the URL, and an internal call follows none.
OwnUrl ==
  /\ cfg.kind = "internal" => url = cfg.url
  /\ cfg.kind = "http" /\ op = "invoke" /\ redirects = 0 => url = cfg.url

\* One request for the call itself, and one for each redirect.
RequestsCounted ==
  /\ redirects <= Budget
  /\ Len(sent) <= redirects + (IF pc \in {"waiting", "done"} THEN 1 ELSE 0)

Guarded ==
  /\ pc = "pinned" => Permitted(url, target)
  /\ \A i \in DOMAIN sent : Permitted(sent[i].url, sent[i].address)

\* The webhook's health check never gets to the network.
Unsolicited ==
  cfg.kind = "webhook" /\ op = "health" => pc \in {"start", "secret", "done"} /\ sent = <<>>

CallInv ==
  /\ CallTyped
  /\ Places
  /\ OwnUrl
  /\ RequestsCounted
  /\ Guarded
  /\ Unsolicited
  /\ RefusedMeansUnsent
  /\ ValidatedConfigDispatches

\* The causes that RefusedMeansUnsent is about.
Early ==
  {"UNKNOWN_KIND", "SERVICE_NOT_REGISTERED", "DEADLINE_EXCEEDED",
   "OPERATION_NOT_SUPPORTED", "SECRET_NOT_PERMITTED", "SECRET_NOT_FOUND", "NO_SECRET_REF"}

\* A cause that a configuration that passes validate_config does not meet.
Avoidable(why) ==
  \/ why \in {"UNKNOWN_KIND", "SERVICE_NOT_REGISTERED", "OPERATION_NOT_SUPPORTED"}
  \/ why = "URL_BLOCKED" /\ cfg.kind = "http" /\ op = "invoke" /\ redirects = 0

LEMMA SettingsKept ==
  ASSUME UNCHANGED input
  PROVE  /\ validate_config' <=> validate_config
         /\ Budget' = Budget
         /\ \A u, a : Permitted(u, a)' <=> Permitted(u, a)
<1>1. UNCHANGED <<cfg, operator, op>>
  BY DEF input
<1>2. policy' = policy
  BY <1>1 DEF policy, build_policy
<1>3. \A u : validate_static(u)' <=> validate_static(u)
  BY <1>1, <1>2 DEF validate_static, host_allowed, permitted
<1>4. validate_config' <=> validate_config
  BY <1>1, <1>3 DEF validate_config
<1>5. Budget' = Budget
  BY <1>1 DEF Budget
<1>6. \A u, a : Permitted(u, a)' <=> Permitted(u, a)
  BY <1>1 DEF Permitted, HostPermitted, SchemePermitted, AddressPermitted
<1> QED
  BY <1>4, <1>5, <1>6

LEMMA NothingSentYet ==
  ASSUME CallInv, pc \in {"start", "secret"}
  PROVE  sent = <<>>
<1>1. Len(sent) <= 0 /\ sent \in Seq(Sent)
  BY DEF CallInv, CallTyped, Places, RequestsCounted
<1> QED
  BY <1>1

LEMMA InitCallInv == Init => CallInv
<1> SUFFICES ASSUME Init PROVE CallInv
  OBVIOUS
<1>1. /\ cfg \in Configs /\ operator \in Operators /\ redirects = 0 /\ sent = <<>>
      /\ pc = "start" /\ cause = "none" /\ target = NoAddress
      /\ url = IF cfg.kind = "http" /\ op = "health" THEN cfg.health_url ELSE cfg.url
  BY DEF Init
<1>2. url \in Urls
  BY <1>1, ConfigAssumption
<1>3. CallTyped
  BY <1>1, <1>2 DEF CallTyped
<1>4. Places /\ OwnUrl /\ Guarded /\ Unsolicited
  BY <1>1 DEF Places, OwnUrl, Guarded, Unsolicited
<1>5. RequestsCounted
  BY <1>1, OperatorAssumption DEF RequestsCounted, Budget
<1>6. RefusedMeansUnsent /\ ValidatedConfigDispatches
  BY <1>1 DEF RefusedMeansUnsent, ValidatedConfigDispatches
<1> QED
  BY <1>3, <1>4, <1>5, <1>6 DEF CallInv

\* A call ends.
LEMMA FinishCallInv ==
  ASSUME CallInv, NEW why, NEW what, Finish(why, what),
         why \in Early => sent = <<>>,
         validate_config /\ cfg.kind # "webhook" => ~Avoidable(why)
  PROVE  CallInv'
<1>1. /\ UNCHANGED <<cfg, operator, op, url, redirects, target, sent>> /\ UNCHANGED input
      /\ pc' = "done" /\ cause' = why
  BY DEF Finish, input
<1>2. CallTyped' /\ Places' /\ OwnUrl' /\ Unsolicited'
  BY <1>1 DEF CallInv, CallTyped, Places, OwnUrl, Unsolicited
<1>3. RequestsCounted'
  <2>1. Len(sent) \in Nat /\ redirects \in Nat
    BY LenProperties DEF CallInv, CallTyped
  <2> QED
    BY <1>1, <2>1, SettingsKept DEF CallInv, RequestsCounted
<1>4. Guarded'
  BY <1>1, SettingsKept DEF CallInv, Guarded
<1>5. RefusedMeansUnsent'
  BY <1>1 DEF CallInv, RefusedMeansUnsent, Early
<1>6. ValidatedConfigDispatches'
  <2>1. redirects # 0 => redirects > 0
    BY DEF CallInv, CallTyped
  <2> QED
    BY <1>1, <2>1, SettingsKept DEF ValidatedConfigDispatches, Avoidable
<1> QED
  BY <1>2, <1>3, <1>4, <1>5, <1>6 DEF CallInv

\* A call goes on to its next place.
LEMMA GotoCallInv ==
  ASSUME CallInv, NEW l \in {"secret", "resolve"}, Goto(l), pc \in {"start", "secret"},
         cfg.kind \in Known,
         cfg.kind = "webhook" /\ op = "health" => l = "secret"
  PROVE  CallInv'
<1>1. /\ UNCHANGED <<cfg, operator, op, url, redirects, target, sent, cause>>
      /\ UNCHANGED input /\ pc' = l
  BY DEF Goto, input
<1>2. CallTyped' /\ Places' /\ OwnUrl' /\ Unsolicited'
  BY <1>1 DEF CallInv, CallTyped, Places, OwnUrl, Unsolicited
<1>3. RequestsCounted' /\ Guarded'
  BY <1>1, SettingsKept DEF CallInv, RequestsCounted, Guarded
<1>4. RefusedMeansUnsent' /\ ValidatedConfigDispatches'
  BY <1>1, SettingsKept DEF CallInv, RefusedMeansUnsent, ValidatedConfigDispatches
<1> QED
  BY <1>2, <1>3, <1>4 DEF CallInv

-----------------------------------------------------------------------------
(* Every step keeps it *)

LEMMA UnknownKindCallInv ==
  ASSUME CallInv, UnknownKind
  PROVE  CallInv'
<1>1. PICK what : Finish("UNKNOWN_KIND", what)
  BY DEF UnknownKind
<1>2. pc = "start" /\ cfg.kind \notin Known
  BY DEF UnknownKind, Known
<1>3. sent = <<>>
  BY <1>2, NothingSentYet
<1>4. ~validate_config
  BY <1>2 DEF validate_config, Known
<1> QED
  BY <1>1, <1>3, <1>4, FinishCallInv

LEMMA BeginCallInv ==
  ASSUME CallInv, NEW late \in BOOLEAN, Begin(late)
  PROVE  CallInv'
<1>1. pc = "start" /\ sent = <<>>
  BY NothingSentYet DEF Begin
<1>2. CASE cfg.kind = "internal"
  <2>1. CASE ~cfg.service
    <3>1. PICK what : Finish("SERVICE_NOT_REGISTERED", what)
      BY <1>2, <2>1 DEF Begin, Refuse
    <3>2. ~validate_config
      BY <1>2, <2>1 DEF validate_config
    <3> QED
      BY <1>1, <3>1, <3>2, FinishCallInv
  <2>2. CASE cfg.service /\ op = "invoke" /\ late
    <3>1. PICK what : Finish("DEADLINE_EXCEEDED", what)
      BY <1>2, <2>2 DEF Begin, Refuse
    <3> QED
      BY <1>1, <3>1, FinishCallInv DEF Avoidable
  <2>3. CASE cfg.service /\ op = "invoke" /\ ~late /\ ~cfg.operation
    <3>1. PICK what : Finish("OPERATION_NOT_SUPPORTED", what)
      BY <1>2, <2>3 DEF Begin, Refuse
    <3>2. ~validate_config
      BY <1>2, <2>3 DEF validate_config
    <3> QED
      BY <1>1, <3>1, <3>2, FinishCallInv
  <2>4. CASE cfg.service /\ (op = "invoke" => ~late /\ cfg.operation)
    <3>1. Goto("resolve")
      BY <1>2, <2>4 DEF Begin
    <3> QED
      BY <1>1, <1>2, <3>1, GotoCallInv DEF Known
  <2> QED
    BY <2>1, <2>2, <2>3, <2>4
<1>3. CASE cfg.kind \in {"http", "webhook"}
  <2>1. CASE op = "invoke" /\ late
    <3>1. PICK what : Finish("DEADLINE_EXCEEDED", what)
      BY <1>3, <2>1 DEF Begin, Refuse
    <3> QED
      BY <1>1, <3>1, FinishCallInv DEF Avoidable
  <2>2. CASE op = "health" /\ cfg.kind = "webhook" /\ ~validate_static(cfg.url)
    <3>1. PICK what : Finish("URL_BLOCKED", what)
      BY <1>3, <2>2 DEF Begin, Raise
    <3> QED
      BY <1>1, <2>2, <3>1, FinishCallInv DEF Avoidable
  <2>3. CASE /\ ~(op = "invoke" /\ late)
             /\ ~(op = "health" /\ cfg.kind = "webhook" /\ ~validate_static(cfg.url))
    <3>1. Goto("secret")
      BY <1>3, <2>3 DEF Begin
    <3> QED
      BY <1>1, <1>3, <3>1, GotoCallInv DEF Known
  <2> QED
    BY <2>1, <2>2, <2>3
<1> QED
  BY <1>2, <1>3 DEF Begin

LEMMA ResolveSecretCallInv ==
  ASSUME CallInv, ResolveSecret
  PROVE  CallInv'
<1>1. pc = "secret" /\ sent = <<>> /\ cfg.kind \in Known
  BY NothingSentYet DEF ResolveSecret, CallInv, Places
<1>2. CASE \E why \in {"SECRET_NOT_PERMITTED", "SECRET_NOT_FOUND", "NO_SECRET_REF"} : Raise(why)
  <2>1. PICK why \in {"SECRET_NOT_PERMITTED", "SECRET_NOT_FOUND", "NO_SECRET_REF"} :
             \E what : Finish(why, what)
    BY <1>2 DEF Raise
  <2> QED
    BY <1>1, <2>1, FinishCallInv DEF Avoidable
<1>3. CASE op = "health" /\ cfg.kind = "webhook" /\ Finish("none", "healthy")
  BY <1>3, FinishCallInv DEF Early, Avoidable
<1>4. CASE ~(op = "health" /\ cfg.kind = "webhook") /\ Goto("resolve")
  BY <1>1, <1>4, GotoCallInv
<1> QED
  BY <1>2, <1>3, <1>4 DEF ResolveSecret

LEMMA ValidateUrlCallInv ==
  ASSUME CallInv, ValidateUrl
  PROVE  CallInv'
<1>1. /\ pc = "resolve" /\ cfg.kind \in Known /\ url \in Urls /\ url.host \in Hosts
      /\ cfg \in Configs /\ operator \in Operators
  BY DEF ValidateUrl, CallInv, CallTyped, Places, Urls
<1>2. CASE ~validate_static(url) /\ Raise("URL_BLOCKED")
  <2>1. PICK what : Finish("URL_BLOCKED", what)
    BY <1>2 DEF Raise
  <2>2. ~(validate_config /\ Avoidable("URL_BLOCKED"))
    <3> SUFFICES ASSUME validate_config, cfg.kind = "http", op = "invoke", redirects = 0
                 PROVE  FALSE
      BY DEF Avoidable
    <3>1. url = cfg.url
      BY DEF CallInv, OwnUrl
    <3>2. validate_static(cfg.url)
      BY DEF validate_config
    <3> QED
      BY <1>2, <3>1, <3>2
  <2> QED
    BY <2>1, <2>2, FinishCallInv DEF Early
<1>3. CASE Raise("ADDRESS_BLOCKED")
  <2>1. PICK what : Finish("ADDRESS_BLOCKED", what)
    BY <1>3 DEF Raise
  <2> QED
    BY <2>1, FinishCallInv DEF Early, Avoidable
<1>4. CASE /\ validate_static(url)
           /\ \E answer \in Answers(url.host) :
                /\ \A a \in answer : permitted(a)
                /\ \E a \in answer : target' = normalise_address(a)
           /\ pc' = "pinned"
           /\ UNCHANGED <<input, url, redirects, sent, cause, result>>
  <2>1. PICK a : /\ \E answer \in Answers(url.host) : a \in answer
                 /\ permitted(a) /\ target' = normalise_address(a)
    BY <1>4
  <2>2. a \in Addresses
    BY <1>1, <2>1, LiteralAssumption DEF Answers
  <2>3. UNCHANGED <<cfg, operator, op, url, redirects, sent, cause>> /\ UNCHANGED input
        /\ pc' = "pinned"
    BY <1>4 DEF input
  <2>4. normalise_address(a) \in Addresses
    BY <2>2 DEF normalise_address, Addresses
  <2>5. CallTyped' /\ Places' /\ OwnUrl' /\ Unsolicited'
    BY <1>1, <2>1, <2>3, <2>4 DEF CallInv, CallTyped, Places, OwnUrl, Unsolicited
  <2>6. Permitted(url, target')
    BY <1>1, <1>4, <2>1, <2>2, ValidatedIsPermitted
  <2>7. Guarded'
    BY <2>3, <2>6, SettingsKept DEF CallInv, Guarded
  <2>8. RequestsCounted'
    BY <1>1, <2>3, SettingsKept DEF CallInv, RequestsCounted
  <2>9. RefusedMeansUnsent' /\ ValidatedConfigDispatches'
    BY <2>3, SettingsKept DEF CallInv, RefusedMeansUnsent, ValidatedConfigDispatches
  <2> QED
    BY <2>5, <2>7, <2>8, <2>9 DEF CallInv
<1> QED
  BY <1>2, <1>3, <1>4 DEF ValidateUrl

LEMMA ConnectCallInv ==
  ASSUME CallInv, Connect
  PROVE  CallInv'
<1> DEFINE request == [url |-> url, address |-> target]
<1>1. /\ pc = "pinned" /\ pc' = "waiting" /\ sent' = Append(sent, request)
      /\ UNCHANGED <<cfg, operator, op, url, redirects, target, cause>> /\ UNCHANGED input
  BY DEF Connect, input
<1>2. request \in Sent /\ sent \in Seq(Sent) /\ Permitted(url, target)
  BY <1>1 DEF CallInv, CallTyped, Guarded, Sent
<1>3. /\ sent' \in Seq(Sent) /\ Len(sent') = Len(sent) + 1
      /\ Len(sent) \in Nat /\ Len(sent') \in Nat
      /\ DOMAIN sent = 1..Len(sent) /\ DOMAIN sent' = 1..Len(sent')
      /\ \A i \in 1..Len(sent) : sent'[i] = sent[i]
      /\ sent'[Len(sent) + 1] = request
  BY <1>1, <1>2, AppendProperties, LenProperties
<1>4. CallTyped' /\ Places' /\ OwnUrl'
  BY <1>1, <1>3 DEF CallInv, CallTyped, Places, OwnUrl
<1>5. ~(cfg.kind = "webhook" /\ op = "health")
  BY <1>1 DEF CallInv, Unsolicited
<1>6. RequestsCounted'
  <2>1. redirects \in Nat /\ redirects <= Budget /\ Len(sent) <= redirects
    BY <1>1 DEF CallInv, CallTyped, RequestsCounted
  <2>2. Budget' = Budget
    BY <1>1, SettingsKept
  <2> QED
    BY <1>1, <1>3, <2>1, <2>2 DEF RequestsCounted
<1>7. Guarded'
  <2>1. ASSUME NEW i \in DOMAIN sent'
        PROVE  Permitted(sent'[i].url, sent'[i].address)
    <3>1. CASE i \in 1..Len(sent)
      BY <1>3, <3>1 DEF CallInv, Guarded
    <3>2. CASE i = Len(sent) + 1
      BY <1>2, <1>3, <3>2
    <3> QED
      BY <1>3, <3>1, <3>2
  <2> QED
    BY <1>1, <2>1, SettingsKept DEF Guarded
<1>8. RefusedMeansUnsent' /\ ValidatedConfigDispatches'
  BY <1>1, <1>5, SettingsKept
  DEF CallInv, Places, RefusedMeansUnsent, ValidatedConfigDispatches
<1> QED
  BY <1>1, <1>4, <1>5, <1>6, <1>7, <1>8 DEF CallInv, Unsolicited

LEMMA RedirectedCallInv ==
  ASSUME CallInv, NEW location \in Urls, Redirected(location)
  PROVE  CallInv'
<1>1. /\ pc = "waiting" /\ cfg.kind \in Known /\ redirects \in Nat
      /\ cfg \in Configs /\ operator \in Operators
      /\ sent \in Seq(Sent) /\ Len(sent) \in Nat
  BY LenProperties DEF Redirected, CallInv, CallTyped, Places
<1>2. policy.redirects \in Nat /\ policy.redirects <= Budget
  BY <1>1, PolicyNarrows
<1>3. CASE redirects + 1 > policy.redirects
  <2>1. PICK what : Finish("TOO_MANY_REDIRECTS", what)
    BY <1>3 DEF Redirected, Raise
  <2> QED
    BY <2>1, FinishCallInv DEF Early, Avoidable
<1>4. CASE redirects + 1 <= policy.redirects
  <2>1. /\ pc' = "resolve" /\ url' = location /\ redirects' = redirects + 1
        /\ UNCHANGED <<cfg, operator, op, target, sent, cause>> /\ UNCHANGED input
    BY <1>1, <1>2, <1>4 DEF Redirected, input
  <2>2. Budget \in Nat /\ redirects + 1 <= Budget
    BY <1>1, <1>2, <1>4, OperatorAssumption DEF Budget
  <2>3. cfg.kind = "http"
    BY <1>1, <2>2 DEF Budget
  <2>4. CallTyped' /\ Places' /\ OwnUrl' /\ Unsolicited'
    BY <1>1, <2>1, <2>3 DEF CallInv, CallTyped, Places, OwnUrl, Unsolicited
  <2>5. RequestsCounted'
    <3>1. Len(sent) <= redirects + 1
      BY <1>1 DEF CallInv, RequestsCounted
    <3> QED
      BY <1>1, <2>1, <2>2, <3>1, SettingsKept DEF RequestsCounted
  <2>6. Guarded'
    BY <2>1, SettingsKept DEF CallInv, Guarded
  <2>7. RefusedMeansUnsent' /\ ValidatedConfigDispatches'
    BY <1>1, <2>1, <2>3 DEF CallInv, Places, RefusedMeansUnsent, ValidatedConfigDispatches
  <2> QED
    BY <2>4, <2>5, <2>6, <2>7 DEF CallInv
<1> QED
  BY <1>1, <1>2, <1>3, <1>4

LEMMA FailedCallInv ==
  ASSUME CallInv, Failed
  PROVE  CallInv'
<1>1. PICK why \in {"NO_LOCATION", "UPSTREAM_TIMEOUT", "UPSTREAM_UNAVAILABLE"} :
           \E what : Finish(why, what)
  BY DEF Failed, Raise
<1> QED
  BY <1>1, FinishCallInv DEF Early, Avoidable

LEMMA RespondedCallInv ==
  ASSUME CallInv, NEW status, NEW type, NEW large \in BOOLEAN, Responded(status, type, large)
  PROVE  CallInv'
<1>1. PICK why \in {"CONTENT_TYPE_REJECTED", "RESPONSE_TOO_LARGE", "none",
                    "UPSTREAM_UNAVAILABLE", "UPSTREAM_CLIENT_ERROR", "UPSTREAM_ERROR"} :
           \E what : Finish(why, what)
  <2>1. code_for(status) \in {"UPSTREAM_UNAVAILABLE", "UPSTREAM_CLIENT_ERROR", "UPSTREAM_ERROR"}
    BY DEF code_for
  <2>2. CASE type \notin policy.types \cup {NoType}
    BY <2>2 DEF Responded, Raise
  <2>3. CASE type \in policy.types \cup {NoType} /\ large
    BY <2>3 DEF Responded, Raise
  <2>4. CASE type \in policy.types \cup {NoType} /\ ~large
    <3>1. CASE op = "health"
      BY <2>4, <3>1 DEF Responded
    <3>2. CASE op # "health" /\ status = "2xx"
      BY <2>4, <3>2 DEF Responded
    <3>3. CASE op # "health" /\ status # "2xx"
      BY <2>1, <2>4, <3>3 DEF Responded, Refuse
    <3> QED
      BY <3>1, <3>2, <3>3
  <2> QED
    BY <2>2, <2>3, <2>4
<1> QED
  BY <1>1, FinishCallInv DEF Early, Avoidable

LEMMA NextCallInv == CallInv /\ [Next]_vars => CallInv'
<1> SUFFICES ASSUME CallInv, [Next]_vars PROVE CallInv'
  OBVIOUS
<1>1. CASE Next
  BY <1>1, UnknownKindCallInv, BeginCallInv, ResolveSecretCallInv, ValidateUrlCallInv,
     ConnectCallInv, RedirectedCallInv, FailedCallInv, RespondedCallInv DEF Next
<1>2. CASE UNCHANGED vars
  <2>1. UNCHANGED <<cfg, operator, op, pc, url, redirects, target, sent, cause>>
        /\ UNCHANGED input
    BY <1>2 DEF vars, input
  <2>2. CallTyped' /\ Places' /\ OwnUrl' /\ Unsolicited'
    BY <2>1 DEF CallInv, CallTyped, Places, OwnUrl, Unsolicited
  <2>3. RequestsCounted' /\ Guarded'
    BY <2>1, SettingsKept DEF CallInv, RequestsCounted, Guarded
  <2>4. RefusedMeansUnsent' /\ ValidatedConfigDispatches'
    BY <2>1, SettingsKept DEF CallInv, RefusedMeansUnsent, ValidatedConfigDispatches
  <2> QED
    BY <2>2, <2>3, <2>4 DEF CallInv
<1> QED
  BY <1>1, <1>2

LEMMA AlwaysCallInv == Spec => []CallInv
<1> QED
  BY InitCallInv, NextCallInv, PTL DEF Spec

-----------------------------------------------------------------------------
(* The theorems *)

\* Whatever the connector asks for, the resolver answers and the provider
\* redirects to, outbound.request connects only to addresses, hosts and
\* schemes that the operator's settings permit: build_policy only narrows
\* them, validate_url runs on every hop, and the address it checked is the
\* one that is connected to.
THEOREM ReachesPermitted == Spec => []ReachesOnlyPermitted
<1>1. CallInv => ReachesOnlyPermitted
  BY DEF CallInv, Guarded, Permitted, HostPermitted, SchemePermitted, AddressPermitted,
         ReachesOnlyPermitted
<1> QED
  BY <1>1, AlwaysCallInv, PTL

\* The redirect loop of outbound.request makes at most one request more than
\* the operator's redirects, and exactly one for a webhook or internal
\* connector, whatever max_redirects the connector's config asks for.
THEOREM HopsLimited == Spec => []HopsBounded
<1>1. CallInv => HopsBounded
  <2> SUFFICES ASSUME CallInv PROVE HopsBounded
    OBVIOUS
  <2>1. /\ redirects \in Nat /\ redirects <= Budget /\ Budget \in Nat
        /\ Len(sent) <= redirects + (IF pc \in {"waiting", "done"} THEN 1 ELSE 0)
    BY OperatorAssumption DEF CallInv, CallTyped, RequestsCounted, Budget
  <2>2. Len(sent) \in Nat
    BY LenProperties DEF CallInv, CallTyped
  <2>3. Len(sent) <= 1 + Budget
    BY <2>1, <2>2
  <2> QED
    BY <2>3 DEF HopsBounded, Budget
<1> QED
  BY <1>1, AlwaysCallInv, PTL

\* The failures that an adapter reports before outbound.request (no adapter,
\* no service, no operation, no time left, no secret) come with nothing
\* sent, and health_check of the webhook never sends anything.
THEOREM RefusedUnsent == Spec => []RefusedMeansUnsent
<1> QED
  BY AlwaysCallInv, PTL DEF CallInv

\* A config that validate_config accepts under the settings in force is not
\* refused for itself by invoke, under any settings.
THEOREM ConfigDispatches == Spec => []ValidatedConfigDispatches
<1> QED
  BY AlwaysCallInv, PTL DEF CallInv
=============================================================================
