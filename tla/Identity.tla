-------------------------------- MODULE Identity --------------------------------
(***************************************************************************)
(* Who a request is from: identity.py, the same in both services, and the  *)
(* shared credential of the internal surface.  Pure operators.             *)
(*                                                                         *)
(* The gateway sets X-Userinfo from a token it has verified, and the       *)
(* identity provider decides which tenant a subject belongs to, if any:    *)
(* both are external.                                                      *)
(***************************************************************************)

CONSTANTS
  Tenants,
  DEFAULT_TENANT,
  Subjects,
  TenantOf,     \* the tenant claim of each subject's token
  NoClaim       \* a claim, token or identity that is not there

ASSUME IdentityAssumption ==
  /\ DEFAULT_TENANT \in Tenants
  /\ NoClaim \notin Tenants \cup Subjects
  /\ "anonymous" \notin Subjects \cup {NoClaim}
  /\ TenantOf \in [Subjects -> Tenants \cup {NoClaim}]

Header(form, sub, tenant) == [form |-> form, sub |-> sub, tenant |-> tenant]

\* X-Userinfo as the services may find it: missing, not a JSON object, claims
\* without a subject, or the claims of a subject.
UserinfoHeaders ==
  {Header(form, NoClaim, NoClaim) : form \in {"missing", "garbage"}}
  \cup {Header("claims", NoClaim, t) : t \in Tenants \cup {NoClaim}}
  \cup {Header("claims", s, TenantOf[s]) : s \in Subjects}

CallerIdentity(actor, tenant) == [actor_id |-> actor, tenant_id |-> tenant]

NoIdentity == CallerIdentity(NoClaim, NoClaim)

\* identity_from_userinfo: no usable claims, no subject or no tenant, no identity.
identity_from_userinfo(h) ==
  IF h.form # "claims" \/ h.sub = NoClaim \/ h.tenant = NoClaim THEN NoIdentity
  ELSE CallerIdentity(h.sub, h.tenant)

\* current_identity; NoIdentity is its 401.
current_identity(h, allow_anonymous) ==
  IF identity_from_userinfo(h) = NoIdentity /\ allow_anonymous
  THEN CallerIdentity("anonymous", DEFAULT_TENANT)
  ELSE identity_from_userinfo(h)

\* require_internal_caller: an unset token closes the surface.
require_internal_caller(presented, configured) ==
  IF configured = NoClaim THEN 503
  ELSE IF presented # configured THEN 401
  ELSE 200
=============================================================================
