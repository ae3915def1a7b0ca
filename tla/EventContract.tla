---------------------------- MODULE EventContract ----------------------------
(***************************************************************************)
(* The consumer side of the event contract, favl_outbox/consumer.py: how   *)
(* the payload of a message is classified, and the monotonicity rule for a *)
(* consumer that projects an aggregate.  Pure operators.                   *)
(***************************************************************************)
EXTENDS Integers

\* aggregate_version or last_applied is None.
NoVersion == -1

CURRENT_SCHEMA_VERSION == 1

\* What a payload carries: its schema_version (NoVersion if it is missing),
\* whether event_id and event_type are there, and aggregate_version.
Payload(schema, complete, version) ==
  [schema |-> schema, complete |-> complete, version |-> version]

\* parse_event: a missing schema_version is the legacy format, which has no
\* version whatever the body holds; an unknown one and a v1 envelope without
\* its required fields raise EventParseError.
Rejected(p) ==
  \/ p.schema \notin {NoVersion, CURRENT_SCHEMA_VERSION}
  \/ p.schema = CURRENT_SCHEMA_VERSION /\ ~p.complete

parse_event(p) == IF p.schema = NoVersion THEN NoVersion ELSE p.version

\* Mutant: any newer version is applied.
MutantDecisionGap(incoming, last_applied) ==
  CASE incoming = NoVersion     -> "quarantine"
    [] incoming > last_applied  -> "apply"
    [] OTHER                    -> "ignore"

\* version_decision.
version_decision(incoming, last_applied) ==
  CASE incoming = NoVersion -> "quarantine"
    [] incoming # NoVersion /\ last_applied = NoVersion ->
         IF incoming = 1 THEN "apply" ELSE "quarantine"
    [] OTHER ->
         IF incoming <= last_applied THEN "ignore"
         ELSE IF incoming = last_applied + 1 THEN "apply"
         ELSE "quarantine"
=============================================================================
