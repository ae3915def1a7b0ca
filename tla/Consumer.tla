------------------------------- MODULE Consumer -------------------------------
(***************************************************************************)
(* A consumer that projects aggregates from the event stream with the      *)
(* contract of favl_outbox/consumer.py.  The stream is at-least-once: it   *)
(* hands over the messages it holds in any order and as often as it likes, *)
(* legacy and foreign messages among them.  What the consumer does with a  *)
(* decision is external to the repository: the library only decides.       *)
(***************************************************************************)
EXTENDS EventContract, Sequences

CONSTANTS
  Aggregates,
  MaxVersion    \* bound on aggregate_version

VARIABLES
  produced,   \* how many versions of each aggregate its service has emitted
  last,       \* last_applied
  applied,    \* the versions applied to the projection, in order
  aside       \* the versions set aside at the moment

vars == <<produced, last, applied, aside>>

\* Messages the stream may hold for an aggregate that has reached version n:
\* v1 events, malformed envelopes, unknown schemas, and legacy bodies that
\* may happen to hold a field called aggregate_version.
Messages(n) ==
  {Payload(s, c, v) : s \in {NoVersion, 1, 2}, c \in BOOLEAN, v \in 1..n}

Init ==
  /\ produced = [a \in Aggregates |-> 0]
  /\ last     = [a \in Aggregates |-> NoVersion]
  /\ applied  = [a \in Aggregates |-> <<>>]
  /\ aside    = [a \in Aggregates |-> {}]

\* The producing service commits the next version.
Produce(a) ==
  /\ produced[a] < MaxVersion
  /\ produced' = [produced EXCEPT ![a] = @ + 1]
  /\ UNCHANGED <<last, applied, aside>>

\* A message the parser accepts, and the decision on it.
Receive(a, p) ==
  LET v == parse_event(p)
      d == version_decision(v, last[a]) IN
  /\ ~Rejected(p)
  /\ last'    = [last EXCEPT ![a] = IF d = "apply" THEN v ELSE @]
  /\ applied' = [applied EXCEPT ![a] = IF d = "apply" THEN Append(@, v) ELSE @]
  /\ aside'   = [aside EXCEPT ![a] = IF d = "quarantine" THEN @ \cup {v} ELSE @ \ {v}]
  /\ UNCHANGED produced

\* EventParseError: counted and dropped.
Reject(a, p) == Rejected(p) /\ UNCHANGED vars

Next ==
  \E a \in Aggregates :
    \/ Produce(a)
    \/ \E p \in Messages(produced[a]) : Receive(a, p) \/ Reject(a, p)

Spec == Init /\ [][Next]_vars

-----------------------------------------------------------------------------
(* Properties *)

\* "applying it would silently skip state": whatever is repeated, reordered,
\* malformed or left over from the legacy format, the projection has applied
\* the versions 1, 2, 3, ... in order and once each, up to last_applied.
ProjectionIsAPrefix ==
  \A a \in Aggregates :
    /\ \A i \in DOMAIN applied[a] : applied[a][i] = i
    /\ Len(applied[a]) <= produced[a]
    /\ last[a] = IF applied[a] = <<>> THEN NoVersion ELSE Len(applied[a])
=============================================================================
