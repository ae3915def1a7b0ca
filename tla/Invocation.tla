------------------------------ MODULE Invocation ------------------------------
(***************************************************************************)
(* The invocation runtime of services/connector-registry                   *)
(* (app/invocations.py and the two invoke endpoints of app/main.py): the   *)
(* invocations table, the events staged with it, and the handlers that     *)
(* run a provider call under an idempotency key while other handlers use   *)
(* the same key and administrators move the connector through its          *)
(* lifecycle.                                                              *)
(*                                                                         *)
(* A handler awaits the database or the provider between its steps, so     *)
(* every step is an action of its own: read the connector, look the key    *)
(* up, insert the row (a second insert of the key waits on the unique      *)
(* index), commit it, commit the start, call the provider, commit the      *)
(* outcome.  An idempotency key stands for the whole unique key (tenant,   *)
(* connector, idempotency_key).                                            *)
(***************************************************************************)
EXTENDS Lifecycle, Naturals, Sequences

CONSTANTS
  Connectors,
  Keys,
  ConnectorOf,   \* the connector each key belongs to
  Handlers,      \* requests that may be in flight at once
  MaxCrashes     \* bound on worker deaths

ASSUME ConnectorOfAssumption == ConnectorOf \in [Keys -> Connectors]
ASSUME CrashAssumption == MaxCrashes \in Nat

VARIABLES
  connector,   \* connectors.status
  row,         \* invocations.status, or "none"
  version,     \* invocations.aggregate_version
  events,      \* outbox events staged for the invocation
  pc, key, path,   \* each handler: where it is, its key, its endpoint
  calls,       \* how often the provider was called under the key
  answers,     \* every HTTP status returned under the key
  crashes

table == <<row, version, events>>
vars  == <<connector, row, version, events, pc, key, path, calls, answers, crashes>>

InFlight == {"accepted", "running"}
Terminal == {"succeeded", "failed_retryable", "failed_terminal", "timed_out"}
Paths    == {"v1", "internal"}

Init ==
  /\ connector = [c \in Connectors |-> "enabled"]
  /\ row       = [k \in Keys |-> "none"]
  /\ version   = [k \in Keys |-> 0]
  /\ events    = [k \in Keys |-> <<>>]
  /\ pc        = [h \in Handlers |-> "idle"]
  /\ key       \in [Handlers -> Keys]
  /\ path      = [h \in Handlers |-> "v1"]
  /\ calls     = [k \in Keys |-> 0]
  /\ answers   = [k \in Keys |-> {}]
  /\ crashes   = 0

-----------------------------------------------------------------------------

\* _http_status_for.
http_status_for(s) ==
  CASE s = "succeeded" -> 200
    [] s = "timed_out" -> 504
    [] s \in InFlight  -> 202
    [] OTHER           -> 502

\* _REFUSAL, consulted once is_executable has said no.
refusal(s) ==
  CASE s = "revoked"                -> 403
    [] s \in {"archived", "deleted"} -> 410
    [] OTHER                        -> 409

Goto(h, l) == pc' = [pc EXCEPT ![h] = l]

Reply(h, k, code) ==
  /\ Goto(h, "idle")
  /\ answers' = [answers EXCEPT ![k] = @ \cup {code}]

\* A committed change of the invocation row, with its event (_emit).
Save(k, s, subject) ==
  /\ row'     = [row EXCEPT ![k] = s]
  /\ version' = [version EXCEPT ![k] = @ + 1]
  /\ events'  = [events EXCEPT ![k] =
                   Append(@, [version |-> version[k] + 1, subject |-> subject])]

-----------------------------------------------------------------------------

\* The endpoint loads the connector, without a lock, and check_executable.
Request(h, k, p) ==
  LET s == connector[ConnectorOf[k]] IN
  /\ pc[h] = "idle"
  /\ key'  = [key EXCEPT ![h] = k]
  /\ path' = [path EXCEPT ![h] = p]
  /\ IF is_executable(s)
     THEN Goto(h, "admitted") /\ UNCHANGED answers
     ELSE Reply(h, k, refusal(s))
  /\ UNCHANGED <<connector, table, calls, crashes>>

\* Mutant: a replay of a finished invocation is always a 200.
MutantLookup(h) ==
  /\ pc[h] = "admitted"
  /\ IF row[key[h]] = "none"
     THEN Goto(h, "missed") /\ UNCHANGED answers
     ELSE Reply(h, key[h], IF row[key[h]] \in InFlight THEN 202 ELSE 200)
  /\ UNCHANGED <<connector, table, key, path, calls, crashes>>

\* accept: find_existing.  An existing row is replayed as it stands.
Lookup(h) ==
  /\ pc[h] = "admitted"
  /\ IF row[key[h]] = "none"
     THEN Goto(h, "missed") /\ UNCHANGED answers
     ELSE Reply(h, key[h], http_status_for(row[key[h]]))
  /\ UNCHANGED <<connector, table, key, path, calls, crashes>>

\* Mutant: nothing keeps two open transactions from inserting the key.
MutantKeyUnlocked(k) == FALSE

\* Mutant: the key is locked as soon as it has been looked up.
MutantKeyLocked(k) == \E g \in Handlers : pc[g] \in {"missed", "inserted"} /\ key[g] = k

\* uq_invocations_idempotency: an insert of a key waits for the open
\* transaction that inserted it first.
KeyLocked(k) == \E g \in Handlers : pc[g] = "inserted" /\ key[g] = k

\* Mutant: no unique constraint; the insert always succeeds.
MutantInsert(h) ==
  /\ pc[h] = "missed"
  /\ ~KeyLocked(key[h])
  /\ Goto(h, "inserted")
  /\ UNCHANGED <<connector, table, key, path, calls, answers, crashes>>

\* accept: the flush.  On IntegrityError the session is rolled back and the
\* winner's row replayed; the rollback has expired the connector the
\* internal endpoint still reads (record.kind), so that endpoint raises.
Insert(h) ==
  LET k == key[h] IN
  /\ pc[h] = "missed"
  /\ ~KeyLocked(k)
  /\ IF row[k] = "none"
     THEN Goto(h, "inserted") /\ UNCHANGED answers
     ELSE Reply(h, k, IF path[h] = "internal" THEN 500
                                              ELSE http_status_for(row[k]))
  /\ UNCHANGED <<connector, table, key, path, calls, crashes>>

\* accept: the commit of the row with its event.
Accept(h) ==
  /\ pc[h] = "inserted"
  /\ Save(key[h], "accepted", "accepted")
  /\ Goto(h, "accepted")
  /\ UNCHANGED <<connector, key, path, calls, answers, crashes>>

\* Mutant: the name of the event is stored as the status.
MutantFinaliseStatus(h, outcome) ==
  LET name == IF outcome \in {"succeeded", "timed_out"} THEN outcome ELSE "failed" IN
  /\ Save(key[h], name, name)
  /\ Reply(h, key[h], http_status_for(outcome))
  /\ UNCHANGED <<connector, key, path, calls, crashes>>

\* Mutant: a timeout is answered but not recorded.
MutantFinaliseTimeout(h, outcome) ==
  /\ IF outcome = "timed_out" THEN UNCHANGED table
     ELSE Save(key[h], outcome, IF outcome = "succeeded" THEN outcome ELSE "failed")
  /\ Reply(h, key[h], http_status_for(outcome))
  /\ UNCHANGED <<connector, key, path, calls, crashes>>

\* _finalise, after which the endpoint answers.
Finalise(h, outcome) ==
  /\ Save(key[h], outcome,
          IF outcome \in {"succeeded", "timed_out"} THEN outcome ELSE "failed")
  /\ Reply(h, key[h], http_status_for(outcome))
  /\ UNCHANGED <<connector, key, path, calls, crashes>>

\* execute: no adapter is registered for the kind of the connector.
UnknownKind(h) == pc[h] = "accepted" /\ Finalise(h, "failed_terminal")

\* Mutant: the start is stored without its event.
MutantStart(h) ==
  /\ pc[h] = "accepted"
  /\ row' = [row EXCEPT ![key[h]] = "running"]
  /\ Goto(h, "running")
  /\ UNCHANGED <<connector, version, events, key, path, calls, answers, crashes>>

\* execute: running, committed before the adapter is called.
Start(h) ==
  /\ pc[h] = "accepted"
  /\ Save(key[h], "running", "started")
  /\ Goto(h, "running")
  /\ UNCHANGED <<connector, key, path, calls, answers, crashes>>

\* The adapter refuses the request itself (no budget left, policy, missing
\* secret, connection error): nothing reached the provider.
NotSent(h, outcome) ==
  /\ pc[h] = "running"
  /\ outcome \in Terminal \ {"succeeded"}
  /\ Finalise(h, outcome)

\* adapter.invoke sends the request.
Send(h) ==
  /\ pc[h] = "running"
  /\ calls' = [calls EXCEPT ![key[h]] = @ + 1]
  /\ Goto(h, "calling")
  /\ UNCHANGED <<connector, table, key, path, answers, crashes>>

\* The provider answers, asyncio.wait_for gives up, or the adapter raises.
Return(h, outcome) == pc[h] = "calling" /\ Finalise(h, outcome)

\* The worker dies: open transaction and handler are gone, the row stays.
Crash(h) ==
  /\ pc[h] # "idle"
  /\ crashes < MaxCrashes
  /\ crashes' = crashes + 1
  /\ Goto(h, "idle")
  /\ UNCHANGED <<connector, table, key, path, calls, answers>>

-----------------------------------------------------------------------------

\* The lifecycle side of the service: a transition, or the DELETE endpoint.
\* ConnectorRegistry has the detail.
Administer(c) ==
  /\ \E s \in States \ {connector[c]} :
       /\ \/ \E e \in TRANSITIONS : e.source = connector[c] /\ e.target = s
          \/ s = "deletion_requested" /\ connector[c] # "deleted"
       /\ connector' = [connector EXCEPT ![c] = s]
  /\ UNCHANGED <<table, pc, key, path, calls, answers, crashes>>

-----------------------------------------------------------------------------

Step(h) ==
  \/ Lookup(h) \/ Insert(h) \/ Accept(h) \/ UnknownKind(h) \/ Start(h) \/ Send(h)
  \/ \E outcome \in Terminal : NotSent(h, outcome) \/ Return(h, outcome)

Next ==
  \/ \E c \in Connectors : Administer(c)
  \/ \E h \in Handlers :
       \/ Step(h) \/ Crash(h)
       \/ \E k \in Keys, p \in Paths : Request(h, k, p)

Spec == Init /\ [][Next]_vars

\* A handler whose worker lives is scheduled until it has answered; the
\* provider call ends because asyncio.wait_for bounds it.  No fairness for
\* new requests, administrators or crashes.
FairSpec == Spec /\ \A h \in Handlers : WF_vars(Step(h))

-----------------------------------------------------------------------------
(* Properties *)

Locations == {"idle", "admitted", "missed", "inserted", "accepted", "running", "calling"}

\* Every variable holds a value of the column or handler state it models.
TypeOK ==
  /\ connector \in [Connectors -> States]
  /\ row \in [Keys -> {"none"} \cup InFlight \cup Terminal]
  /\ version \in [Keys -> Nat]
  /\ events \in [Keys -> Seq([version : Nat,
       subject : {"accepted", "started", "succeeded", "timed_out", "failed"}])]
  /\ pc \in [Handlers -> Locations]
  /\ key \in [Handlers -> Keys]
  /\ path \in [Handlers -> Paths]
  /\ calls \in [Keys -> Nat]
  /\ answers \in [Keys -> SUBSET {200, 202, 403, 409, 410, 500, 502, 504}]
  /\ crashes \in 0..MaxCrashes

\* "rather than starting a second provider-side effect" (main.py): under one
\* idempotency key the provider is called at most once, whatever handlers
\* race and whichever of them die, and only when the start is on record.
AtMostOneCall ==
  \A k \in Keys : /\ calls[k] <= 1
                  /\ calls[k] = 1 => row[k] \in Terminal \cup {"running"}

\* At most one handler works on the row of a key, so that execute and
\* _finalise may use the row they hold without locking or re-reading it.
OneOwner ==
  \A g, h \in Handlers :
    /\ {pc[g], pc[h]} \subseteq {"inserted", "accepted", "running", "calling"}
    /\ key[g] = key[h]
    => g = h

\* A recorded outcome is never overwritten.
OutcomeIsFinal ==
  [][\A k \in Keys : row[k] \in Terminal => row'[k] = row[k] /\ events'[k] = events[k]]_vars

\* Fresh answers and replays agree (_http_status_for on the bug it was
\* factored out for): every final answer ever given under a key, by any
\* handler, is the one the recorded outcome stands for.
AnswersAgree ==
  \A k \in Keys : answers[k] \cap {200, 502, 504} \subseteq {http_status_for(row[k])}

\* "an invocation that exists always has an accepted event, and vice versa":
\* the events of an invocation are accepted, started and one outcome, in
\* version order without gaps, and say the status the row is in.
EventsTellTheStatus ==
  \A k \in Keys :
    LET n == Len(events[k]) IN
    /\ version[k] = n
    /\ \A i \in 1..n : events[k][i].version = i
    /\ n = 0 <=> row[k] = "none"
    /\ n >= 1 => events[k][1].subject = "accepted"
    /\ n = 1 <=> row[k] = "accepted"
    /\ row[k] = "running" => n = 2 /\ events[k][2].subject = "started"
    /\ row[k] \in Terminal =>
         /\ n = 2 => row[k] = "failed_terminal"
         /\ n = 3 => events[k][2].subject = "started"
         /\ n \in {2, 3}
         /\ events[k][n].subject =
              IF row[k] \in {"succeeded", "timed_out"} THEN row[k] ELSE "failed"

\* The connector serves nothing new: no handler read it before.
Quiet(c) == \A h \in Handlers : ConnectorOf[key[h]] = c => pc[h] = "idle"

\* "a connector revoked between two requests cannot serve the second"
\* (lifecycle.py): once a connector is revoked and the requests that read it
\* earlier are over, no provider call is ever made through it again.
RevocationStopsNewUse ==
  \A k \in Keys : LET c == ConnectorOf[k] IN
    /\ [](connector[c] = "revoked" /\ Quiet(c) /\ calls[k] = 0 => [](calls[k] = 0))
    /\ [](connector[c] = "revoked" /\ Quiet(c) /\ row[k] = "none" => [](row[k] = "none"))

\* An accepted invocation reaches an outcome unless a worker dies, however
\* slow its provider is, whoever else uses the key and wherever the connector
\* is moved meanwhile.  (After a death nothing picks the row up again.)
EveryInvocationEnds ==
  \A k \in Keys : row[k] \in InFlight ~> (row[k] \in Terminal \/ crashes > 0)

\* Every request is answered, or dies with its worker: nobody waits for ever
\* on the unique index, not even behind a handler that died holding the key.
EveryRequestAnswered ==
  \A h \in Handlers : pc[h] # "idle" ~> pc[h] = "idle"

-----------------------------------------------------------------------------
(* What the documentation says and the code does not do; see README.md. *)

\* invocations.py, on the handler that lost the race for a key: "Reuse its
\* row": it replays the winner's row and does not fail.
RaceIsReplayed == \A k \in Keys : 500 \notin answers[k]
=============================================================================
