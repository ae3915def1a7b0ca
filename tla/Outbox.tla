-------------------------------- MODULE Outbox --------------------------------
(***************************************************************************)
(* The transactional outbox of packages/favl-outbox: the outbox_events     *)
(* table, the publisher loop that every replica of a service runs over it, *)
(* and the JetStream connection the loop publishes through.                *)
(*                                                                         *)
(* drain_once is one database transaction that spans many awaits: it locks *)
(* a batch (FOR UPDATE SKIP LOCKED), publishes the rows one by one and     *)
(* writes every outcome at the commit.  The outcomes live in `acked' and   *)
(* `failed' until then, and a rollback or a crash discards them all.       *)
(*                                                                         *)
(* Time is abstract: a failed row is not due until BecomeDue says its      *)
(* backoff has passed, and the duplicate window of the stream is assumed   *)
(* to cover every republish.  That is what favl_outbox/timing checks at    *)
(* startup: RetryHorizon has the clock and checks the check.               *)
(***************************************************************************)
EXTENDS Naturals, Sequences, FiniteSets

CONSTANTS
  Rows,                \* outbox row ids; each doubles as the Nats-Msg-Id
  Publishers,          \* replicas running OutboxPublisher
  BatchSize,
  PolicyMaxAttempts,   \* retry_policy.max_attempts
  RowMaxAttempts,      \* outbox_events.max_attempts
  Lossy,               \* may a publish on a live connection go unanswered?
  MaxFaults            \* bound on broker outages, restarts and rollbacks

ASSUME BatchAssumption   == BatchSize \in Nat \ {0}
ASSUME AttemptAssumption == /\ PolicyMaxAttempts \in Nat \ {0}
                            /\ RowMaxAttempts \in Nat \ {0}
ASSUME FaultAssumption   == MaxFaults \in Nat /\ Lossy \in BOOLEAN
ASSUME RowsAssumption    == IsFiniteSet(Rows)

VARIABLES
  status,     \* outbox_events.status, or "absent"
  attempts,   \* outbox_events.attempts
  due,        \* next_attempt_at <= now
  born,       \* rank of created_at
  claimed,    \* rows a publisher has locked and not tried yet
  acked,      \* rows it published in the open transaction
  failed,     \* rows whose publish raised in the open transaction
  conn,       \* the publisher's JetStreamConnection
  brokerUp,
  wire,       \* publishes sent whose answer nobody waits for any more
  stream,     \* the stream, in storage order
  faults

table == <<status, attempts, due, born>>
txn   == <<claimed, acked, failed>>
vars  == <<status, attempts, due, born, claimed, acked, failed, conn,
           brokerUp, wire, stream, faults>>

Init ==
  /\ status   = [m \in Rows |-> "absent"]
  /\ attempts = [m \in Rows |-> 0]
  /\ due      = [m \in Rows |-> FALSE]
  /\ born     = [m \in Rows |-> 0]
  /\ claimed  = [p \in Publishers |-> {}]
  /\ acked    = [p \in Publishers |-> {}]
  /\ failed   = [p \in Publishers |-> {}]
  /\ brokerUp \in BOOLEAN
  /\ conn     = [p \in Publishers |-> IF brokerUp THEN "up" ELSE "none"]
  /\ wire     = {}
  /\ stream   = <<>>
  /\ faults   = 0

-----------------------------------------------------------------------------
(* enqueue, when the caller's transaction commits.  created_at was taken    *)
(* when the row was flushed, so commits need not come in its order.         *)

Enqueue(m) ==
  /\ status[m] = "absent"
  /\ status' = [status EXCEPT ![m] = "pending"]
  /\ due'    = [due EXCEPT ![m] = TRUE]
  /\ \E rank \in 1..Cardinality(Rows) :
       /\ \A n \in Rows : born[n] # rank
       /\ born' = [born EXCEPT ![m] = rank]
  /\ UNCHANGED <<attempts, txn, conn, brokerUp, wire, stream, faults>>

\* The backoff of a failed row has passed.
BecomeDue(m) ==
  /\ status[m] = "pending" /\ ~due[m]
  /\ due' = [due EXCEPT ![m] = TRUE]
  /\ UNCHANGED <<status, attempts, born, txn, conn, brokerUp, wire, stream, faults>>

-----------------------------------------------------------------------------
(* drain_once *)

\* The rows locked by the open transaction of p.
Locked(p) == claimed[p] \cup acked[p] \cup failed[p]

\* Mutant: the claim query without FOR UPDATE SKIP LOCKED.
MutantEligibleUnlocked == {m \in Rows : status[m] = "pending" /\ due[m]}

\* Mutant: the claim query returns only rows that were never tried.
MutantEligibleFresh ==
  {m \in Rows : /\ status[m] = "pending" /\ due[m] /\ attempts[m] = 0
                /\ \A p \in Publishers : m \notin Locked(p)}

\* The rows the claim query may return: pending, due, and not locked.
Eligible ==
  {m \in Rows : /\ status[m] = "pending"
                /\ due[m]
                /\ \A p \in Publishers : m \notin Locked(p)}

\* ORDER BY created_at LIMIT BatchSize.
Claim(p) ==
  /\ Locked(p) = {}
  /\ \E batch \in SUBSET Eligible :
       /\ batch # {}
       /\ Cardinality(batch) <= BatchSize
       /\ Cardinality(batch) < BatchSize => batch = Eligible
       /\ \A m \in batch, n \in Eligible \ batch : born[m] < born[n]
       /\ claimed' = [claimed EXCEPT ![p] = batch]
  /\ UNCHANGED <<table, acked, failed, conn, brokerUp, wire, stream, faults>>

Oldest(p, m) == m \in claimed[p] /\ \A n \in claimed[p] : born[m] <= born[n]

\* The stream keeps one message per Nats-Msg-Id; a repeat is acknowledged
\* as a duplicate.
Stored(m) == \E i \in DOMAIN stream : stream[i] = m
Store(m)  == stream' = IF Stored(m) THEN stream ELSE Append(stream, m)

\* _publish_row, acknowledged.
PublishAcked(p, m) ==
  /\ Oldest(p, m)
  /\ conn[p] = "up"
  /\ Store(m)
  /\ claimed' = [claimed EXCEPT ![p] = @ \ {m}]
  /\ acked'   = [acked EXCEPT ![p] = @ \cup {m}]
  /\ UNCHANGED <<table, failed, conn, brokerUp, wire, faults>>

\* Mutant: the exception of a failed publish is swallowed.
MutantPublishFailed(p, m) ==
  /\ Oldest(p, m)
  /\ \/ conn[p] # "up" /\ UNCHANGED wire
     \/ conn[p] = "up" /\ Lossy /\ wire' = wire \cup {m}
  /\ claimed' = [claimed EXCEPT ![p] = @ \ {m}]
  /\ acked'   = [acked EXCEPT ![p] = @ \cup {m}]
  /\ UNCHANGED <<table, failed, conn, brokerUp, stream, faults>>

\* _publish_row, raising: at once on a connection that is not ready, or on a
\* timeout, in which case the message may still be on its way.
PublishFailed(p, m) ==
  /\ Oldest(p, m)
  /\ \/ conn[p] # "up" /\ UNCHANGED wire
     \/ conn[p] = "up" /\ Lossy /\ wire' = wire \cup {m}
  /\ claimed' = [claimed EXCEPT ![p] = @ \ {m}]
  /\ failed'  = [failed EXCEPT ![p] = @ \cup {m}]
  /\ UNCHANGED <<table, acked, conn, brokerUp, stream, faults>>

\* _record_failure: the smaller of the two limits dead-letters the row.
limit == IF PolicyMaxAttempts < RowMaxAttempts THEN PolicyMaxAttempts
                                               ELSE RowMaxAttempts

\* Mutant: one attempt too many.
MutantExhausted(m) == attempts[m] + 1 > limit

Exhausted(m) == attempts[m] + 1 >= limit

\* Mutant: a failed row gets a status of its own and is never retried.
MutantCommit(p) ==
  /\ claimed[p] = {}
  /\ Locked(p) # {}
  /\ status'   = [m \in Rows |-> IF m \in acked[p] THEN "published"
                                ELSE IF m \in failed[p] THEN "failed" ELSE status[m]]
  /\ attempts' = [m \in Rows |->
                    IF m \in failed[p] THEN attempts[m] + 1 ELSE attempts[m]]
  /\ acked'    = [acked EXCEPT ![p] = {}]
  /\ failed'   = [failed EXCEPT ![p] = {}]
  /\ UNCHANGED <<due, born, claimed, conn, brokerUp, wire, stream, faults>>

\* The end of the transaction: every outcome of the batch is written.
Commit(p) ==
  /\ claimed[p] = {}
  /\ Locked(p) # {}
  /\ status'   = [m \in Rows |->
                    IF m \in acked[p] THEN "published"
                    ELSE IF m \in failed[p] /\ Exhausted(m) THEN "dead"
                    ELSE status[m]]
  /\ attempts' = [m \in Rows |->
                    IF m \in failed[p] THEN attempts[m] + 1 ELSE attempts[m]]
  /\ due'      = [m \in Rows |->
                    IF m \in failed[p] /\ ~Exhausted(m) THEN FALSE ELSE due[m]]
  /\ acked'    = [acked EXCEPT ![p] = {}]
  /\ failed'   = [failed EXCEPT ![p] = {}]
  /\ UNCHANGED <<born, claimed, conn, brokerUp, wire, stream, faults>>

\* The open transaction is gone, with every outcome it had not written.
Discard(p) ==
  /\ claimed' = [claimed EXCEPT ![p] = {}]
  /\ acked'   = [acked EXCEPT ![p] = {}]
  /\ failed'  = [failed EXCEPT ![p] = {}]

Fault == faults < MaxFaults /\ faults' = faults + 1

\* A database error in drain_once; _run logs it and polls again.
Rollback(p) ==
  /\ Locked(p) # {}
  /\ Fault
  /\ Discard(p)
  /\ UNCHANGED <<table, conn, brokerUp, wire, stream>>

\* The process is killed, or stop cancels the task, and the replica boots
\* again: connect is tried once and a failure leaves no connection at all.
Restart(p) ==
  /\ Fault
  /\ Discard(p)
  /\ conn' = [conn EXCEPT ![p] = IF brokerUp THEN "up" ELSE "none"]
  /\ UNCHANGED <<table, brokerUp, wire, stream>>

-----------------------------------------------------------------------------
(* The broker and the network (external). *)

BrokerDown ==
  /\ brokerUp
  /\ Fault
  /\ brokerUp' = FALSE
  /\ conn' = [p \in Publishers |-> IF conn[p] = "up" THEN "down" ELSE conn[p]]
  /\ UNCHANGED <<table, txn, wire, stream>>

BrokerReturns ==
  /\ ~brokerUp
  /\ brokerUp' = TRUE
  /\ UNCHANGED <<table, txn, conn, wire, stream, faults>>

\* max_reconnect_attempts = -1: an established client reconnects by itself.
Reconnect(p) ==
  /\ brokerUp /\ conn[p] = "down"
  /\ conn' = [conn EXCEPT ![p] = "up"]
  /\ UNCHANGED <<table, txn, brokerUp, wire, stream, faults>>

\* A message whose publisher has given up on it arrives after all, or never.
LateArrival(m) ==
  /\ brokerUp /\ m \in wire
  /\ wire' = wire \ {m}
  /\ Store(m)
  /\ UNCHANGED <<table, txn, conn, brokerUp, faults>>

Lose(m) ==
  /\ m \in wire
  /\ wire' = wire \ {m}
  /\ UNCHANGED <<table, txn, conn, brokerUp, stream, faults>>

-----------------------------------------------------------------------------

Next ==
  \/ BrokerDown \/ BrokerReturns
  \/ \E m \in Rows : Enqueue(m) \/ BecomeDue(m) \/ LateArrival(m) \/ Lose(m)
  \/ \E p \in Publishers :
       \/ Claim(p) \/ Commit(p) \/ Rollback(p) \/ Restart(p) \/ Reconnect(p)
       \/ \E m \in Rows : PublishAcked(p, m) \/ PublishFailed(p, m)

Spec == Init /\ [][Next]_vars

\* One iteration of the publisher loop makes progress: the task is scheduled,
\* the publish call returns or times out, and backoffs run out.  Nothing is
\* assumed of arrivals, losses, outages or restarts.
Publish(p) == \E m \in Rows : PublishAcked(p, m) \/ PublishFailed(p, m)

Fairness ==
  /\ \A m \in Rows : WF_vars(BecomeDue(m))
  /\ \A p \in Publishers : WF_vars(Claim(p)) /\ WF_vars(Publish(p)) /\ WF_vars(Commit(p))
  /\ WF_vars(BrokerReturns)
  /\ \A p \in Publishers : WF_vars(Reconnect(p))

FairSpec == Spec /\ Fairness

-----------------------------------------------------------------------------
(* Properties *)

\* Every variable holds a value of the column or connection state it models.
TypeOK ==
  /\ status \in [Rows -> {"absent", "pending", "published", "dead"}]
  /\ attempts \in [Rows -> Nat]
  /\ due \in [Rows -> BOOLEAN]
  /\ born \in [Rows -> Nat]
  /\ claimed \in [Publishers -> SUBSET Rows]
  /\ acked \in [Publishers -> SUBSET Rows]
  /\ failed \in [Publishers -> SUBSET Rows]
  /\ conn \in [Publishers -> {"none", "up", "down"}]
  /\ brokerUp \in BOOLEAN
  /\ wire \in SUBSET Rows
  /\ stream \in Seq(Rows)
  /\ faults \in 0..MaxFaults

Delivered == {stream[i] : i \in DOMAIN stream}

\* The outbox is a reliable at-least-once channel with dead-lettering: the
\* publishers, whatever their batches, crashes and lost acknowledgements,
\* implement EventDelivery.  In particular no event is marked published
\* that the stream does not hold, no event of an uncommitted transaction is
\* published, and a settled row is never settled again by a second replica.
Delivery == INSTANCE EventDelivery WITH state <- status, delivered <- Delivered
ImplementsDelivery == Delivery!Spec

\* A row is dead-lettered exactly when its recorded attempts have reached
\* the limit, and never beyond it, however many replicas work on it and
\* however many transactions were rolled back.
AttemptsWithinLimit ==
  \A m \in Rows :
    /\ attempts[m] <= limit
    /\ status[m] = "pending" => attempts[m] < limit
    /\ status[m] = "dead" => attempts[m] = limit

\* A row in the open transaction of a publisher is still pending in the
\* table and in no other open transaction: the claims of two replicas never
\* overlap, and nobody settles a row under another replica's feet.
ClaimsAreExclusive ==
  \A p \in Publishers : \A m \in Locked(p) :
    /\ status[m] = "pending"
    /\ \A q \in Publishers : m \in Locked(q) => q = p

\* Every event whose transaction committed is eventually published or
\* dead-lettered: none is forgotten in "pending".
EventuallySettled ==
  \A m \in Rows : status[m] = "pending" ~> status[m] \in {"published", "dead"}

\* jetstream.py, on a broker that is down at boot: "Writes still commit; the
\* outbox drains once the broker returns".
DrainsOnceBrokerReturns ==
  \A m \in Rows : (status[m] = "pending" /\ brokerUp) ~> status[m] = "published"
=============================================================================
