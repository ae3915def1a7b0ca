----------------------------- MODULE OutboxProofs -----------------------------
(***************************************************************************)
(* What TLAPS proves of Outbox, for any number of rows and publishers, any *)
(* batch size, any attempt limits and any number of faults.                *)
(***************************************************************************)
EXTENDS Outbox, FiniteSetTheorems, TLAPS

-----------------------------------------------------------------------------
(* The stream *)

\* Appending a message to the stream delivers that message.
LEMMA AppendDelivers ==
  ASSUME NEW s \in Seq(Rows), NEW m \in Rows
  PROVE  /\ Append(s, m) \in Seq(Rows)
         /\ {Append(s, m)[i] : i \in DOMAIN Append(s, m)}
              = {s[i] : i \in DOMAIN s} \cup {m}
<1> DEFINE t == Append(s, m)
<1>1. t \in Seq(Rows) /\ Len(t) = Len(s) + 1 /\ Len(s) \in Nat
  OBVIOUS
<1>2. DOMAIN s = 1..Len(s) /\ DOMAIN t = 1..(Len(s) + 1)
  BY <1>1
<1>3. \A i \in 1..Len(s) : t[i] = s[i]
  OBVIOUS
<1>4. t[Len(s) + 1] = m
  OBVIOUS
<1> HIDE DEF t
<1>5. {t[i] : i \in DOMAIN t} = {s[i] : i \in DOMAIN s} \cup {m}
  BY <1>1, <1>2, <1>3, <1>4
<1> QED
  BY <1>1, <1>5 DEF t

\* Store keeps the stream a sequence of rows and delivers exactly the row
\* stored: the broker's deduplication never loses or invents a message.
LEMMA StoreDelivers ==
  ASSUME stream \in Seq(Rows), NEW m \in Rows, Store(m)
  PROVE  /\ stream' \in Seq(Rows)
         /\ Delivered' = Delivered \cup {m}
<1>1. CASE Stored(m)
  <2>1. stream' = stream
    BY <1>1 DEF Store
  <2>2. m \in Delivered
    BY <1>1 DEF Stored, Delivered
  <2> QED
    BY <2>1, <2>2 DEF Delivered
<1>2. CASE ~Stored(m)
  <2>1. stream' = Append(stream, m)
    BY <1>2 DEF Store
  <2> QED
    BY <2>1, AppendDelivers DEF Delivered
<1> QED
  BY <1>1, <1>2

-----------------------------------------------------------------------------
(* Type correctness *)

\* Every column and every connection keeps its type, through every step.
LEMMA TypeStep ==
  ASSUME TypeOK, [Next]_vars
  PROVE  TypeOK'
<1> USE FaultAssumption DEF TypeOK
<1>1. ASSUME NEW m \in Rows, Enqueue(m) PROVE TypeOK'
  BY <1>1, FS_CardinalityType, RowsAssumption DEF Enqueue, txn
<1>2. ASSUME NEW m \in Rows, BecomeDue(m) PROVE TypeOK'
  BY <1>2 DEF BecomeDue, txn
<1>3. ASSUME NEW p \in Publishers, Claim(p) PROVE TypeOK'
  BY <1>3 DEF Claim, Eligible, table
<1>4. ASSUME NEW p \in Publishers, NEW m \in Rows, PublishAcked(p, m) PROVE TypeOK'
  BY <1>4, StoreDelivers DEF PublishAcked, table
<1>5. ASSUME NEW p \in Publishers, NEW m \in Rows, PublishFailed(p, m) PROVE TypeOK'
  BY <1>5 DEF PublishFailed, table
<1>6. ASSUME NEW p \in Publishers, Commit(p) PROVE TypeOK'
  <2>1. due' \in [Rows -> BOOLEAN]
    BY <1>6, Zenon DEF Commit
  <2>2. status' \in [Rows -> {"absent", "pending", "published", "dead"}]
    BY <1>6 DEF Commit
  <2>3. attempts' \in [Rows -> Nat]
    BY <1>6 DEF Commit
  <2> QED
    BY <1>6, <2>1, <2>2, <2>3 DEF Commit
<1>7. ASSUME NEW p \in Publishers, Rollback(p) PROVE TypeOK'
  BY <1>7 DEF Rollback, Discard, Fault, table
<1>8. ASSUME NEW p \in Publishers, Restart(p) PROVE TypeOK'
  BY <1>8 DEF Restart, Discard, Fault, table
<1>9. ASSUME NEW p \in Publishers, Reconnect(p) PROVE TypeOK'
  BY <1>9 DEF Reconnect, table, txn
<1>10. ASSUME BrokerDown PROVE TypeOK'
  <2>1. conn' \in [Publishers -> {"none", "up", "down"}]
    BY <1>10 DEF BrokerDown
  <2>2. UNCHANGED <<status, attempts, due, born, claimed, acked, failed, wire, stream>>
    BY <1>10 DEF BrokerDown, table, txn
  <2>3. brokerUp' = FALSE /\ faults' \in 0..MaxFaults
    BY <1>10 DEF BrokerDown, Fault
  <2> QED
    BY <2>1, <2>2, <2>3
<1>11. ASSUME BrokerReturns PROVE TypeOK'
  BY <1>11 DEF BrokerReturns, table, txn
<1>12. ASSUME NEW m \in Rows, LateArrival(m) PROVE TypeOK'
  BY <1>12, StoreDelivers DEF LateArrival, table, txn
<1>13. ASSUME NEW m \in Rows, Lose(m) PROVE TypeOK'
  BY <1>13 DEF Lose, table, txn
<1>14. CASE UNCHANGED vars
  BY <1>14 DEF vars
<1> QED
  BY <1>1, <1>2, <1>3, <1>4, <1>5, <1>6, <1>7, <1>8, <1>9, <1>10, <1>11,
     <1>12, <1>13, <1>14 DEF Next

\* Type correctness of the outbox, its publishers and its broker.
THEOREM TypeCorrect == Spec => []TypeOK
<1>1. Init => TypeOK
  BY FaultAssumption DEF Init, TypeOK
<1> QED
  BY <1>1, TypeStep, PTL DEF Spec

-----------------------------------------------------------------------------
(* The claims of two replicas never overlap *)

\* A row has at most one outcome in the transaction it is claimed by.
OneOutcome ==
  \A p \in Publishers :
    /\ claimed[p] \cap acked[p] = {}
    /\ claimed[p] \cap failed[p] = {}
    /\ acked[p] \cap failed[p] = {}

\* Steps that claim nothing new and leave claimed rows as they are.
LEMMA ShrinkingClaims ==
  ASSUME ClaimsAreExclusive,
         \A q \in Publishers : Locked(q)' \subseteq Locked(q),
         \A q \in Publishers : \A m \in Locked(q)' : status'[m] = status[m]
  PROVE  ClaimsAreExclusive'
BY DEF ClaimsAreExclusive

\* Exclusive claims and single outcomes are preserved by every step.
LEMMA ExclusiveStep ==
  ASSUME TypeOK, ClaimsAreExclusive, OneOutcome, [Next]_vars
  PROVE  ClaimsAreExclusive' /\ OneOutcome'
<1>1. ASSUME NEW m \in Rows, Enqueue(m) PROVE ClaimsAreExclusive' /\ OneOutcome'
  <2>1. \A q \in Publishers : m \notin Locked(q)
    BY <1>1 DEF Enqueue, ClaimsAreExclusive
  <2>2. \A q \in Publishers : Locked(q)' = Locked(q)
    BY <1>1 DEF Enqueue, txn, Locked
  <2>3. \A n \in Rows : n # m => status'[n] = status[n]
    BY <1>1 DEF Enqueue, TypeOK
  <2>4. \A q \in Publishers : Locked(q) \subseteq Rows
    BY DEF Locked, TypeOK
  <2>5. ClaimsAreExclusive'
    BY <2>1, <2>2, <2>3, <2>4, ShrinkingClaims
  <2> QED
    BY <1>1, <2>5 DEF OneOutcome, Enqueue, txn
<1>2. ASSUME NEW p \in Publishers, Claim(p) PROVE ClaimsAreExclusive' /\ OneOutcome'
  <2>1. PICK batch \in SUBSET Eligible : claimed' = [claimed EXCEPT ![p] = batch]
    BY <1>2 DEF Claim
  <2>2. UNCHANGED <<status, acked, failed>> /\ acked[p] = {} /\ failed[p] = {}
    BY <1>2 DEF Claim, Locked, table
  <2>3. Locked(p)' = batch
    BY <2>1, <2>2 DEF Locked, TypeOK
  <2>4. \A q \in Publishers \ {p} : Locked(q)' = Locked(q)
    BY <2>1, <2>2 DEF Locked, TypeOK
  <2>5. \A m \in batch : status[m] = "pending" /\ \A q \in Publishers : m \notin Locked(q)
    BY DEF Eligible
  <2>6. ClaimsAreExclusive'
    BY <2>2, <2>3, <2>4, <2>5 DEF ClaimsAreExclusive
  <2> QED
    BY <2>1, <2>2, <2>6 DEF OneOutcome, TypeOK
<1>3. ASSUME NEW p \in Publishers, NEW m \in Rows, PublishAcked(p, m)
      PROVE  ClaimsAreExclusive' /\ OneOutcome'
  <2>1. \A q \in Publishers : Locked(q)' = Locked(q)
    BY <1>3 DEF PublishAcked, Oldest, Locked, TypeOK
  <2> QED
    BY <1>3, <2>1, ShrinkingClaims DEF PublishAcked, Oldest, OneOutcome, TypeOK, table
<1>4. ASSUME NEW p \in Publishers, NEW m \in Rows, PublishFailed(p, m)
      PROVE  ClaimsAreExclusive' /\ OneOutcome'
  <2>1. \A q \in Publishers : Locked(q)' = Locked(q)
    BY <1>4 DEF PublishFailed, Oldest, Locked, TypeOK
  <2> QED
    BY <1>4, <2>1, ShrinkingClaims DEF PublishFailed, Oldest, OneOutcome, TypeOK, table
<1>5. ASSUME NEW p \in Publishers, Commit(p) PROVE ClaimsAreExclusive' /\ OneOutcome'
  <2>1. Locked(p)' = {}
    BY <1>5 DEF Commit, Locked, TypeOK
  <2>2. \A q \in Publishers \ {p} : Locked(q)' = Locked(q)
    BY <1>5 DEF Commit, Locked, TypeOK
  <2>3. \A q \in Publishers \ {p} : \A m \in Locked(q) :
          m \in Rows /\ m \notin acked[p] /\ m \notin failed[p]
    BY DEF ClaimsAreExclusive, Locked, TypeOK
  <2>4. \A q \in Publishers \ {p} : \A m \in Locked(q) : status'[m] = status[m]
    BY <1>5, <2>3 DEF Commit
  <2>5. ClaimsAreExclusive'
    BY <2>1, <2>2, <2>4, ShrinkingClaims
  <2> QED
    BY <1>5, <2>5 DEF Commit, OneOutcome, TypeOK
<1>6. ASSUME NEW p \in Publishers, Discard(p), UNCHANGED status
      PROVE  ClaimsAreExclusive' /\ OneOutcome'
  <2>1. \A q \in Publishers : Locked(q)' \subseteq Locked(q)
    BY <1>6 DEF Discard, Locked, TypeOK
  <2> QED
    BY <1>6, <2>1, ShrinkingClaims DEF Discard, OneOutcome, TypeOK
<1>7. ASSUME UNCHANGED <<status, txn>> PROVE ClaimsAreExclusive' /\ OneOutcome'
  BY <1>7 DEF ClaimsAreExclusive, Locked, OneOutcome, txn
<1>8. ASSUME NEW p \in Publishers, Rollback(p) \/ Restart(p)
      PROVE  ClaimsAreExclusive' /\ OneOutcome'
  BY <1>6, <1>8 DEF Rollback, Restart, table
<1>9. ASSUME \/ BrokerDown \/ BrokerReturns \/ UNCHANGED vars
             \/ \E m \in Rows : BecomeDue(m) \/ LateArrival(m) \/ Lose(m)
             \/ \E p \in Publishers : Reconnect(p)
      PROVE  ClaimsAreExclusive' /\ OneOutcome'
  BY <1>7, <1>9 DEF BrokerDown, BrokerReturns, BecomeDue, LateArrival, Lose,
                    Reconnect, vars, table, txn
<1> QED
  BY <1>1, <1>2, <1>3, <1>4, <1>5, <1>8, <1>9 DEF Next

\* Two replicas never hold the same row, and no row in an open transaction
\* is settled by another one, for any number of rows and replicas.
THEOREM ClaimsExclusive == Spec => []ClaimsAreExclusive
<1>1. Init => ClaimsAreExclusive /\ OneOutcome
  BY DEF Init, ClaimsAreExclusive, OneOutcome, Locked
<1>2. TypeOK /\ ClaimsAreExclusive /\ OneOutcome /\ [Next]_vars
        => ClaimsAreExclusive' /\ OneOutcome'
  BY ExclusiveStep
<1> QED
  BY <1>1, <1>2, TypeCorrect, PTL DEF Spec

-----------------------------------------------------------------------------
(* Attempts *)

\* A row that was never staged was never tried.
FreshIsUntried == \A m \in Rows : status[m] = "absent" => attempts[m] = 0

\* The limit a row dies at is positive (publisher.py _record_failure).
LEMMA LimitType == limit \in Nat \ {0}
BY AttemptAssumption DEF limit

\* Only Commit counts an attempt, and only for a row that is still pending.
LEMMA AttemptsStep ==
  ASSUME TypeOK, ClaimsAreExclusive, AttemptsWithinLimit, FreshIsUntried, [Next]_vars
  PROVE  AttemptsWithinLimit' /\ FreshIsUntried'
<1>1. ASSUME NEW m \in Rows, Enqueue(m) PROVE AttemptsWithinLimit' /\ FreshIsUntried'
  BY <1>1, LimitType DEF Enqueue, AttemptsWithinLimit, FreshIsUntried, TypeOK
<1>2. ASSUME NEW p \in Publishers, Commit(p) PROVE AttemptsWithinLimit' /\ FreshIsUntried'
  <2> SUFFICES ASSUME NEW m \in Rows
               PROVE  /\ attempts'[m] <= limit
                      /\ status'[m] = "pending" => attempts'[m] < limit
                      /\ status'[m] = "dead" => attempts'[m] = limit
                      /\ status'[m] = "absent" => attempts'[m] = 0
    BY DEF AttemptsWithinLimit, FreshIsUntried
  <2>1. attempts[m] \in Nat /\ limit \in Nat
    BY LimitType DEF TypeOK
  <2>2. m \in acked[p] \cup failed[p] => status[m] = "pending" /\ attempts[m] < limit
    BY DEF ClaimsAreExclusive, Locked, AttemptsWithinLimit
  <2>3. CASE m \in failed[p]
    BY <1>2, <2>1, <2>2, <2>3 DEF Commit, Exhausted
  <2>4. CASE m \notin failed[p]
    BY <1>2, <2>1, <2>2, <2>4 DEF Commit, AttemptsWithinLimit, FreshIsUntried
  <2> QED
    BY <2>3, <2>4
<1>3. ASSUME UNCHANGED <<status, attempts>> PROVE AttemptsWithinLimit' /\ FreshIsUntried'
  BY <1>3 DEF AttemptsWithinLimit, FreshIsUntried
<1>4. ASSUME \/ BrokerDown \/ BrokerReturns \/ UNCHANGED vars
             \/ \E m \in Rows : BecomeDue(m) \/ LateArrival(m) \/ Lose(m)
             \/ \E p \in Publishers :
                  \/ Claim(p) \/ Rollback(p) \/ Restart(p) \/ Reconnect(p)
                  \/ \E m \in Rows : PublishAcked(p, m) \/ PublishFailed(p, m)
      PROVE  UNCHANGED <<status, attempts>>
  BY <1>4 DEF BrokerDown, BrokerReturns, BecomeDue, LateArrival, Lose, Claim, Rollback,
              Restart, Reconnect, PublishAcked, PublishFailed, vars, table
<1> QED
  BY <1>1, <1>2, <1>3, <1>4 DEF Next

\* The attempt limit holds and dead-lettering happens exactly at it, however
\* many replicas and rolled-back transactions a row went through.
THEOREM AttemptsBounded == Spec => []AttemptsWithinLimit
<1>1. Init => AttemptsWithinLimit /\ FreshIsUntried
  BY LimitType DEF Init, AttemptsWithinLimit, FreshIsUntried
<1>2. /\ TypeOK /\ ClaimsAreExclusive /\ AttemptsWithinLimit /\ FreshIsUntried
      /\ [Next]_vars
      => AttemptsWithinLimit' /\ FreshIsUntried'
  BY AttemptsStep
<1> QED
  BY <1>1, <1>2, TypeCorrect, ClaimsExclusive, PTL DEF Spec

-----------------------------------------------------------------------------
(* The outbox implements EventDelivery *)

\* What an open transaction counts as published is in the stream, and the
\* stream and the network hold events of committed transactions only.
StreamIsHonest ==
  /\ \A p \in Publishers : acked[p] \subseteq Delivered
  /\ \A m \in Delivered \cup wire : m \in Rows /\ status[m] # "absent"

\* The refinement invariant.
DeliveryInv == TypeOK /\ ClaimsAreExclusive /\ OneOutcome /\ StreamIsHonest

\* A step that publishes nothing and stages no event changes neither side of
\* the mapping.
LEMMA QuietStep ==
  ASSUME DeliveryInv, UNCHANGED <<status, stream>>,
         \A p \in Publishers : acked'[p] \subseteq acked[p],
         wire' \subseteq wire \cup {m \in Rows : status[m] # "absent"}
  PROVE  /\ StreamIsHonest'
         /\ UNCHANGED <<status, Delivered>>
BY DEF DeliveryInv, StreamIsHonest, Delivered

\* Every step of the publishers, the broker and the network is a step of
\* EventDelivery or leaves its state alone.
LEMMA DeliveryStep ==
  ASSUME DeliveryInv, [Next]_vars
  PROVE  /\ StreamIsHonest'
         /\ Delivery!Next \/ UNCHANGED <<status, Delivered>>
<1> USE DEF DeliveryInv
<1>1. ASSUME NEW m \in Rows, Enqueue(m)
      PROVE  StreamIsHonest' /\ Delivery!Next
  <2>1. UNCHANGED <<stream, wire, acked>> /\ Delivered' = Delivered
    BY <1>1 DEF Enqueue, txn, Delivered
  <2>2. Delivery!Stage(m)
    BY <1>1, <2>1 DEF Enqueue, Delivery!Stage
  <2>3. StreamIsHonest'
    BY <1>1, <2>1 DEF StreamIsHonest, Enqueue, TypeOK
  <2> QED
    BY <2>2, <2>3 DEF Delivery!Next
<1>2. ASSUME NEW p \in Publishers, NEW m \in Rows, PublishAcked(p, m)
      PROVE  StreamIsHonest' /\ Delivery!Next
  <2>1. Delivered' = Delivered \cup {m}
    BY <1>2, StoreDelivers DEF PublishAcked, TypeOK
  <2>2. UNCHANGED <<status, wire>>
    BY <1>2 DEF PublishAcked, table
  <2>3. status[m] = "pending"
    BY <1>2 DEF PublishAcked, Oldest, ClaimsAreExclusive, Locked
  <2>4. Delivery!Deliver(m)
    BY <2>1, <2>2, <2>3 DEF Delivery!Deliver
  <2>5. \A q \in Publishers : acked'[q] \subseteq acked[q] \cup {m}
    BY <1>2 DEF PublishAcked, TypeOK
  <2>6. StreamIsHonest'
    BY <2>1, <2>2, <2>3, <2>5 DEF StreamIsHonest
  <2> QED
    BY <2>4, <2>6 DEF Delivery!Next
<1>3. ASSUME NEW m \in Rows, LateArrival(m)
      PROVE  StreamIsHonest' /\ Delivery!Next
  <2>1. Delivered' = Delivered \cup {m}
    BY <1>3, StoreDelivers DEF LateArrival, TypeOK
  <2>2. UNCHANGED <<status, acked>> /\ wire' \subseteq wire
    BY <1>3 DEF LateArrival, table, txn
  <2>3. status[m] # "absent"
    BY <1>3 DEF LateArrival, StreamIsHonest
  <2>4. Delivery!Deliver(m)
    BY <2>1, <2>2, <2>3 DEF Delivery!Deliver
  <2>5. StreamIsHonest'
    BY <2>1, <2>2, <2>3 DEF StreamIsHonest
  <2> QED
    BY <2>4, <2>5 DEF Delivery!Next
<1>4. ASSUME NEW p \in Publishers, Commit(p)
      PROVE  StreamIsHonest' /\ Delivery!Next
  <2> DEFINE dead == {m \in failed[p] : Exhausted(m)}
  <2>1. UNCHANGED <<stream, wire>> /\ Delivered' = Delivered
    BY <1>4 DEF Commit, Delivered
  <2>2. \A m \in acked[p] \cup failed[p] : status[m] = "pending"
    BY DEF ClaimsAreExclusive, Locked
  <2>3. acked[p] \in SUBSET Rows /\ dead \in SUBSET Rows /\ acked[p] \cap dead = {}
    BY DEF TypeOK, OneOutcome
  <2>4. acked[p] \subseteq Delivered
    BY DEF StreamIsHonest
  <2>5. status' = [m \in Rows |-> IF m \in acked[p] THEN "published"
                                  ELSE IF m \in dead THEN "dead"
                                  ELSE status[m]]
    BY <1>4 DEF Commit
  <2>6. Delivery!Settle(acked[p], dead)
    BY <2>1, <2>2, <2>3, <2>4, <2>5 DEF Delivery!Settle
  <2>7. Delivery!Next
    BY <2>3, <2>6 DEF Delivery!Next
  <2>8. \A q \in Publishers : acked'[q] \subseteq acked[q]
    BY <1>4 DEF Commit, TypeOK
  <2>9. \A m \in Rows : status[m] # "absent" => status'[m] # "absent"
    BY <2>5
  <2>10. StreamIsHonest'
    BY <2>1, <2>8, <2>9 DEF StreamIsHonest
  <2> QED
    BY <2>7, <2>10
<1>5. ASSUME NEW p \in Publishers, NEW m \in Rows, PublishFailed(p, m)
      PROVE  StreamIsHonest' /\ UNCHANGED <<status, Delivered>>
  <2>1. status[m] = "pending"
    BY <1>5 DEF PublishFailed, Oldest, ClaimsAreExclusive, Locked
  <2> QED
    BY <1>5, <2>1, QuietStep DEF PublishFailed, table
<1>6. ASSUME NEW p \in Publishers, Rollback(p) \/ Restart(p)
      PROVE  StreamIsHonest' /\ UNCHANGED <<status, Delivered>>
  <2>1. \A q \in Publishers : acked'[q] \subseteq acked[q]
    BY <1>6 DEF Rollback, Restart, Discard, TypeOK
  <2> QED
    BY <1>6, <2>1, QuietStep DEF Rollback, Restart, table
<1>7. ASSUME \/ BrokerDown \/ BrokerReturns \/ UNCHANGED vars
             \/ \E m \in Rows : BecomeDue(m) \/ Lose(m)
             \/ \E p \in Publishers : Claim(p) \/ Reconnect(p)
      PROVE  StreamIsHonest' /\ UNCHANGED <<status, Delivered>>
  <2>1. UNCHANGED <<status, stream, acked>> /\ wire' \subseteq wire
    BY <1>7 DEF BrokerDown, BrokerReturns, BecomeDue, Lose, Claim, Reconnect,
                vars, table, txn
  <2> QED
    BY <2>1, QuietStep
<1> QED
  BY <1>1, <1>2, <1>3, <1>4, <1>5, <1>6, <1>7 DEF Next

\* The publishers implement the delivery contract: only committed events are
\* published, an event is marked published only if the stream holds it, and
\* a settled event stays settled.
THEOREM OutboxImplementsDelivery == Spec => ImplementsDelivery
<1>1. Init => Delivery!Init /\ OneOutcome /\ StreamIsHonest
  BY DEF Init, Delivery!Init, Delivered, OneOutcome, StreamIsHonest
<1>2. TypeOK /\ ClaimsAreExclusive /\ OneOutcome /\ [Next]_vars => OneOutcome'
  BY ExclusiveStep
<1>3. DeliveryInv /\ [Next]_vars => StreamIsHonest' /\ [Delivery!Next]_<<status, Delivered>>
  BY DeliveryStep
<1> QED
  BY <1>1, <1>2, <1>3, TypeCorrect, ClaimsExclusive, PTL
     DEF Spec, ImplementsDelivery, Delivery!Spec, DeliveryInv
=============================================================================
