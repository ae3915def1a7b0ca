-------------------------- MODULE RetryHorizonProofs --------------------------
(***************************************************************************)
(* What RetryHorizon promises for every value of its constants: the        *)
(* publishes of a row span a bounded time, and a service whose duplicate   *)
(* window covers that time stores the event once.                          *)
(*                                                                         *)
(* Two parts.  The first gets the recursion equations of the backoff curve *)
(* from Recursion; the second is the invariant, a budget that each attempt *)
(* and each fault adds to.                                                 *)
(***************************************************************************)
EXTENDS RetryHorizon, Recursion

-----------------------------------------------------------------------------
(* The backoff curve. *)

LEMMA PowersOfTwo ==
  /\ PowerOfTwo \in [Nat -> Nat]
  /\ PowerOfTwo = [n \in Nat |-> IF n = 0 THEN 1 ELSE 2 * PowerOfTwo[n - 1]]
<1> DEFINE step == [p \in Nat \X Nat |-> 2 * p[1]]
<1>1. step \in [Nat \X Nat -> Nat] /\ \A v \in Nat, n \in Nat : step[<<v, n>>] = 2 * v
  OBVIOUS
<1> HIDE DEF step
<1>2. PICK f \in [Nat -> Nat] : Iterates(f, 1, step)
  <2>1. 1 \in Nat
    OBVIOUS
  <2> QED
    BY <1>1, <2>1, TypedRecursionOnNat
<1>3. ASSUME NEW n \in Nat PROVE f[n] = IF n = 0 THEN 1 ELSE 2 * f[n - 1]
  <2>1. CASE n = 0
    BY <1>2, <2>1 DEF Iterates
  <2>2. CASE n # 0
    <3>1. n - 1 \in Nat /\ (n - 1) + 1 = n
      BY <2>2
    <3>2. f[n] = step[<<f[n - 1], n>>] /\ f[n - 1] \in Nat
      BY <1>2, <3>1 DEF Iterates
    <3> QED
      BY <1>1, <2>2, <3>2
  <2> QED
    BY <2>1, <2>2
<1>4. f = [n \in Nat |-> IF n = 0 THEN 1 ELSE 2 * f[n - 1]]
  BY <1>3
<1>5. PowerOfTwo = [n \in Nat |-> IF n = 0 THEN 1 ELSE 2 * PowerOfTwo[n - 1]]
  BY <1>4, Zenon DEF PowerOfTwo
<1>6. PowerOfTwo \in [Nat -> Nat]
  <2> DEFINE T == {n \in Nat : PowerOfTwo[n] \in Nat}
  <2>1. 0 \in T
    BY <1>5
  <2>2. ASSUME NEW n \in T PROVE n + 1 \in T
    <3>1. PowerOfTwo[n + 1] = 2 * PowerOfTwo[(n + 1) - 1] /\ (n + 1) - 1 = n
      BY <1>5
    <3> QED
      BY <3>1
  <2> HIDE DEF T
  <2>3. T = Nat
    <3>1. T \in SUBSET Nat
      BY DEF T
    <3> QED
      BY <2>1, <2>2, <3>1, NatSetInduction
  <2> QED
    BY <1>5, <2>3 DEF T
<1> QED
  BY <1>5, <1>6

LEMMA Shares ==
  ASSUME NEW a \in Nat, NEW b \in Nat \ {0}
  PROVE  a \div b \in 0..a
  OBVIOUS

\* A delay is never negative, with the jitter added or taken away.
LEMMA Delays ==
  ASSUME NEW n \in Nat
  PROVE  /\ raw(n) \in Nat
         /\ backoff_for(n) \in Nat
         /\ raw(n) - raw(n) \div JitterPart \in 0..backoff_for(n)
<1>1. Later(n - 1, 0) \in Nat
  BY DEF Later
<1>2. raw(n) \in Nat
  BY <1>1, PowersOfTwo, DelayAssumption DEF raw, Earlier
<1>3. raw(n) \div JitterPart \in 0..raw(n)
  BY <1>2, PolicyAssumption, Shares
<1> QED
  BY <1>2, <1>3 DEF backoff_for

LEMMA BackoffCurve ==
  /\ \A n \in Nat : Backoffs[n] \in Nat
  /\ Backoffs[1] = 0
  /\ \A n \in Nat \ {0} : Backoffs[n + 1] = Backoffs[n] + backoff_for(n)
<1> DEFINE step == [p \in Nat \X Nat |-> IF p[2] <= 1 THEN 0 ELSE p[1] + backoff_for(p[2] - 1)]
<1>1. ASSUME NEW v \in Nat, NEW n \in Nat
      PROVE  /\ step[<<v, n>>] = IF n <= 1 THEN 0 ELSE v + backoff_for(n - 1)
             /\ step[<<v, n>>] \in Nat
  BY Delays
<1>2. step \in [Nat \X Nat -> Nat]
  <2>1. ASSUME NEW p \in Nat \X Nat
        PROVE  (IF p[2] <= 1 THEN 0 ELSE p[1] + backoff_for(p[2] - 1)) \in Nat
    BY Delays
  <2> QED
    BY <2>1
<1> HIDE DEF step
<1>3. PICK f \in [Nat -> Nat] : Iterates(f, 0, step)
  <2>1. 0 \in Nat
    OBVIOUS
  <2> QED
    BY <1>2, <2>1, TypedRecursionOnNat
<1>4. ASSUME NEW n \in Nat
      PROVE  f[n] = IF n <= 1 THEN 0 ELSE f[n - 1] + backoff_for(n - 1)
  <2>1. CASE n = 0
    BY <1>3, <2>1 DEF Iterates
  <2>2. CASE n # 0
    <3>1. n - 1 \in Nat /\ (n - 1) + 1 = n
      BY <2>2
    <3>2. f[n] = step[<<f[n - 1], n>>] /\ f[n - 1] \in Nat
      BY <1>3, <3>1 DEF Iterates
    <3> QED
      BY <1>1, <3>2
  <2> QED
    BY <2>1, <2>2
<1>5. f = [n \in Nat |-> IF n <= 1 THEN 0 ELSE f[n - 1] + backoff_for(n - 1)]
  BY <1>4
<1>6. Backoffs = [n \in Nat |-> IF n <= 1 THEN 0 ELSE Backoffs[n - 1] + backoff_for(n - 1)]
  BY <1>5, Zenon DEF Backoffs
<1>7. \A n \in Nat \ {0} : Backoffs[n + 1] = Backoffs[n] + backoff_for(n)
  <2> TAKE n \in Nat \ {0}
  <2>1. n + 1 \in Nat /\ ~(n + 1 <= 1) /\ (n + 1) - 1 = n
    OBVIOUS
  <2> QED
    BY <1>6, <2>1
<1>8. Backoffs[0] = 0 /\ Backoffs[1] = 0
  BY <1>6
<1>9. \A n \in Nat : Backoffs[n] \in Nat
  <2> DEFINE T == {n \in Nat : Backoffs[n] \in Nat}
  <2>1. 0 \in T
    BY <1>8
  <2>2. ASSUME NEW n \in T PROVE n + 1 \in T
    <3>1. CASE n = 0
      BY <1>8, <3>1
    <3>2. CASE n # 0
      <4>1. Backoffs[n + 1] = Backoffs[n] + backoff_for(n) /\ backoff_for(n) \in Nat
        BY <1>7, <3>2, Delays
      <4>2. Backoffs[n + 1] \in Nat
        BY <4>1
      <4> QED
        BY <4>2
    <3> QED
      BY <3>1, <3>2
  <2> HIDE DEF T
  <2>3. T = Nat
    <3>1. T \in SUBSET Nat
      BY DEF T
    <3> QED
      BY <2>1, <2>2, <3>1, NatSetInduction
  <2> QED
    BY <2>3 DEF T
<1> QED
  BY <1>7, <1>8, <1>9

\* More attempts have more backoffs between them.
LEMMA BackoffsGrow ==
  ASSUME NEW m \in Nat \ {0}, NEW n \in Nat, m <= n
  PROVE  Backoffs[m] <= Backoffs[n]
<1> DEFINE T == {d \in Nat : Backoffs[m] <= Backoffs[m + d]}
<1>1. 0 \in T
  BY BackoffCurve
<1>2. ASSUME NEW d \in T PROVE d + 1 \in T
  <2>1. m + d \in Nat \ {0} /\ m + (d + 1) = (m + d) + 1
    OBVIOUS
  <2>2. Backoffs[(m + d) + 1] = Backoffs[m + d] + backoff_for(m + d) /\ backoff_for(m + d) \in Nat
    BY <2>1, BackoffCurve, Delays
  <2>3. Backoffs[m] \in Nat /\ Backoffs[m + d] \in Nat /\ Backoffs[m] <= Backoffs[m + d]
    BY BackoffCurve
  <2> HIDE DEF T
  <2>4. Backoffs[m] <= Backoffs[m + (d + 1)]
    BY <2>1, <2>2, <2>3
  <2> QED
    BY <2>4 DEF T
<1> HIDE DEF T
<1>3. T = Nat
  <2>1. T \in SUBSET Nat
    BY DEF T
  <2> QED
    BY <1>1, <1>2, <2>1, NatSetInduction
<1>4. n - m \in T /\ m + (n - m) = n
  BY <1>3
<1> QED
  BY <1>4 DEF T

-----------------------------------------------------------------------------
(* The budget. *)

\* The latest instant at which a row is sent again that has failed k times
\* and lost f attempts to faults.
Reach(c, k, f) == (k + f) * AttemptCost(c) + f * OutageCost + Backoffs[k + 1]

\* When the loop gets back to the row, and what it then takes to its turn.
Due == IF now < next_attempt_at THEN next_attempt_at + Batch(company) ELSE now
ToTurn(c) == LockWait + IdleInterval + Batch(c)

Pending == status = "pending"

TypeOK ==
  /\ window \in Nat /\ max_attempts \in Policies /\ company \in Companies
  /\ phase \in {"stopped", "sleeping", "turn", "tried"}
  /\ now \in Nat /\ attempts \in Nat /\ next_attempt_at \in Nat
  /\ status \in {"pending", "published", "dead"}
  /\ outcome \in {"none", "acked", "failed"}
  /\ retry_at \in Nat
  /\ ahead \in 0..company
  /\ last \in Nat \cup {Never}
  /\ copies \in Nat /\ stored \in Nat \cup {Never}
  /\ faults \in 0..MaxFaults

\* Nothing is counted before the row is first sent.
NotSentYet == ~Sent => now = 0 /\ next_attempt_at = 0 /\ retry_at = 0

\* A row that is still pending has an attempt left.
AttemptLeft ==
  /\ phase # "sleeping" => Pending
  /\ Pending => attempts + 1 <= max_attempts

\* Wherever the replica is, what is still ahead of the next send fits into
\* the budget of the attempts and faults counted so far.
InBudget ==
  LET reach == Reach(company, attempts, faults) IN
  /\ Pending => last <= reach
  /\ phase = "stopped" /\ Sent => Due + ConnectTimeout + ToTurn(company) <= reach
  /\ phase = "sleeping" /\ Pending /\ Sent => Due + ToTurn(company) <= reach
  /\ phase = "turn" => next_attempt_at <= now /\ now <= reach
  /\ phase = "tried" =>
       /\ outcome \in {"acked", "failed"}
       /\ next_attempt_at <= now /\ now <= reach + PublishTimeout
       /\ outcome = "failed" =>
            retry_at <= reach + PublishTimeout + backoff_for(attempts + 1)

ClockInv == TypeOK /\ NotSentYet /\ AttemptLeft /\ InBudget /\ last <= Span

\* The constants and the deployment, as numbers.
LEMMA Numbers ==
  ASSUME TypeOK
  PROVE  /\ LockWait \in Nat /\ ConnectTimeout \in Nat /\ PublishTimeout \in Nat
         /\ RestartTime \in Nat /\ IdleInterval \in Nat /\ MaxFaults \in Nat
         /\ company \in Nat /\ max_attempts \in Nat \ {0}
         /\ Batch(company) \in Nat /\ AttemptCost(company) \in Nat /\ OutageCost \in Nat
         /\ ToTurn(company) \in Nat
         /\ \A n \in 0..company : n * PublishTimeout \in 0..Batch(company)
<1>1. /\ LockWait \in Nat /\ ConnectTimeout \in Nat /\ PublishTimeout \in Nat
      /\ RestartTime \in Nat /\ IdleInterval \in Nat /\ MaxFaults \in Nat
  BY DelayAssumption
<1>2. company \in Nat /\ max_attempts \in Nat \ {0}
  BY PolicyAssumption, CompanyAssumption DEF TypeOK
<1>3. Batch(company) \in Nat
  BY <1>1, <1>2 DEF Batch
<1>4. ASSUME NEW n \in 0..company PROVE n * PublishTimeout \in 0..Batch(company)
  <2>1. n \in Nat /\ company - n \in Nat
    BY <1>2
  <2>2. n * PublishTimeout \in Nat /\ (company - n) * PublishTimeout \in Nat
    BY <1>1, <2>1
  <2>3. company * PublishTimeout = n * PublishTimeout + (company - n) * PublishTimeout
    BY <1>1, <1>2, <2>1
  <2> QED
    BY <1>3, <2>2, <2>3 DEF Batch
<1> QED
  BY <1>1, <1>2, <1>3, <1>4 DEF AttemptCost, OutageCost, ToTurn

\* A failed attempt adds its cost and its backoff, a lost one its cost and
\* that of the outage.
LEMMA ReachGrows ==
  ASSUME TypeOK, NEW k \in Nat, NEW f \in Nat
  PROVE  /\ Reach(company, k, f) \in Nat
         /\ Reach(company, k + 1, f) = Reach(company, k, f) + AttemptCost(company) + backoff_for(k + 1)
         /\ Reach(company, k, f + 1) = Reach(company, k, f) + AttemptCost(company) + OutageCost
<1>1. AttemptCost(company) \in Nat /\ OutageCost \in Nat
  BY Numbers
<1>2. /\ (k + f) * AttemptCost(company) \in Nat /\ f * OutageCost \in Nat
      /\ (k + 1 + f) * AttemptCost(company) = (k + f) * AttemptCost(company) + AttemptCost(company)
      /\ (k + (f + 1)) * AttemptCost(company) = (k + f) * AttemptCost(company) + AttemptCost(company)
      /\ (f + 1) * OutageCost = f * OutageCost + OutageCost
  BY <1>1
<1>3. /\ Backoffs[k + 1] \in Nat /\ backoff_for(k + 1) \in Nat
      /\ Backoffs[(k + 1) + 1] = Backoffs[k + 1] + backoff_for(k + 1)
  <2>1. k + 1 \in Nat \ {0}
    OBVIOUS
  <2> QED
    BY <2>1, BackoffCurve, Delays
<1>4. /\ Reach(company, k, f) = (k + f) * AttemptCost(company) + f * OutageCost + Backoffs[k + 1]
      /\ Reach(company, k + 1, f) =
           ((k + f) * AttemptCost(company) + AttemptCost(company)) + f * OutageCost + Backoffs[(k + 1) + 1]
      /\ Reach(company, k, f + 1) =
           ((k + f) * AttemptCost(company) + AttemptCost(company)) + (f * OutageCost + OutageCost) + Backoffs[k + 1]
  BY <1>2, Zenon DEF Reach
<1> DEFINE attempted == (k + f) * AttemptCost(company)
           lost == f * OutageCost
<1>5. attempted \in Nat /\ lost \in Nat
  BY <1>2
<1> HIDE DEF attempted, lost
<1>6. /\ Reach(company, k, f) = attempted + lost + Backoffs[k + 1]
      /\ Reach(company, k + 1, f) =
           (attempted + AttemptCost(company)) + lost + Backoffs[(k + 1) + 1]
      /\ Reach(company, k, f + 1) =
           (attempted + AttemptCost(company)) + (lost + OutageCost) + Backoffs[k + 1]
  BY <1>4 DEF attempted, lost
<1> QED
  BY <1>1, <1>3, <1>5, <1>6

\* The span is what can be reached with every attempt and fault used up.
LEMMA SpanIsReach ==
  ASSUME TypeOK
  PROVE  /\ Span = Reach(company, max_attempts - 1, MaxFaults)
         /\ Span \in Nat
<1>1. max_attempts - 1 \in Nat /\ MaxFaults \in Nat /\ (max_attempts - 1) + 1 = max_attempts
  BY Numbers
<1>2. Span = Reach(company, max_attempts - 1, MaxFaults)
  BY <1>1 DEF Span, Reach
<1> QED
  BY <1>1, <1>2, ReachGrows

LEMMA ReachEnds ==
  ASSUME TypeOK, NEW k \in Nat, NEW f \in Nat,
         k + 1 <= max_attempts, f <= MaxFaults
  PROVE  Reach(company, k, f) <= Span
<1>1. AttemptCost(company) \in Nat /\ OutageCost \in Nat
      /\ max_attempts \in Nat \ {0} /\ MaxFaults \in Nat
  BY Numbers
<1> DEFINE m == max_attempts - 1
           a == (m + MaxFaults) - (k + f)
           b == MaxFaults - f
<1>2. m \in Nat /\ a \in Nat /\ b \in Nat /\ m + 1 = max_attempts
  BY <1>1
<1>3. /\ (m + MaxFaults) * AttemptCost(company) = (k + f) * AttemptCost(company) + a * AttemptCost(company)
      /\ MaxFaults * OutageCost = f * OutageCost + b * OutageCost
      /\ a * AttemptCost(company) \in Nat /\ b * OutageCost \in Nat
      /\ (k + f) * AttemptCost(company) \in Nat /\ f * OutageCost \in Nat
  BY <1>1, <1>2
<1>4. /\ Backoffs[k + 1] <= Backoffs[m + 1]
      /\ Backoffs[k + 1] \in Nat /\ Backoffs[m + 1] \in Nat
  BY <1>1, <1>2, BackoffCurve, BackoffsGrow
<1> HIDE DEF a, b
<1> QED
  BY <1>1, <1>3, <1>4 DEF Reach, Span

\* The delay that a failure schedules.
LEMMA RetryDelay ==
  ASSUME TypeOK, NEW at \in Nat, Retry(at)
  PROVE  /\ retry_at' \in Nat
         /\ retry_at' <= at + backoff_for(attempts + 1)
         /\ last' = Never => retry_at' = 0
<1>1. /\ raw(attempts + 1) - raw(attempts + 1) \div JitterPart
           \in 0..backoff_for(attempts + 1)
      /\ backoff_for(attempts + 1) \in Nat
  BY Delays DEF TypeOK
<1>2. PICK delay \in 0..backoff_for(attempts + 1) :
        retry_at' = IF last' = Never THEN 0 ELSE at + delay
  BY <1>1 DEF Retry
<1> QED
  BY <1>1, <1>2

LEMMA StepKeepsClock ==
  ASSUME ClockInv, Next
  PROVE  ClockInv'
<1> DEFINE reach == Reach(company, attempts, faults)
<1>0. UNCHANGED config /\ Span' = Span
  <2>1. UNCHANGED config
    BY Zenon DEF Next, Boot, OtherBatch, Claim, Refused, Send, Commit, Rollback, Crash, EndBatch, config
  <2> QED
    BY <2>1 DEF config, Span
<1> USE DEF ClockInv
<1>1. /\ LockWait \in Nat /\ ConnectTimeout \in Nat /\ PublishTimeout \in Nat
      /\ RestartTime \in Nat /\ IdleInterval \in Nat /\ MaxFaults \in Nat
      /\ company \in Nat /\ max_attempts \in Nat \ {0}
      /\ Batch(company) \in Nat
      /\ \A n \in 0..company : n * PublishTimeout \in 0..Batch(company)
  BY Numbers
<1>2. /\ reach \in Nat /\ backoff_for(attempts + 1) \in Nat
      /\ Reach(company, attempts + 1, faults) =
           reach + AttemptCost(company) + backoff_for(attempts + 1)
      /\ Reach(company, attempts, faults + 1) = reach + AttemptCost(company) + OutageCost
  <2>1. attempts \in Nat /\ faults \in Nat /\ attempts + 1 \in Nat
    BY <1>1 DEF TypeOK
  <2> QED
    BY <2>1, ReachGrows, Delays
<1>3. Pending => reach <= Span
  BY ReachEnds DEF TypeOK, AttemptLeft
<1> HIDE DEF reach
<1>4. CASE Boot
  <2>1. /\ phase = "stopped" /\ phase' = "sleeping"
        /\ UNCHANGED <<config, row, staged, last, message, faults>>
        /\ \E delay \in 0..ConnectTimeout : now' = IF Sent THEN now + delay ELSE 0
    BY <1>1, <1>4 DEF Boot, Upto, MoveTo
  <2>2. TypeOK'
    BY <1>1, <2>1 DEF TypeOK, config, row, staged, message
  <2>3. NotSentYet' /\ AttemptLeft'
    BY <2>1 DEF NotSentYet, AttemptLeft, Sent, Pending, config, row, staged
  <2>4. Sent => Due' + ToTurn(company) <= reach
    BY <1>1, <1>2, <2>1 DEF InBudget, TypeOK, Due, ToTurn, reach, config, row
  <2>5. InBudget'
    BY <2>1, <2>4 DEF InBudget, Pending, Sent, reach, config, row
  <2> QED
    BY <1>0, <2>1, <2>2, <2>3, <2>5 DEF config
<1>5. CASE OtherBatch
  <2>1. /\ phase = "sleeping" /\ Pending /\ now < next_attempt_at
        /\ UNCHANGED <<config, phase, row, staged, last, message, faults>>
        /\ \E start \in {now, next_attempt_at - 1}, delay \in {0, Batch(company)} :
              now' = IF Sent THEN start + delay ELSE 0
    BY <1>5 DEF OtherBatch, Upto, MoveTo, Pending, Batch
  <2>2. TypeOK'
    BY <1>1, <2>1 DEF TypeOK, config, row, staged, message
  <2>3. NotSentYet' /\ AttemptLeft'
    BY <2>1 DEF NotSentYet, AttemptLeft, Sent, Pending, config, row, staged
  <2>4. Sent => Due' <= Due
    BY <1>1, <2>1 DEF TypeOK, Due, config, row
  <2>5. Due \in Nat /\ Due' \in Nat /\ ToTurn(company) \in Nat
    BY <1>1, <2>1, <2>2, Numbers DEF TypeOK, Due, config
  <2>6. Sent => Due' + ToTurn(company) <= reach
    BY <1>2, <2>1, <2>4, <2>5 DEF InBudget, reach
  <2>7. InBudget'
    BY <2>1, <2>6 DEF InBudget, Pending, Sent, reach, config, row
  <2> QED
    BY <1>0, <2>1, <2>2, <2>3, <2>7 DEF config
<1>6. CASE Claim
  <2>1. /\ phase = "sleeping" /\ Pending /\ phase' = "turn" /\ ahead' \in 0..company
        /\ UNCHANGED <<config, row, outcome, retry_at, last, message, faults>>
        /\ \E nap \in 0..(IdleInterval + LockWait), delay \in 0..Batch(company) :
              now' = IF Sent THEN Later(now, next_attempt_at) + nap + delay ELSE 0
    <3>1. /\ ahead' \in 0..company
          /\ \E nap \in Upto(IdleInterval + LockWait), delay \in Upto(ahead' * PublishTimeout) :
               now' = IF Sent THEN Later(now, next_attempt_at) + nap + delay ELSE 0
      BY <1>6 DEF Claim, MoveTo
    <3>2. /\ Upto(IdleInterval + LockWait) \subseteq 0..(IdleInterval + LockWait)
          /\ Upto(ahead' * PublishTimeout) \subseteq 0..Batch(company)
      <4>1. IdleInterval + LockWait \in Nat
        BY <1>1
      <4>2. ahead' * PublishTimeout \in 0..Batch(company)
        BY <1>1, <3>1, Zenon
      <4>3. ASSUME NEW n \in Nat, NEW t \in 0..n PROVE Upto(t) \subseteq 0..n
        BY DEF Upto
      <4> QED
        BY <1>1, <4>1, <4>2, <4>3
    <3> QED
      BY <1>6, <3>1, <3>2 DEF Claim, Pending
  <2>2. TypeOK'
    BY <1>1, <2>1 DEF TypeOK, Later, config, row, message
  <2>3. NotSentYet' /\ AttemptLeft'
    BY <2>1 DEF NotSentYet, AttemptLeft, Sent, Pending, config, row
  <2>4. next_attempt_at <= now' /\ now' <= reach
    BY <1>1, <1>2, <2>1 DEF InBudget, NotSentYet, TypeOK, Due, ToTurn, Later, reach
  <2>5. InBudget'
    BY <2>1, <2>4 DEF InBudget, Pending, reach, config, row
  <2> QED
    BY <1>0, <2>1, <2>2, <2>3, <2>5 DEF config
<1>7. CASE Refused
  <2>1. /\ phase = "turn" /\ phase' = "tried" /\ outcome' = "failed"
        /\ UNCHANGED <<config, now, row, ahead, last, message, faults>>
        /\ retry_at' \in Nat /\ retry_at' <= now + backoff_for(attempts + 1)
        /\ last' = Never => retry_at' = 0
    BY <1>7, RetryDelay DEF Refused, TypeOK
  <2>2. TypeOK'
    BY <2>1 DEF TypeOK, config, row, message
  <2>3. NotSentYet' /\ AttemptLeft'
    BY <2>1 DEF NotSentYet, AttemptLeft, Sent, Pending, config, row
  <2>4. now <= reach + PublishTimeout
        /\ retry_at' <= reach + PublishTimeout + backoff_for(attempts + 1)
    BY <1>1, <1>2, <2>1 DEF InBudget, TypeOK, reach
  <2>5. InBudget'
    BY <2>1, <2>4 DEF InBudget, Pending, reach, config, row
  <2> QED
    BY <1>0, <2>1, <2>2, <2>3, <2>5 DEF config
<1>8. ASSUME NEW delay \in Upto(PublishTimeout), NEW answered \in BOOLEAN, Send(delay, answered)
      PROVE  ClockInv'
  <2>1. /\ phase = "turn" /\ phase' = "tried" /\ outcome' \in {"acked", "failed"}
        /\ delay \in 0..PublishTimeout /\ now' = now + delay /\ last' = now
        /\ UNCHANGED <<config, row, ahead, faults>>
    BY <1>1, <1>8 DEF Send, Upto
  <2>2. now' \in Nat /\ last' \in Nat
    BY <1>1, <2>1 DEF TypeOK
  <2>3. /\ retry_at' \in Nat
        /\ outcome' = "failed" => retry_at' <= now' + backoff_for(attempts + 1)
    BY <1>8, <2>2, RetryDelay DEF Send, TypeOK
  <2>4. copies' \in Nat /\ stored' \in Nat \cup {Never}
    BY <1>8, <2>2 DEF Send, Arrive, TypeOK, message
  <2>5. TypeOK'
    BY <2>1, <2>2, <2>3, <2>4 DEF TypeOK, config, row
  <2>6. NotSentYet' /\ AttemptLeft'
    BY <2>1, <2>2 DEF NotSentYet, AttemptLeft, Sent, Never, Pending, config, row
  <2>7. /\ last' <= reach /\ now' <= reach + PublishTimeout /\ next_attempt_at <= now'
        /\ outcome' = "failed" =>
             retry_at' <= reach + PublishTimeout + backoff_for(attempts + 1)
    BY <1>1, <1>2, <2>1, <2>2, <2>3 DEF InBudget, TypeOK, reach
  <2>8. InBudget'
    BY <2>1, <2>7 DEF InBudget, Pending, reach, config, row
  <2>9. Span \in Nat
    BY SpanIsReach
  <2>10. last' <= Span
    BY <1>2, <1>3, <2>1, <2>2, <2>7, <2>9 DEF AttemptLeft
  <2> QED
    BY <1>0, <2>1, <2>5, <2>6, <2>8, <2>10 DEF config
\* The end of a batch.
<1>9. ASSUME EndBatch
      PROVE  /\ phase = "tried" /\ phase' = "sleeping" /\ Pending
             /\ outcome' = "none" /\ retry_at' = 0 /\ ahead' = 0
             /\ now' \in Nat /\ (~Sent => now' = 0)
             /\ next_attempt_at <= now' \/ ~Sent
             /\ now' <= reach + PublishTimeout + Batch(company)
  <2>1. company - ahead \in 0..company
    BY <1>1 DEF TypeOK
  <2>2. \E delay \in 0..Batch(company) : now' = IF Sent THEN now + delay ELSE 0
    BY <1>1, <1>9, <2>1 DEF EndBatch, Upto, MoveTo
  <2> QED
    BY <1>1, <1>2, <1>9, <2>2 DEF EndBatch, InBudget, AttemptLeft, TypeOK, reach
<1>10. CASE Commit
  <2>1. /\ status' \in {"pending", "published", "dead"}
        /\ status' = "pending" => outcome = "failed" /\ ~Exhausted
        /\ attempts' = IF outcome = "failed" THEN attempts + 1 ELSE attempts
        /\ next_attempt_at' = IF outcome = "failed" THEN retry_at ELSE next_attempt_at
        /\ UNCHANGED <<config, last, message, faults>>
        /\ outcome \in {"acked", "failed"}
    BY <1>9, <1>10 DEF Commit, InBudget
  <2>2. TypeOK'
    BY <1>1, <1>9, <1>10, <2>1 DEF Commit, TypeOK, config, message
  <2>3. NotSentYet'
    BY <1>9, <1>10, <2>1 DEF Commit, NotSentYet, Sent
  <2>4. AttemptLeft'
    BY <1>1, <1>9, <1>10, <2>1, PolicyAssumption
       DEF Commit, AttemptLeft, Pending, Exhausted, limit, Earlier, TypeOK, config
  <2>5. ASSUME Pending', Sent
        PROVE  Due' + ToTurn(company) <= Reach(company, attempts', faults)
    <3>1. attempts' = attempts + 1 /\ next_attempt_at' = retry_at
      BY <2>1, <2>5 DEF Pending
    <3>2. retry_at <= reach + PublishTimeout + backoff_for(attempts + 1)
      BY <1>9, <1>10, <2>1, <2>5 DEF Commit, InBudget, Pending, reach
    <3>3. Due' <= reach + PublishTimeout + backoff_for(attempts + 1) + Batch(company)
      BY <1>1, <1>2, <1>9, <1>10, <2>1, <2>2, <3>1, <3>2 DEF Commit, Due, TypeOK, config
    <3>4. Due' \in Nat
      BY <1>1, <2>1, <2>2 DEF Due, TypeOK, config
    <3> QED
      BY <1>1, <1>2, <3>1, <3>3, <3>4 DEF ToTurn, AttemptCost
  <2>6. Pending' => last <= Reach(company, attempts', faults)
    <3>1. AttemptCost(company) \in Nat /\ last <= reach /\ last \in Nat \cup {Never}
      BY <1>9, <1>10, Numbers DEF Commit, InBudget, TypeOK, reach
    <3> QED
      BY <1>2, <2>1, <3>1 DEF Pending, Never
  <2>7. InBudget'
    BY <1>9, <1>10, <2>1, <2>5, <2>6 DEF Commit, InBudget, Pending, Sent, config
  <2> QED
    BY <1>0, <2>1, <2>2, <2>3, <2>4, <2>7 DEF config
<1>11. CASE Rollback
  <2>1. /\ faults' = faults + 1 /\ faults' \in 0..MaxFaults
        /\ UNCHANGED <<config, row, last, message>>
    BY <1>1, <1>11 DEF Rollback, TypeOK
  <2>2. TypeOK'
    BY <1>1, <1>9, <1>11, <2>1 DEF Rollback, TypeOK, config, row, message
  <2>3. NotSentYet' /\ AttemptLeft'
    BY <1>9, <1>11, <2>1 DEF Rollback, NotSentYet, AttemptLeft, Sent, Pending, config, row
  <2>4. Sent => Due' + ToTurn(company) <= Reach(company, attempts, faults + 1)
    BY <1>1, <1>2, <1>9, <1>11, <2>1 DEF Rollback, Due, ToTurn, AttemptCost, OutageCost, config, row, TypeOK
  <2>5. last <= Reach(company, attempts, faults + 1)
    <3>1. /\ AttemptCost(company) \in Nat /\ OutageCost \in Nat
          /\ last <= reach /\ last \in Nat \cup {Never}
      BY <1>9, <1>11, Numbers DEF Rollback, InBudget, TypeOK, reach
    <3> QED
      BY <1>2, <3>1 DEF Never
  <2>6. InBudget'
    BY <1>9, <1>11, <2>1, <2>4, <2>5 DEF Rollback, InBudget, Pending, Sent, config, row
  <2> QED
    BY <1>0, <2>1, <2>2, <2>3, <2>6 DEF config
<1>12. CASE Crash
  <2>1. /\ faults' = faults + 1 /\ faults' \in 0..MaxFaults
        /\ phase # "stopped" /\ Pending /\ phase' = "stopped"
        /\ outcome' = "none" /\ retry_at' = 0 /\ ahead' = 0
        /\ UNCHANGED <<config, row, last, message>>
        /\ \E delay \in 0..RestartTime : now' = IF Sent THEN now + delay ELSE 0
    BY <1>1, <1>12 DEF Crash, Upto, MoveTo, TypeOK, Pending
  <2>2. TypeOK'
    BY <1>1, <2>1 DEF TypeOK, config, row, message
  <2>3. NotSentYet' /\ AttemptLeft'
    BY <2>1 DEF NotSentYet, AttemptLeft, Sent, Pending, config, row
  <2>4. Sent => Due <= reach + PublishTimeout
    BY <1>1, <1>2, <2>1 DEF InBudget, TypeOK, Due, ToTurn, reach
  <2>5. Sent => Due' <= Due + RestartTime
    BY <1>1, <2>1 DEF TypeOK, Due, config, row
  <2>6. Due \in Nat /\ Due' \in Nat
    BY <1>1, <2>1, <2>2 DEF TypeOK, Due, config
  <2>7. Sent => Due' + ConnectTimeout + ToTurn(company) <= Reach(company, attempts, faults + 1)
    BY <1>1, <1>2, <2>4, <2>5, <2>6 DEF ToTurn, AttemptCost, OutageCost
  <2>8. last <= Reach(company, attempts, faults + 1)
    <3>1. /\ AttemptCost(company) \in Nat /\ OutageCost \in Nat
          /\ last <= reach /\ last \in Nat \cup {Never}
      BY <2>1, Numbers DEF InBudget, TypeOK, reach
    <3> QED
      BY <1>2, <3>1 DEF Never
  <2>9. InBudget'
    BY <2>1, <2>7, <2>8 DEF InBudget, Pending, Sent, config, row
  <2> QED
    BY <1>0, <2>1, <2>2, <2>3, <2>9 DEF config
<1> QED
  BY <1>4, <1>5, <1>6, <1>7, <1>8, <1>10, <1>11, <1>12 DEF Next

LEMMA ClockStarts == Init => ClockInv
<1> SUFFICES ASSUME Init
             PROVE  ClockInv
  OBVIOUS
<1>1. TypeOK
  BY WindowAssumption, CompanyAssumption, PolicyAssumption, DelayAssumption DEF Init, TypeOK, Never
<1>2. NotSentYet /\ AttemptLeft
  BY PolicyAssumption, Numbers, <1>1 DEF Init, NotSentYet, AttemptLeft, Pending, Sent, Never
<1>3. Reach(company, 0, 0) \in Nat
  BY <1>1, ReachGrows
<1>4. InBudget
  BY <1>3 DEF Init, InBudget, Sent, Never
<1>5. last <= Span
  BY <1>1, SpanIsReach DEF Init, Never
<1> QED
  BY <1>1, <1>2, <1>4, <1>5 DEF ClockInv

LEMMA AlwaysClock == Spec => []ClockInv
<1>1. ClockInv /\ [Next]_vars => ClockInv'
  <2> SUFFICES ASSUME ClockInv, [Next]_vars
               PROVE  ClockInv'
    OBVIOUS
  <2>1. CASE Next
    BY <2>1, StepKeepsClock
  <2>2. CASE UNCHANGED vars
    BY <2>2 DEF vars, ClockInv, TypeOK, NotSentYet, AttemptLeft, InBudget, Due, Sent, Pending, Span
  <2> QED
    BY <2>1, <2>2
<1> QED
  BY <1>1, ClockStarts, PTL DEF Spec

\* The publishes of one outbox row span no more than its backoffs and the
\* cost of the attempts after the first, whatever the deployment, however
\* many rows share the batch, and wherever the faults fall (timing.py).
THEOREM SpanBounded == Spec => []SpanIsBounded
<1>1. ClockInv => SpanIsBounded
  BY DEF ClockInv, SpanIsBounded
<1> QED
  BY <1>1, AlwaysClock, PTL

-----------------------------------------------------------------------------
(* Deduplication. *)

\* A second copy needs a window that does not cover the span.
OnceInv ==
  /\ copies > 0 => stored \in Nat
  /\ copies > 1 => ~Covered

LEMMA StepKeepsOnce ==
  ASSUME ClockInv, ClockInv', OnceInv, Next
  PROVE  OnceInv'
<1>1. UNCHANGED config
  BY Zenon DEF Next, Boot, OtherBatch, Claim, Refused, Send, Commit, Rollback, Crash, EndBatch, config
<1>2. Span' = Span /\ (Covered' <=> Covered)
  BY <1>1 DEF Span, Covered, config
<1>3. CASE UNCHANGED message
  BY <1>2, <1>3 DEF OnceInv, message
<1>4. ASSUME NEW delay \in Upto(PublishTimeout), NEW answered \in BOOLEAN,
             Send(delay, answered), NEW at \in {now, now'}, Arrive(at)
      PROVE  OnceInv'
  <2>1. /\ now \in Nat /\ PublishTimeout \in Nat /\ delay \in 0..PublishTimeout
        /\ now' = now + delay /\ last' = now /\ phase = "turn" /\ window \in Nat
        /\ copies \in Nat
    BY <1>4, Numbers DEF ClockInv, TypeOK, Send, Upto
  <2>2. /\ now <= Span /\ Span \in Nat
    BY <1>2, <2>1, SpanIsReach DEF ClockInv
  <2>3. at \in Nat /\ (Covered => at <= window)
    BY <2>1, <2>2 DEF Covered
  <2>4. CASE UNCHANGED message
    BY <1>3, <2>4
  <2>5. CASE copies' = copies + 1 /\ stored' = at /\ (copies = 0 \/ at - stored > window)
    <3>1. copies # 0 => ~Covered
      BY <2>1, <2>3, <2>5 DEF OnceInv
    <3> QED
      BY <1>2, <2>1, <2>3, <2>5, <3>1 DEF OnceInv
  <2> QED
    BY <1>4, <2>4, <2>5 DEF Arrive
<1>5. ASSUME NEW delay \in Upto(PublishTimeout), NEW answered \in BOOLEAN, Send(delay, answered)
      PROVE  OnceInv'
  BY <1>3, <1>4, <1>5 DEF Send
<1> QED
  BY <1>3, <1>5 DEF Next, Boot, OtherBatch, Claim, Refused, Commit, Rollback, Crash

LEMMA AlwaysOnce == Spec => []OnceInv
<1>1. Init => OnceInv
  BY DEF Init, OnceInv
<1>2. ClockInv /\ ClockInv' /\ OnceInv /\ [Next]_vars => OnceInv'
  <2> SUFFICES ASSUME ClockInv, ClockInv', OnceInv, [Next]_vars
               PROVE  OnceInv'
    OBVIOUS
  <2>1. CASE Next
    BY <2>1, StepKeepsOnce
  <2>2. CASE UNCHANGED vars
    BY <2>2 DEF vars, OnceInv, Span, Covered
  <2> QED
    BY <2>1, <2>2
<1> QED
  BY <1>1, <1>2, AlwaysClock, PTL DEF Spec

\* Whatever the deployment: where the duplicate window covers the span of a
\* row's publishes and one answer, the stream never holds its event twice,
\* through lost answers, rollbacks and crashes (timing.py, "Deduplication
\* only holds if every retry of an outbox row lands inside the stream's
\* duplicate window").
THEOREM CoveredStoresOnce == Spec => []CoveredIsStoredOnce
<1>1. ClockInv /\ OnceInv => CoveredIsStoredOnce
  BY DEF ClockInv, TypeOK, OnceInv, CoveredIsStoredOnce
<1> QED
  BY <1>1, AlwaysClock, AlwaysOnce, PTL
=============================================================================
