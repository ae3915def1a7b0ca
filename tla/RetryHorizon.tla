----------------------------- MODULE RetryHorizon -----------------------------
(***************************************************************************)
(* The clock that Outbox leaves out: how far apart the publishes of one    *)
(* outbox row can be, and whether the duplicate window of the stream       *)
(* covers them.  timing.py computes a retry horizon from the deployed      *)
(* policy and delays, and config.py refuses to start a service whose       *)
(* horizon takes more than the safe share of the window.                   *)
(*                                                                         *)
(* The module follows one row through the drains of one replica.  The      *)
(* other rows of a batch appear only as the time they take: drain_once     *)
(* publishes a batch one row after the other, each up to the publish       *)
(* timeout, in one transaction whose outcomes count only at its commit.    *)
(* Every action advances the clock by the time it takes, which is either   *)
(* nothing or the upper bound the configuration names for it: the span     *)
(* between two instants only grows with the delays between them.  The      *)
(* clock starts when the row is first sent; nothing before matters here.   *)
(***************************************************************************)
EXTENDS Integers

CONSTANTS
  Windows,               \* OUTBOX_DUPLICATE_WINDOW_SECONDS, one per deployment
  Policies,              \* OUTBOX_MAX_ATTEMPTS
  RowMaxAttempts,        \* outbox_events.max_attempts
  BatchSize,
  Companies,             \* how many other rows may be due at a time
  BaseDelay, CapDelay,   \* the backoff curve, in units of the clock
  JitterPart,            \* jitter is one JitterPart-th of the raw delay
  LockWait, ConnectTimeout, PublishTimeout, RestartTime, IdleInterval,
  MaxFaults              \* bound on crashes and rollbacks

ASSUME DelayAssumption ==
  {BaseDelay, CapDelay, LockWait, ConnectTimeout, PublishTimeout, RestartTime,
   IdleInterval, MaxFaults} \subseteq Nat
ASSUME PolicyAssumption ==
  /\ Policies \subseteq Nat \ {0}
  /\ RowMaxAttempts \in Nat \ {0}
  /\ JitterPart \in Nat \ {0}
ASSUME WindowAssumption == Windows \subseteq Nat
\* The row is never crowded out of a batch by older ones.
ASSUME CompanyAssumption == Companies \subseteq 0..(BatchSize - 1)

VARIABLES
  window, max_attempts, company,    \* the deployment
  phase,             \* where the replica is
  now,
  status, attempts, next_attempt_at,    \* the columns of the row
  outcome, retry_at, \* what the open transaction will write
  ahead,             \* rows published before it in the open batch
  last,              \* when it was last sent
  copies, stored,    \* its messages in the stream, and when the last came
  faults

config  == <<window, max_attempts, company>>
row     == <<status, attempts, next_attempt_at>>
staged  == <<outcome, retry_at, ahead>>
message == <<copies, stored>>
vars    == <<window, max_attempts, company, phase, now, status, attempts,
             next_attempt_at, outcome, retry_at, ahead, last, copies, stored,
             faults>>

Never == -1

Sent == last # Never
Upto(delay) == {0, delay}
Earlier(s, t) == IF s < t THEN s ELSE t
Later(s, t)   == IF s < t THEN t ELSE s

\* The clock moves on to t, if it has started.
MoveTo(t) == now' = IF Sent THEN t ELSE 0

-----------------------------------------------------------------------------
(* timing.py *)

PowerOfTwo[n \in Nat] == IF n = 0 THEN 1 ELSE 2 * PowerOfTwo[n - 1]

raw(attempt) == Earlier(BaseDelay * PowerOfTwo[Later(attempt - 1, 0)], CapDelay)

\* RetryPolicy.backoff_for: the longest delay after so many failures.
backoff_for(attempt) == raw(attempt) + raw(attempt) \div JitterPart

per_attempt == LockWait + ConnectTimeout + PublishTimeout + RestartTime + IdleInterval

\* The backoffs between n attempts; the last one schedules none.
Backoffs[n \in Nat] == IF n <= 1 THEN 0 ELSE Backoffs[n - 1] + backoff_for(n - 1)

worst_case_retry_horizon == max_attempts * per_attempt + Backoffs[max_attempts]

\* validate_duplicate_window, with the shipped safety margin of three quarters.
WindowIsSafe == 4 * worst_case_retry_horizon <= 3 * window

-----------------------------------------------------------------------------

Init ==
  /\ window \in Windows /\ max_attempts \in Policies /\ company \in Companies
  /\ phase = "stopped"
  /\ now = 0
  /\ status = "pending" /\ attempts = 0 /\ next_attempt_at = 0
  /\ outcome = "none" /\ retry_at = 0 /\ ahead = 0
  /\ last = Never
  /\ copies = 0 /\ stored = Never
  /\ faults = 0

\* The service starts, behind enforce_duplicate_window_invariant, and connects.
Boot ==
  /\ phase = "stopped"
  /\ WindowIsSafe
  /\ \E delay \in Upto(ConnectTimeout) : MoveTo(now + delay)
  /\ phase' = "sleeping"
  /\ UNCHANGED <<config, row, staged, last, message, faults>>

\* A batch that was claimed before the row was due and holds the loop up.
OtherBatch ==
  /\ phase = "sleeping" /\ status = "pending"
  /\ now < next_attempt_at
  /\ \E start \in {now, next_attempt_at - 1}, delay \in Upto(company * PublishTimeout) :
       MoveTo(start + delay)
  /\ UNCHANGED <<config, phase, row, staged, last, message, faults>>

\* The first poll that finds the row due claims it, behind older rows.
Claim ==
  /\ phase = "sleeping" /\ status = "pending"
  /\ ahead' \in 0..company
  /\ \E nap \in Upto(IdleInterval + LockWait), delay \in Upto(ahead' * PublishTimeout) :
       MoveTo(Later(now, next_attempt_at) + nap + delay)
  /\ phase' = "turn"
  /\ UNCHANGED <<config, row, outcome, retry_at, last, message, faults>>

\* The stream drops a message id it has stored within the window (external).
Arrive(at) ==
  IF copies = 0 \/ at - stored > window
  THEN copies' = copies + 1 /\ stored' = at
  ELSE UNCHANGED message

\* compute_backoff, counted from the failure.
Retry(at) ==
  \E delay \in {raw(attempts + 1) - raw(attempts + 1) \div JitterPart,
                backoff_for(attempts + 1)} :
    retry_at' = IF last' = Never THEN 0 ELSE at + delay

\* publish on a connection that is not ready raises at once.
Refused ==
  /\ phase = "turn"
  /\ phase' = "tried"
  /\ outcome' = "failed"
  /\ UNCHANGED <<config, now, row, ahead, last, message, faults>>
  /\ Retry(now)

\* The row is sent; the answer comes, or the call raises, within the publish
\* timeout.  A message that is not answered may have arrived all the same.
Send(delay, answered) ==
  /\ phase = "turn"
  /\ phase' = "tried"
  /\ now' = now + delay
  /\ last' = now
  /\ outcome' = IF answered THEN "acked" ELSE "failed"
  /\ IF answered THEN UNCHANGED retry_at ELSE Retry(now')
  /\ \/ Arrive(now)
     \/ Arrive(now')
     \/ ~answered /\ UNCHANGED message
  /\ UNCHANGED <<config, row, ahead, faults>>

\* Mutant: the limit stored in the row, not the one the gate was given.
MutantLimit == RowMaxAttempts

\* _record_failure.
limit == Earlier(max_attempts, RowMaxAttempts)

\* Mutant: the failure that is being recorded is not counted.
MutantExhausted == attempts >= limit

Exhausted == attempts + 1 >= limit

\* The transaction is over, once the rest of the batch has been published.
EndBatch ==
  /\ phase = "tried"
  /\ \E delay \in Upto((company - ahead) * PublishTimeout) : MoveTo(now + delay)
  /\ phase' = "sleeping"
  /\ outcome' = "none" /\ retry_at' = 0 /\ ahead' = 0

Commit ==
  /\ EndBatch
  /\ status' = IF outcome = "acked" THEN "published"
               ELSE IF Exhausted THEN "dead" ELSE "pending"
  /\ attempts' = IF outcome = "failed" THEN attempts + 1 ELSE attempts
  /\ next_attempt_at' = IF outcome = "failed" THEN retry_at ELSE next_attempt_at
  /\ UNCHANGED <<config, last, message, faults>>

\* A database error: nothing of the batch is written, the attempt included.
Rollback ==
  /\ faults < MaxFaults /\ faults' = faults + 1
  /\ EndBatch
  /\ UNCHANGED <<config, row, last, message>>

\* The process is killed, with the open transaction, and rescheduled.
Crash ==
  /\ faults < MaxFaults /\ faults' = faults + 1
  /\ phase # "stopped" /\ status = "pending"
  /\ phase' = "stopped"
  /\ \E delay \in Upto(RestartTime) : MoveTo(now + delay)
  /\ outcome' = "none" /\ retry_at' = 0 /\ ahead' = 0
  /\ UNCHANGED <<config, row, last, message>>

Next ==
  \/ Boot \/ OtherBatch \/ Claim \/ Refused \/ Commit \/ Rollback \/ Crash
  \/ \E delay \in Upto(PublishTimeout), answered \in BOOLEAN : Send(delay, answered)

Spec == Init /\ [][Next]_vars

-----------------------------------------------------------------------------
(* Properties *)

\* What an attempt costs beside others: up to a batch of them is published
\* between a failure and the commit, or before the next claim, and up to a
\* batch of them before the row is sent again.  What an outage adds.
Batch(others) == others * PublishTimeout
AttemptCost(others) == LockWait + PublishTimeout + IdleInterval + 2 * Batch(others)
OutageCost == ConnectTimeout + RestartTime

\* From the first publish of a row to its last: the attempts that follow the
\* first, those whose record a fault takes along included.
Span ==
  (max_attempts - 1 + MaxFaults) * AttemptCost(company)
    + MaxFaults * OutageCost + Backoffs[max_attempts]

\* However its drains, failures, crashes and rollbacks fall, the publishes of
\* a row span no more than its backoffs, the cost of each attempt that follows
\* the first and that of each fault.  worst_case_retry_horizon is at least
\* this for a row that is alone and meets at most one fault.
SpanIsBounded == last <= Span

\* The stream remembers an event until the last publish has been answered.
Covered == Span + PublishTimeout <= window

\* timing.py, "Deduplication only holds if every retry of an outbox row lands
\* inside the stream's duplicate window": where the window covers the span,
\* through lost answers, late messages, rollbacks and crashes, no event is in
\* the stream twice.
CoveredIsStoredOnce == Covered => copies <= 1

\* config.py, "a service configured such that a retry could escape
\* deduplication fails loudly instead of silently delivering an event twice":
\* what passes the gate never has an event in the stream twice.  It does not
\* hold: the horizon counts a row without the others of its batches, and each
\* crash once however many there are.
GateStoresOnce == copies <= 1
=============================================================================
