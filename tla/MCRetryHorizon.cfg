\* Quarters of a second.  Two policies and two windows, of which the gate
\* refuses some; alone or with two other rows due; two crashes and rollbacks.
CONSTANTS
  Windows = {40, 140}
  Policies = {1, 3}
  RowMaxAttempts = 2
  BatchSize = 3
  Companies = {0, 2}
  BaseDelay = 4
  CapDelay = 8
  JitterPart = 4
  LockWait = 1
  ConnectTimeout = 2
  PublishTimeout = 4
  RestartTime = 10
  IdleInterval = 1
  MaxFaults = 2
CHECK_DEADLOCK FALSE
SPECIFICATION Spec
INVARIANTS SpanIsBounded CoveredIsStoredOnce
