\* Seconds.  Everything as shipped but the window, which is the smallest the
\* gate accepts with that; full batches, and no fault.
CONSTANTS
  Windows = {1023}
  Policies = {8}
  RowMaxAttempts = 8
  BatchSize = 100
  Companies = {99}
  BaseDelay = 1
  CapDelay = 300
  JitterPart = 4
  LockWait = 5
  ConnectTimeout = 5
  PublishTimeout = 5
  RestartTime = 60
  IdleInterval = 1
  MaxFaults = 0
CHECK_DEADLOCK FALSE
SPECIFICATION Spec
INVARIANT GateStoresOnce
