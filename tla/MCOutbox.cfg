\* Two rows in batches of two, two replicas, one fault, lost answers.
CONSTANTS
  m1 = m1
  m2 = m2
  p1 = p1
  p2 = p2
  Rows <- TwoRows
  Publishers <- TwoPublishers
  BatchSize = 2
  PolicyMaxAttempts = 2
  RowMaxAttempts = 3
  Lossy = TRUE
  MaxFaults = 1
CHECK_DEADLOCK FALSE
SPECIFICATION FairSpec
INVARIANTS TypeOK AttemptsWithinLimit ClaimsAreExclusive
PROPERTIES ImplementsDelivery EventuallySettled
