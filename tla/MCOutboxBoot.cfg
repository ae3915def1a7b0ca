\* The broker is down at boot and returns; nothing else goes wrong.
CONSTANTS
  m1 = m1
  m2 = m2
  p1 = p1
  p2 = p2
  Rows <- TwoRows
  Publishers <- OnePublisher
  BatchSize = 2
  PolicyMaxAttempts = 2
  RowMaxAttempts = 2
  Lossy = FALSE
  MaxFaults = 0
CHECK_DEADLOCK FALSE
SPECIFICATION FairSpec
PROPERTY DrainsOnceBrokerReturns
