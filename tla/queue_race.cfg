SPECIFICATION Spec
CONSTANTS
  m1 = m1
  m2 = m2
  c1 = c1
  c2 = c2
  Msgs <- OneMsg
  Priority <- OnePriority
  Consumers <- TwoConsumers
  CallerTTL <- NoCallerTTL
  MessageTTL = 3
  RetryDelay = 1
  MaxRetries = 2
  BatchSize = 1
  CompletedTTL = 2
  Epoch = 1000
  Horizon = 1005
  MaxFaults = 1
INVARIANTS NotLost DeadLetterEarned
SYMMETRY ConsumerSymmetry
CHECK_DEADLOCK FALSE
