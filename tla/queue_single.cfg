SPECIFICATION FairSpec
CONSTANTS
  m1 = m1
  m2 = m2
  c1 = c1
  c2 = c2
  Msgs <- TwoMsgs
  Priority <- TwoPriorities
  Consumers <- OneConsumer
  CallerTTL <- ShortForOne
  MessageTTL = 100
  RetryDelay = 1
  MaxRetries = 2
  BatchSize = 2
  CompletedTTL = 2
  Epoch = 1000
  Horizon = 1004
  MaxFaults = 0
INVARIANTS TypeOK OneHome ProcessingIsHeld
PROPERTIES ImplementsWorkQueue EventuallySettled
CHECK_DEADLOCK FALSE
