SPECIFICATION FairSpec
CONSTANTS
  Messages = {a, b, lo}
  High = {a, b}
  Receivers = {h1, h2, l1}
  HighWorkers = {h1, h2}
  BatchSize = 1
  MaxConcurrentCalls = 1
  MaxDeliveryCount = 2
  MaxFaults = 1
  MaxStops = 1
CHECK_DEADLOCK FALSE
INVARIANTS TypeOK
PROPERTIES AtLeastOnce NothingLostInService Settled TopicReturns
