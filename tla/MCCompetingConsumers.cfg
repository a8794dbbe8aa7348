SPECIFICATION FairSpec
CONSTANTS
  Messages = {m1, x}
  Invalid = {x}
  Receivers = {r1, r2}
  BatchSize = 1
  MaxConcurrentCalls = 1
  MaxDeliveryCount = 3
  MaxFaults = 2
  MaxStops = 2
CHECK_DEADLOCK FALSE
INVARIANTS TypeOK DeliveriesExplained InvalidKept
PROPERTIES AtLeastOnce Settled QueueReturns
