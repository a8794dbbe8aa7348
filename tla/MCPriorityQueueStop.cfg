SPECIFICATION FairSpec
CONSTANTS
  Messages = {lo}
  High = {}
  Receivers = {h1, l1}
  HighWorkers = {h1}
  BatchSize = 1
  MaxConcurrentCalls = 1
  MaxDeliveryCount = 2
  MaxFaults = 0
  MaxStops = 1
CHECK_DEADLOCK FALSE
PROPERTIES SubscriptionsReturn
