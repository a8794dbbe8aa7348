SPECIFICATION FairSpec
CONSTANTS
  Messages = {m1, m2}
  NoMessage = NoMessage
  Poison = {m2}
  N = 3
  MaxServiceBusDeliveryCount = 2
  SenderLimit = 1
  DefaultLimit = 3
  MaxFaults = 1
  MaxStops = 1
CHECK_DEADLOCK FALSE
INVARIANTS TypeOK NoMessageLost OnceWithoutFaults HealthyPasses
PROPERTIES HopByHop Delivered
