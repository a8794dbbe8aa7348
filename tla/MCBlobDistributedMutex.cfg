SPECIFICATION Spec
CONSTANTS
  Instances = {w1, w2}
  LeaseIds = {l1, l2, l3, l4}
  NoId = NoId
  LeaseDuration = 5
  RenewInterval = 3
  AcquireAttemptInterval = 6
  TaskInterval = 1
  StopTimeout = 4
  MaxLatency = 1
  MaxWork = 1
  MaxFailures = 2
  MaxStray = 1
SYMMETRY Symmetric
INVARIANTS TypeOK LeaderHoldsLease OneLeader StopInTime
PROPERTIES Mutex
