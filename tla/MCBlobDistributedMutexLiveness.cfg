SPECIFICATION FairSpec
CONSTANTS
  Instances = {w1, w2}
  LeaseIds = {l1, l2, l3}
  NoId = NoId
  LeaseDuration = 3
  RenewInterval = 1
  AcquireAttemptInterval = 4
  TaskInterval = 1
  StopTimeout = 2
  MaxLatency = 1
  MaxWork = 0
  MaxFailures = 1
  MaxStray = 0
PROPERTIES LeaderElected
