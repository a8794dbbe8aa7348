SPECIFICATION Spec
CONSTANTS
  Tasks = {t1, t2}
  MaxFaults = 0
CHECK_DEADLOCK FALSE
INVARIANTS StopWaitsForAll
