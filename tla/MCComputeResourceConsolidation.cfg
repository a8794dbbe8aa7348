SPECIFICATION FairSpec
CONSTANTS
  Tasks = {t1, t2, t3}
  MaxFaults = 2
CHECK_DEADLOCK FALSE
INVARIANTS TypeOK AwaitedTasksEnded FaultsSurface
PROPERTIES RunEnds OnStopEnds NoNewRounds
