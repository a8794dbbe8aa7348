SPECIFICATION RoleFairSpec
CONSTANTS
  Keys = {k1}
  Values = {a, b}
  Monitors = {m1, m2}
  Ctor = Ctor
  Starters = {Run, s2}
  Stoppers = {OnStop, p1}
  Nobody = Nobody
  RunThread = Run
  StopThread = OnStop
  MaxVersion = 3
  MaxFailures = 1
CHECK_DEADLOCK FALSE
INVARIANTS TypeOK UpToDate OneMonitor StoppedForGood RoleTypeOK
PROPERTIES CacheConverges CleanupUnnoticed RoleRecovers OnStopEnds
