SPECIFICATION RoleSpec
CONSTANTS
  Keys = {k1}
  Values = {a, b}
  Monitors = {m1}
  Ctor = Ctor
  Starters = {Run}
  Stoppers = {OnStop}
  Nobody = Nobody
  RunThread = Run
  StopThread = OnStop
  MaxVersion = 2
  MaxFailures = 0
CHECK_DEADLOCK FALSE
PROPERTIES OnStopCleansUp
