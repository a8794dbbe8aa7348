SPECIFICATION Spec
CONSTANTS
  Keys = {k1}
  Values = {a, b}
  Monitors = {m1}
  Ctor = Ctor
  Starters = {s1}
  Stoppers = {p1}
  Nobody = Nobody
  MaxVersion = 2
  MaxFailures = 0
CHECK_DEADLOCK FALSE
PROPERTIES ChangesNotified
