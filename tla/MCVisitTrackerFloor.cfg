\* One key whose card drops below the worker's floor while a visit is open.
\* One unit stands for the 10 s duration tolerance, the grace is 3 of them.
CONSTANTS
  k1 = k1
  k2 = k2
  k3 = k3
  Key = {k1}
  MaxKeys = 1
  MinGrace = 3
  MaxGrace = 3
  MinCap = 5
  MaxCap = 5
  MaxPreRoll = 1
  Segment = 1
  FloorReadings = {TRUE, FALSE}
  NoVisit = NoVisit
  Horizon = 6
  MaxVisits = 2
SPECIFICATION Spec
INVARIANTS FinalizeMatchesFootage
CHECK_DEADLOCK FALSE
