\* One key, seen and lost again; the grace, the cap and the pre-roll move between
\* calls and the card may be below the floor at any copy.
CONSTANTS
  k1 = k1
  k2 = k2
  k3 = k3
  Key = {k1}
  MaxKeys = 1
  MinGrace = 1
  MaxGrace = 2
  MinCap = 2
  MaxCap = 3
  MaxPreRoll = 1
  Segment = 1
  FloorReadings = {TRUE, FALSE}
  NoVisit = NoVisit
  Horizon = 4
  MaxVisits = 3
SPECIFICATION Spec
INVARIANTS TypeOK ContinuationAdjacent OverlapAtMostPreRoll FootageMatchesWindow
\* Time and the identifiers are bounded: the model stops at the bounds.
CHECK_DEADLOCK FALSE
