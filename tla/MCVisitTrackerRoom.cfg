\* Three keys and room for two, over a longer time with steady knobs: an eviction has
\* to choose between a visit that has been going on for long and one that was not seen
\* for long, and a subject who stays runs into the cap.  The properties do not look at
\* footage, so copies are exact.
CONSTANTS
  k1 = k1
  k2 = k2
  k3 = k3
  Key = {k1, k2, k3}
  MaxKeys = 2
  MinGrace = 1
  MaxGrace = 1
  MinCap = 3
  MaxCap = 3
  MaxPreRoll = 1
  Segment = 0
  FloorReadings = {TRUE, FALSE}
  NoVisit = NoVisit
  Horizon = 4
  MaxVisits = 3
SPECIFICATION Spec
INVARIANTS WindowBounded
PROPERTIES NoVisitVanishes
SYMMETRY KeySymmetry
\* Time and the identifiers are bounded: the model stops at the bounds.
CHECK_DEADLOCK FALSE
