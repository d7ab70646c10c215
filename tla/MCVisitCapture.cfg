\* Two keys, three visits, two deaths, one failed write, a flag that moves freely.
CONSTANTS
  k1 = k1
  k2 = k2
  Key = {k1, k2}
  NoVisit = NoVisit
  NoKey = NoKey
  MaxVisits = 3
  MaxAttempts = 2
  MaxCrashes = 2
  MaxFaults = 1
  FlagValues = {TRUE, FALSE}
SPECIFICATION Spec
 
INVARIANTS TypeOK AtMostOnePublish TrackerRunnerAgree OpenVisitDurable ScratchHasOwner
SYMMETRY KeySymmetry
