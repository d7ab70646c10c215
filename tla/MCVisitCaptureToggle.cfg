\* No crash, no failed write: the flag is switched off and on again.
CONSTANTS
  k1 = k1
  k2 = k2
  Key = {k1}
  NoVisit = NoVisit
  NoKey = NoKey
  MaxVisits = 1
  MaxAttempts = 3
  MaxCrashes = 0
  MaxFaults = 0
  FlagValues = {TRUE, FALSE}
SPECIFICATION Spec
PROPERTIES FinalizeKeepsScratch
