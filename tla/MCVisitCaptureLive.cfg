\* One key whose visits continue into the next; the flag may move for ever.
CONSTANTS
  k1 = k1
  k2 = k2
  Key = {k1}
  NoVisit = NoVisit
  NoKey = NoKey
  MaxVisits = 2
  MaxAttempts = 2
  MaxCrashes = 1
  MaxFaults = 1
  FlagValues = {TRUE, FALSE}
SPECIFICATION FairSpec
PROPERTIES EventuallySettled RecoveryTerminates
