\* One crash with a visit open, then a failed recovery, then the next visit.
CONSTANTS
  k1 = k1
  k2 = k2
  Key = {k1}
  NoVisit = NoVisit
  NoKey = NoKey
  MaxVisits = 2
  MaxAttempts = 3
  MaxCrashes = 1
  MaxFaults = 0
  FlagValues = {TRUE}
SPECIFICATION Spec
PROPERTIES FailedEntryKept
