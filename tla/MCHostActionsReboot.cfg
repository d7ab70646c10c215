\* One request whose execution kills the worker; no write fails.
CONSTANTS
  NoId = NoId
  WorkerMaxAge = 0
  PendingMaxAge = 1
  RunningMaxAge = 1
  HistoryLimit = 1
  SeenLimit = 1
  MaxRequests = 1
  MaxCrashes = 2
  MaxFaults = 0
  MaxSeenFaults = 0
SPECIFICATION Spec
INVARIANTS RebootResolves
CHECK_DEADLOCK FALSE
