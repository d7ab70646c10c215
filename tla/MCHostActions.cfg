\* Two requests against a history of one; two deaths of either process, one
\* failed write of either file.
CONSTANTS
  NoId = NoId
  WorkerMaxAge = 0
  PendingMaxAge = 1
  RunningMaxAge = 1
  HistoryLimit = 1
  SeenLimit = 2
  MaxRequests = 2
  MaxCrashes = 2
  MaxFaults = 1
  MaxSeenFaults = 1
SPECIFICATION FairSpec
INVARIANTS TypeOK AtMostOnce StatusIsTrue
PROPERTIES SettledIsFinal SlotIsFreed
CHECK_DEADLOCK FALSE
