\* What the toasts say of a backup, a restore and an update against what was done.
CONSTANTS
  MaxBackups = 2
  MaxJobs = 2
  MaxBackupLists = 1
  Shut = Shut
SPECIFICATION MaintenanceSpec
INVARIANT SuccessIsReal
CHECK_DEADLOCK FALSE
