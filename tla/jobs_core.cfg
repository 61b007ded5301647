SPECIFICATION FairSpec
CONSTANTS
  Requests <- MCRequests
  MaxJobs = 2
  MaxLines = 3
  MaxSpawnFaults = 1
  MaxCrashes = 1
INVARIANTS VerdictIsTrue ProgressIsTrue OneCommand RunningHasWorker
PROPERTY JobSettles
CHECK_DEADLOCK FALSE
