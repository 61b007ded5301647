CONSTANTS
  Requests = {t1, t2}
  Units = {u1, u2}
  None = None
  ArtifactsPerRun = 2
  MaxCalls = 3
  MaxFaults = 1
  MaxCrashes = 1
SPECIFICATION Spec
SYMMETRY Symmetry
INVARIANTS TypeOK NewestOnlyActive WorkerOwnsRows SucceededIsBacked
PROPERTY ImplementsLedger
