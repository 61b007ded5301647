CONSTANTS
  Requests = {t1, t2}
  Units = {u1}
  None = None
  ArtifactsPerRun = 2
  MaxCalls = 3
  MaxFaults = 0
  MaxCrashes = 1
SPECIFICATION Spec
INVARIANT BlockingRunIsAttended
