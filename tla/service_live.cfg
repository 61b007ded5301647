CONSTANTS
  Requests = {t1, t2}
  Units = {u1}
  None = None
  ArtifactsPerRun = 1
  MaxCalls = 3
  MaxFaults = 1
  MaxCrashes = 0
SPECIFICATION FairSpec
PROPERTIES TerminalIsFinal CallsReturn ScheduledRunSettles
