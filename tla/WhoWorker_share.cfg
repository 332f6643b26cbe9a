SPECIFICATION Spec
CONSTANTS
  Workers = {w1, w2}
  Clients = {c1}
  Callers <- MCCallers
  Jobs = {1}
  Stages <- MCStages
  LeaseTicks = 1
  MaxAge = 1
  MaxRetries = 0
  MaxDossiers = 2
  MaxCrashes = 0
  MaxFaults = 0
  None = None
  NoJob = NoJob
INVARIANT OneWorkerPerJob
