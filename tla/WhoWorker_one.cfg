SPECIFICATION FairSpec
CONSTANTS
  Workers = {w1}
  Clients = {c1}
  Callers <- MCCallers
  Jobs = {1}
  Stages <- MCStages
  LeaseTicks = 1
  MaxAge = 1
  MaxRetries = 1
  MaxDossiers = 4
  MaxCrashes = 1
  MaxFaults = 1
  None = None
  NoJob = NoJob
INVARIANTS TypeOK JobsCoherent CleanCompletion OneDossierPerAttempt
PROPERTIES CancelHolds EveryJobEnds
