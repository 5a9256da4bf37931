\* The small components, one at a time.
SPECIFICATION ComponentsSpec
CONSTANTS
  Targets = {1, 2}
  Keys = {1, 2, 3}
  Logs <- AllLogs
  BatchSize = 2
  MaxRuns = 2
  MaxReconnects = 1
  MaxResends = 1
  MaxSaveFailures = 1
  Master = "api"
  FirstWorker = "w1"
  Workers = {"w1", "w2"}
  MaxFailures = 1
  MaxSubs = 2
  MaxFaults = 1
  MaxCrashes = 1
  Incidents = {"active"}
  None = "none"
  Reporters = {"source"}
  Monitor = "monitor"
  MaxChanges = 4
  MaxRefusals = 2
  MaxStops = 1
INVARIANTS
  CheckpointCovers
  ReplayInOrder
  ToldOnce
PROPERTIES
  SchemaInOrder
  CatchesUp
  FailureTold
  IncidentTold
CHECK_DEADLOCK FALSE
