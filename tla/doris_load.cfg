\* The Doris sink alone, three runs.
SPECIFICATION Spec
CONSTANTS
  Targets = {1, 2}
  Keys = {1, 2, 3}
  Logs <- AllLogs
  BatchSize = 2
  MaxRuns = 3
  MaxReconnects = 1
  MaxResends = 1
  MaxSaveFailures = 1
INVARIANTS
  TypeOK
  CheckpointCovers
  ReplayInOrder
PROPERTY SchemaInOrder
CHECK_DEADLOCK FALSE
