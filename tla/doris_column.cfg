\* A row written without the column that its event has.
SPECIFICATION Spec
CONSTANTS
  Targets = {1, 2}
  Keys = {1, 2, 3}
  Logs <- AllLogs
  BatchSize = 2
  MaxRuns = 3
  MaxReconnects = 1
  MaxResends = 1
  MaxSaveFailures = 1
INVARIANT ColumnForwarded
CHECK_DEADLOCK FALSE
