\* The first snapshot of two tables, two claims, one change of the source;
\* two jobs that wait for one slot.
SPECIFICATION SnapshotsSpec
CONSTANTS
  Tables = 2
  MaxKey = 3
  ChunkSize = 2
  Confs <- AllConfs
  FirstRows <- TwoTables
  MaxRuns = 2
  MaxOps = 5
  MaxChanges = 1
  MaxRetries = 1
  GateJobs = {"j1", "j2"}
  Limit = 1
  MaxRequests = 3
  MaxEndings = 1
INVARIANTS
  RowsComplete
  RowsOnce
  ProgressCovers
  NoLateWrite
  QueueServed
  WithinLimit
PROPERTY ProgressAdvances
CHECK_DEADLOCK FALSE
