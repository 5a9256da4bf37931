\* Receipts of a snapshot that is read again after the source changed.
SPECIFICATION Spec
CONSTANTS
  Tables = 2
  MaxKey = 3
  ChunkSize = 2
  Confs <- AllConfs
  FirstRows <- TwoTables
  MaxRuns = 2
  MaxOps = 5
  MaxChanges = 1
  MaxRetries = 1
INVARIANT ReceiptsExact
CHECK_DEADLOCK FALSE
