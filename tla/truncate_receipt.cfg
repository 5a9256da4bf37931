\* A spool that a receipt covers in part, and a truncate that leaves no intent.
SPECIFICATION Spec
CONSTANTS
  Tables = 1
  MaxKey = 2
  ChunkSize = 2
  Confs <- TruncatedByTrino
  FirstRows <- OneRow
  MaxRuns = 3
  MaxOps = 2
  MaxChanges = 2
  MaxRetries = 0
INVARIANT SkippedRowsThere
CHECK_DEADLOCK FALSE
