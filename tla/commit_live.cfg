\* Two Iceberg tables whose batches hold back one checkpoint, and one stream failure.
SPECIFICATION FairSpec
CONSTANTS
  Log <- BarrierLog
  Source = {1, 2}
  TargetOf <- TwoTargets
  BatchSize = 2
  MaxRuns = 2
  MaxOps = 3
  MaxReconnects = 1
  EvidenceExpires = FALSE
PROPERTY CatchesUp
\* The bounds on runs and operations let the system come to rest.
CHECK_DEADLOCK FALSE
