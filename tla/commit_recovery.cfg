\* Two source tables share an Iceberg table; three claims of the job.
SPECIFICATION Spec
CONSTANTS
  Log <- SharedLog
  Source = {1, 2}
  TargetOf <- SharedTarget
  BatchSize = 3
  MaxRuns = 3
  MaxOps = 4
  MaxReconnects = 0
  EvidenceExpires = TRUE
INVARIANT TypeOK
INVARIANT AppliedOnce
INVARIANT CheckpointCovers
INVARIANT WritesHaveIntents
INVARIANT OneOpenOutcome
INVARIANT ReplayNeverBlocks
PROPERTY Contract
\* The bounds on runs and operations let the system come to rest.
CHECK_DEADLOCK FALSE
