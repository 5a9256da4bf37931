\* The source's retry loop restarts its stream under a live sink.
SPECIFICATION Spec
CONSTANTS
  Log <- BarrierLog
  Source = {1, 2}
  TargetOf <- TwoTargets
  BatchSize = 2
  MaxRuns = 1
  MaxOps = 3
  MaxReconnects = 1
  EvidenceExpires = FALSE
INVARIANT AppliedOnce
\* The bounds on runs and operations let the system come to rest.
CHECK_DEADLOCK FALSE
