\* A progress save races the handoff.
SPECIFICATION Spec
CONSTANTS
  w1 = w1
  w2 = w2
  Worker = {w1, w2}
  SnapshotWorker = {w1}
  NoWorker = NoWorker
  TimelyRenewal = TRUE
  OtherJobs = FALSE
  Ops = {}
  JobRole = "SNAPSHOT"
  MaxSub = 1
  MaxTenure = 2
  MaxRequests = 1
  MaxExits = 0
INVARIANT HandoffKept
\* The bounds on claims and requests let the system come to rest.
CHECK_DEADLOCK FALSE
