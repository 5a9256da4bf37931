\* One streaming worker that crashes or restarts, under fairness.
SPECIFICATION FairSpec
CONSTANTS
  w1 = w1
  Worker = {w1}
  SnapshotWorker = {}
  NoWorker = NoWorker
  TimelyRenewal = TRUE
  OtherJobs = FALSE
  Ops = {"stop", "pause"}
  JobRole = "STREAMING"
  MaxSub = 1
  MaxTenure = 3
  MaxRequests = 3
  MaxExits = 1
PROPERTY PauseSettles
PROPERTY StoppedRunEnds
PROPERTY DesiredJobRuns
\* The bounds on claims and requests let the system come to rest.
CHECK_DEADLOCK FALSE
