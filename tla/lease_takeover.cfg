\* Two streaming workers take the job from each other.
SPECIFICATION Spec
CONSTANTS
  w1 = w1
  w2 = w2
  Worker = {w1, w2}
  SnapshotWorker = {}
  NoWorker = NoWorker
  TimelyRenewal = FALSE
  OtherJobs = FALSE
  Ops = {"stop", "pause", "resubmit", "delete"}
  JobRole = "STREAMING"
  MaxSub = 1
  MaxTenure = 2
  MaxRequests = 2
  MaxExits = 0
SYMMETRY Symmetry
INVARIANT TypeOK
INVARIANT FenceHolds
INVARIANT DeletedStaysDeleted
\* The bounds on claims and requests let the system come to rest.
CHECK_DEADLOCK FALSE
