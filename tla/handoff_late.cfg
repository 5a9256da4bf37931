\* Two snapshot workers: a completion saved late hands over the next snapshot.
SPECIFICATION Spec
CONSTANTS
  w1 = w1
  w2 = w2
  Worker = {w1, w2}
  SnapshotWorker = {w1, w2}
  NoWorker = NoWorker
  TimelyRenewal = FALSE
  OtherJobs = FALSE
  Ops = {"stop", "resubmit", "purge"}
  JobRole = "SNAPSHOT"
  MaxSub = 1
  MaxTenure = 3
  MaxRequests = 3
  MaxExits = 0
SYMMETRY Symmetry
ACTION_CONSTRAINT Undisturbed
INVARIANT StreamingAfterSnapshot
\* The bounds on claims and requests let the system come to rest.
CHECK_DEADLOCK FALSE
