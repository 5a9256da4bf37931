\* A snapshot job: many submissions of one worker, or the handoff to a second.
SPECIFICATION SnapshotSpec
CONSTANTS
  w1 = w1
  w2 = w2
  Worker = {w1, w2}
  SnapshotWorker = {w1}
  NoWorker = NoWorker
  TimelyRenewal = TRUE
  OtherJobs = TRUE
  Ops = {"stop", "pause", "resubmit", "purge", "delete"}
  JobRole = "SNAPSHOT"
  MaxSub = 2
  MaxTenure = 3
  MaxRequests = 3
  MaxExits = 1
CONSTRAINT Scope
ACTION_CONSTRAINT OtherJobsOfStaying
INVARIANT StopSticks
INVARIANT StreamingAfterSnapshot
PROPERTY ResumesFromCheckpoint
\* The bounds on claims and requests let the system come to rest.
CHECK_DEADLOCK FALSE
