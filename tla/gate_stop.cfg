\* A stop of a job that the gate has already let through.
SPECIFICATION GateSpec
CONSTANTS
  GateJobs = {"j1", "j2"}
  Limit = 1
  MaxRequests = 3
  MaxEndings = 2
INVARIANT StopHeld
CHECK_DEADLOCK FALSE
