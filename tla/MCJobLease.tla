----------------------------- MODULE MCJobLease -----------------------------
(***************************************************************************)
(* Instances of JobLease for TLC.  Streaming workers are interchangeable,  *)
(* and so are snapshot workers; the liveness runs use no symmetry.         *)
(***************************************************************************)
EXTENDS JobLease, TLC

Symmetry ==
  Permutations(SnapshotWorker) \cup Permutations(Worker \ SnapshotWorker)

(* A snapshot job either stays with the snapshot worker, which meets new   *)
(* submissions and polls for other jobs, or goes on to the streaming       *)
(* worker under its one submission: both in full, not their product.  The  *)
(* first has no exits left from the start, and is known by that.           *)
Stays == exits > MaxExits

SnapshotSpec ==
  /\ Unsubmitted(0, 0, MaxExits + 1) \/ Unsubmitted(MaxSub - 1, 1, 0)
  /\ [][Next]_vars

Resubmits ==
  /\ \A w \in Worker \ SnapshotWorker : row.owner # w /\ rec[w] = NoRecord
  /\ tenure <= 2 /\ row.status # "PAUSING"

HandsOver == master \in {"none", "managed"}

Scope == IF Stays THEN Resubmits ELSE HandsOver

\* Polls for other jobs, in the first.
OtherJobsOfStaying == (\E w \in Worker : ClaimOther(w)) => Stays

(* Runs that neither fail nor are paused, and progress that is not saved.   *)
Undisturbed ==
  \A w \in Worker : ~Fail(w) /\ ~FailStart(w) /\ ~PersistProgress(w)
=============================================================================
