------------------------------ MODULE JobLease ------------------------------
(***************************************************************************)
(* The durable life of one replication job: its job_registry row, the      *)
(* lease that lets one worker run it, the fenced checkpoint transactions   *)
(* of that worker, the callbacks with which the worker's pipeline reports  *)
(* its status, and the requests of the control plane (submit, pause, stop, *)
(* resubmit, rebuild, delete).                                             *)
(*                                                                         *)
(* Every SQL statement of pkg/meta names a single job_id, so one row is    *)
(* modelled; what other jobs do reaches this one only through ClaimJobs,   *)
(* which returns every row its owner holds whenever it claims any job.     *)
(* Snapshot workers admit every job (max_concurrent_snapshot_jobs = 0).    *)
(*                                                                         *)
(* Time is abstracted to one bit: row.live says that lease_until is not    *)
(* yet past by the clock of the metadata server.  A lease may expire at    *)
(* any moment, which covers every clock skew and every stalled process.    *)
(***************************************************************************)
EXTENDS Naturals

CONSTANTS
  Worker,          \* worker processes (their RIVUS_WORKER_ID)
  SnapshotWorker,  \* the workers of role snapshot; the others are streaming
  NoWorker,        \* SQL NULL in lease_owner
  TimelyRenewal,   \* leases a live worker renews do not expire
  OtherJobs,       \* the worker's polls also claim other jobs
  Ops,             \* control-plane requests, and purges of the source's binlog
  JobRole,         \* the execution role of the job's configured mode
  MaxSub,          \* bound: submissions of the job
  MaxTenure,       \* bound: successful claims
  MaxRequests,     \* bound: requests of the control plane
  MaxExits         \* bound: crashes and shutdowns of workers

ASSUME WorkerAssumption ==
  /\ SnapshotWorker \subseteq Worker
  /\ NoWorker \notin Worker

ASSUME RoleAssumption == JobRole \in {"SNAPSHOT", "STREAMING"}

ASSUME SwitchAssumption ==
  /\ TimelyRenewal \in BOOLEAN /\ OtherJobs \in BOOLEAN
  /\ Ops \subseteq {"stop", "pause", "resubmit", "purge", "delete"}

ASSUME BoundAssumption ==
  MaxSub \in Nat /\ MaxTenure \in Nat /\ MaxRequests \in Nat /\ MaxExits \in Nat

VARIABLES
  row,      \* the job_registry row
  ckpt,     \* the checkpoint rows (job_snapshots, job_offsets)
  lock,     \* worker whose fenced transaction holds the row, or NoWorker
  checked,  \* that transaction has passed its second ownership check
  master,   \* what the control plane does with the job
  mrole,    \* the control plane's executionRoles entry of the job
  opread,   \* role a resubmit has read and not yet written back
  nsub,     \* submission ids issued so far
  up,       \* the worker process runs
  shut,     \* progress of its graceful shutdown
  restart,  \* restartResumeJobs holds the job
  lease,    \* workerLeases: the submission leased, 0 for none
  rec,      \* the poll: idle, querying, or the record it returned
  job,      \* the cached Job and its pipeline
  cbs,      \* persistence callbacks in flight
  tenure,   \* ghost: successful claims so far
  stopped,  \* ghost: the last accepted lifecycle request is a stop
  fresh,    \* ghost: the snapshot last asked for has no checkpoint yet
  requests, \* bound counter
  exits     \* bound counter

regVars    == <<row, ckpt, lock, checked>>
masterVars == <<master, mrole, opread, nsub, stopped, requests>>
workerVars == <<up, shut, restart, lease, rec, job, cbs>>
vars == <<row, ckpt, lock, checked, master, mrole, opread, nsub, stopped, requests,
          up, shut, restart, lease, rec, job, cbs, tenure, fresh, exits>>

-----------------------------------------------------------------------------
(* Types *)

Status == {"CREATED", "QUEUED", "PENDING", "RUNNING", "PAUSING",
           "PAUSED", "FAILED", "STOPPED", "STOPPING", "DONE"}
Desired == {"RUNNING", "STOPPED"}
Role == {"SNAPSHOT", "STREAMING"}
Sub == 0 .. MaxSub

Row == [present: BOOLEAN, sub: Sub, desired: Desired, role: Role,
        resume: BOOLEAN, status: Status, owner: Worker \cup {NoWorker},
        live: BOOLEAN]

Checkpoint == [has: BOOLEAN, done: BOOLEAN, by: Nat]

Claimed == [sub: Sub, status: Status, resume: BOOLEAN]

(* The Job object of pkg/core: active is runActive, starting spans          *)
(* startWithMode before the goroutines exist, cancelled is the run context, *)
(* heard says that the status listener is attached, gone is                 *)
(* persistenceDeleted, handed is executionRoles[id] = STREAMING on a        *)
(* snapshot worker, begun says that this run relies on a written snapshot   *)
(* start, by is the tenure it started in (ghost).                           *)
Job == [sub: Sub, status: Status, active: BOOLEAN, starting: BOOLEAN,
        cancelled: BOOLEAN, pause: BOOLEAN, heard: BOOLEAN, gone: BOOLEAN,
        handed: BOOLEAN, begun: BOOLEAN, by: Nat]

(* A callback runs in the goroutine at: one of the pipeline, the poll loop  *)
(* of the worker, or another one.                                           *)
Callback == [kind: {"status", "post", "drain", "final", "release"},
             expect: Status, put: Status, desired: Desired,
             at: {"pipe", "loop", "other"}]

NoRow == [present |-> FALSE, sub |-> 0, desired |-> "STOPPED",
          role |-> "STREAMING", resume |-> FALSE, status |-> "STOPPED",
          owner |-> NoWorker, live |-> FALSE]
NoCheckpoint == [has |-> FALSE, done |-> FALSE, by |-> 0]
NoRecord == [sub |-> 0, status |-> "STOPPED", resume |-> FALSE]
Querying == [NoRecord EXCEPT !.status = "PENDING"]
NoJob == [sub |-> 0, status |-> "STOPPED", active |-> FALSE,
          starting |-> FALSE, cancelled |-> FALSE, pause |-> FALSE,
          heard |-> FALSE, gone |-> FALSE, handed |-> FALSE,
          begun |-> TRUE, by |-> 0]

TypeOK ==
  /\ row \in Row
  /\ ckpt \in Checkpoint
  /\ lock \in Worker \cup {NoWorker}
  /\ checked \in BOOLEAN
  /\ master \in {"none", "managed", "deleting", "stopping", "cleaned"}
  /\ mrole \in Role
  /\ opread \in Role \cup {"none"}
  /\ nsub \in Sub
  /\ up \in [Worker -> BOOLEAN]
  /\ shut \in [Worker -> {"no", "begun", "draining"}]
  /\ restart \in [Worker -> BOOLEAN]
  /\ lease \in [Worker -> Sub]
  /\ rec \in [Worker -> Claimed]
  /\ job \in [Worker -> Job]
  /\ cbs \in [Worker -> SUBSET Callback]
  /\ tenure \in Nat
  /\ stopped \in BOOLEAN
  /\ fresh \in BOOLEAN
  /\ requests \in Nat
  /\ exits \in Nat

-----------------------------------------------------------------------------
(* State predicates and pure helpers of the worker *)

ActiveStatus == {"CREATED", "QUEUED", "PENDING", "RUNNING", "PAUSING"}
Resumable == {"PAUSED", "FAILED", "STOPPED"}

(* The status releases the worker lease and the snapshot slot. *)
snapshotStatusReleasesSlot(s) == s \in {"PAUSED", "FAILED", "STOPPED", "DONE"}

(* For a job that is not snapshot-only. *)
shouldReleaseMaintenanceOwnership(s) == s \in {"STOPPED", "FAILED"}

desiredStateForStatus(s) == IF s \in ActiveStatus THEN "RUNNING" ELSE "STOPPED"

desiredStateForJobStatus(w, s) ==
  IF restart[w] THEN "RUNNING" ELSE desiredStateForStatus(s)

durableWorkerRole(w) == IF w \in SnapshotWorker THEN "SNAPSHOT" ELSE "STREAMING"

executionRoleForJob(w) ==
  IF job[w].handed THEN "STREAMING" ELSE durableWorkerRole(w)

(* Mutant: the ownership check of a fence does not lock the row. *)
RowFreeWithoutLock == TRUE

(* Statements that touch the row wait for a fenced transaction to end. *)
RowFree == lock = NoWorker

Owns(w, sub) == row.present /\ row.sub = sub /\ row.owner = w

(* FencedOffsetStore.check with the token of w's current run. *)
check(w) ==
  /\ Owns(w, job[w].sub)
  /\ row.live
  /\ row.desired = "RUNNING" \/ row.status = "PAUSING"

(* Rows written by the statements of MySQLJobStore. *)
Unleased(r) == [r EXCEPT !.owner = NoWorker, !.live = FALSE]

SaveJob(sub, desired, role, status) ==
  [row EXCEPT !.present = TRUE, !.sub = sub, !.desired = desired,
              !.role = role, !.resume = FALSE, !.status = status]

(* Mutant: the save overwrites a pause request. *)
SaveClaimedJobOverPause(desired, role, status) ==
  [row EXCEPT !.desired = desired, !.role = role, !.resume = FALSE, !.status = status]

SaveClaimedJob(desired, role, status) ==
  [row EXCEPT !.desired = desired, !.role = role, !.resume = FALSE,
              !.status = IF @ = "PAUSING" /\ status \in {"CREATED", "QUEUED", "PENDING", "RUNNING"}
                         THEN @ ELSE status]

ReleaseJobLease(w, sub) == IF Owns(w, sub) THEN Unleased(row) ELSE row

claimedWorkerLeaseOwner(w) == lease[w] # 0 /\ lease[w] = job[w].sub

(* Mutant: a worker without a lease falls back to the plain save.           *)
UnguardedSaveAnyStatus(w, c) == ~claimedWorkerLeaseOwner(w)

(* The worker has no lease on the job, and what it saves looks like the     *)
(* record of a job that waits for its first claim.                          *)
UnguardedSave(w, c) ==
  ~claimedWorkerLeaseOwner(w) /\ ~job[w].active /\ c.put \in {"CREATED", "QUEUED"}

(* saveJobRecord: the row after the save. *)
saveJobRecord(w, c) ==
  CASE claimedWorkerLeaseOwner(w) /\ Owns(w, job[w].sub) /\ row.live ->
         SaveClaimedJob(c.desired, executionRoleForJob(w), c.put)
    [] UnguardedSave(w, c) ->
         SaveJob(job[w].sub, c.desired, executionRoleForJob(w), c.put)
    [] OTHER -> row

(* saveManagedJobRecordIfCurrent skips a deleted job and a stale status. *)
Current(w, c) == ~job[w].gone /\ job[w].status = c.expect

(* The save reports ErrJobWorkerLeaseLost. *)
SaveLost(w, c) ==
  /\ Current(w, c)
  /\ ~(claimedWorkerLeaseOwner(w) /\ Owns(w, job[w].sub) /\ row.live)
  /\ ~UnguardedSave(w, c)

saveManagedJobRecordIfCurrent(w, c) ==
  /\ RowFree
  /\ row' = IF Current(w, c) THEN saveJobRecord(w, c) ELSE row

(* The status listener of attachStatusListener, called with status s while  *)
(* the job is j: what it is going to save.                                  *)
StatusCallback(w, j, s, at) ==
  LET drains == shouldReleaseMaintenanceOwnership(s) /\ j.active
      hands  == w \in SnapshotWorker /\ s = "DONE"
  IN  [kind |-> "status", expect |-> s, at |-> at,
       put |-> IF hands THEN "STOPPED" ELSE IF drains THEN "STOPPING" ELSE s,
       desired |-> IF hands THEN "RUNNING" ELSE desiredStateForJobStatus(w, s)]

Notify(w, j, s, at) ==
  IF j.heard /\ j.status # s THEN {StatusCallback(w, j, s, at)} ELSE {}

(* A save of the status as it is. *)
PlainSave(s, desired) ==
  [kind |-> "post", expect |-> s, put |-> s, desired |-> desired, at |-> "loop"]

(* Callbacks that fix nothing in advance. *)
LaterCallback(kind, at) ==
  [kind |-> kind, expect |-> "STOPPED", put |-> "STOPPED", desired |-> "STOPPED", at |-> at]

(* Mutant: a status that the registry does not know. *)
StopStatusCancelled(s) == IF s \in {"DONE", "FAILED"} THEN s ELSE "CANCELLED"

(* requestStop: cancel the run; DONE and FAILED keep their status. *)
StopStatus(s) == IF s \in {"DONE", "FAILED"} THEN s ELSE "STOPPED"

-----------------------------------------------------------------------------
(* Claiming and starting *)

SetJob(w, j) == job' = [job EXCEPT ![w] = j]
SetCbs(w, S) == cbs' = [cbs EXCEPT ![w] = S]

(* The poll loop of RunWorker starts claimed jobs one after the other, and   *)
(* claims again when all of them are handled.                               *)
LoopIdle(w) ==
  /\ up[w] /\ shut[w] = "no" /\ rec[w] = NoRecord
  /\ ~job[w].starting /\ ~\E c \in cbs[w] : c.at = "loop"

(* Mutant: only a job that nobody ever held can be claimed. *)
ClaimableUnowned(w) ==
  row.role = durableWorkerRole(w) /\ row.desired = "RUNNING" /\ row.owner = NoWorker

(* The lease is NULL or past. *)
Claimable(w) ==
  row.role = durableWorkerRole(w) /\ row.desired = "RUNNING" /\ ~row.live

(* ClaimJobs: the claiming transaction. *)
Claim(w) ==
  /\ LoopIdle(w)
  /\ RowFree /\ row.present /\ Claimable(w)
  /\ tenure < MaxTenure
  /\ row' = [row EXCEPT !.owner = w, !.live = TRUE]
  /\ rec' = [rec EXCEPT ![w] = Querying]
  /\ tenure' = tenure + 1
  /\ UNCHANGED <<ckpt, lock, checked, masterVars, up, shut, restart, lease, job, cbs, fresh, exits>>

(* ClaimJobs: the transaction claims another job. *)
ClaimOther(w) ==
  /\ OtherJobs /\ LoopIdle(w)
  /\ rec' = [rec EXCEPT ![w] = Querying]
  /\ UNCHANGED <<regVars, masterVars, up, shut, restart, lease, job, cbs, tenure, fresh, exits>>

(* ClaimJobs: the query that follows returns every job its owner holds. *)
LoadClaimed(w) ==
  /\ rec[w] = Querying
  /\ rec' = [rec EXCEPT ![w] =
       IF /\ row.present /\ row.owner = w /\ row.live
          /\ row.desired = "RUNNING" /\ row.role = durableWorkerRole(w)
       THEN [sub |-> row.sub, status |-> row.status, resume |-> row.resume]
       ELSE NoRecord]
  /\ UNCHANGED <<regVars, masterVars, up, shut, restart, lease, job, cbs, tenure, fresh, exits>>

(* startClaimedWorkerJob meets the job of an earlier submission: stop it... *)
StopStaleJob(w) ==
  /\ rec[w].sub # 0 /\ job[w].sub \notin {0, rec[w].sub}
  /\ job[w].active /\ ~job[w].gone
  /\ SetJob(w, [job[w] EXCEPT !.gone = TRUE, !.heard = FALSE,
                              !.cancelled = TRUE, !.status = StopStatus(@)])
  /\ UNCHANGED <<regVars, masterVars, up, shut, restart, lease, rec, cbs,
                 tenure, fresh, exits>>

(* ... and give the claim back if it does not drain within 30 seconds. *)
GiveUpStaleJob(w) ==
  /\ rec[w].sub # 0 /\ job[w].sub \notin {0, rec[w].sub}
  /\ job[w].active /\ job[w].gone
  /\ RowFree
  /\ row' = ReleaseJobLease(w, rec[w].sub)
  /\ lease' = [lease EXCEPT ![w] = IF @ = rec[w].sub THEN 0 ELSE @]
  /\ rec' = [rec EXCEPT ![w] = NoRecord]
  /\ UNCHANGED <<ckpt, lock, checked, masterVars, up, shut, restart, job, cbs,
                 tenure, fresh, exits>>

(* startClaimedWorkerJob meets a run of this very submission that still     *)
(* drains or still runs: it keeps it under the new lease.                   *)
AdoptClaimed(w) ==
  /\ rec[w].sub # 0 /\ job[w].sub = rec[w].sub /\ job[w].active
  /\ lease' = [lease EXCEPT ![w] = rec[w].sub]
  /\ SetJob(w, [job[w] EXCEPT !.heard = TRUE, !.handed = FALSE])
  /\ rec' = [rec EXCEPT ![w] = NoRecord]
  /\ UNCHANGED <<regVars, masterVars, up, shut, restart, cbs, tenure, fresh, exits>>

(* The job that restoreJobSnapshot makes of the claimed record. *)
RestoredJob(w) ==
  [NoJob EXCEPT !.sub = rec[w].sub,
                !.status = IF rec[w].status \in ActiveStatus THEN "STOPPED" ELSE rec[w].status,
                !.heard = TRUE, !.by = tenure]

(* Callbacks of a replaced Job object save and release nothing. *)
KeptCallbacks(w) == IF job[w].sub \in {0, rec[w].sub} THEN cbs[w] ELSE {}

(* Mutant: the resume marker of a resubmit is ignored. *)
FirstAttemptIgnoresResume(w) == rec[w].status \in {"CREATED", "QUEUED"} \/ ~ckpt.has

(* The start mode: a first attempt takes a snapshot from scratch, and so    *)
(* does a snapshot worker that finds no checkpoint.                         *)
FirstAttempt(w) ==
  \/ ~rec[w].resume /\ rec[w].status \in {"CREATED", "QUEUED"}
  \/ ~ckpt.has

(* startWithMode up to PENDING. *)
Pending(w, j) ==
  [j EXCEPT !.status = "PENDING", !.starting = TRUE,
            !.begun = (w \in SnapshotWorker => ~FirstAttempt(w))]

Startable(w) ==
  /\ rec[w].sub # 0 /\ rec[w].status # "DONE" /\ ~job[w].active

StartClaimed(w) ==
  /\ Startable(w)
  /\ lease' = [lease EXCEPT ![w] = rec[w].sub]
  /\ LET j == RestoredJob(w) IN
       /\ SetJob(w, Pending(w, j))
       /\ SetCbs(w, KeptCallbacks(w) \cup Notify(w, j, "PENDING", "loop"))
  /\ rec' = [rec EXCEPT ![w] = NoRecord]
  /\ UNCHANGED <<regVars, masterVars, up, shut, restart, tenure, fresh, exits>>

(* startWithMode refuses a job whose record says DONE: the claim is kept in  *)
(* workerLeases and the job stays as it is.                                 *)
RefuseDone(w) ==
  /\ rec[w].sub # 0 /\ rec[w].status = "DONE" /\ ~job[w].active
  /\ lease' = [lease EXCEPT ![w] = rec[w].sub]
  /\ SetJob(w, RestoredJob(w))
  /\ SetCbs(w, KeptCallbacks(w))
  /\ rec' = [rec EXCEPT ![w] = NoRecord]
  /\ UNCHANGED <<regVars, masterVars, up, shut, restart, tenure, fresh, exits>>

(* The listener of PENDING runs inside startWithMode. *)
PendingSaved(w) == ~\E c \in cbs[w] : c.kind = "status" /\ c.expect = "PENDING"

(* The rest of startWithMode: ownership is checked, the goroutines start,   *)
(* and startJob saves the record once more.                                 *)
Launch(w) ==
  /\ job[w].starting /\ PendingSaved(w) /\ ~job[w].cancelled /\ check(w)
  /\ SetJob(w, [job[w] EXCEPT !.starting = FALSE, !.active = TRUE])
  /\ SetCbs(w, cbs[w] \cup {PlainSave(job[w].status,
                              desiredStateForJobStatus(w, job[w].status))})
  /\ UNCHANGED <<regVars, masterVars, up, shut, restart, lease, rec,
                 tenure, fresh, exits>>

(* What is left of a run: its contexts and flags are not read again. *)
Ended(j) ==
  [j EXCEPT !.active = FALSE, !.starting = FALSE, !.cancelled = FALSE, !.pause = FALSE,
            !.begun = TRUE, !.by = 0]

(* failStart: lost ownership, a cancelled start, or a connector error. *)
FailStart(w) ==
  /\ job[w].starting /\ PendingSaved(w)
  /\ SetJob(w, [Ended(job[w]) EXCEPT !.status = "FAILED"])
  /\ SetCbs(w, cbs[w] \cup Notify(w, job[w], "FAILED", "loop"))
  /\ UNCHANGED <<regVars, masterVars, up, shut, restart, lease, rec,
                 tenure, fresh, exits>>

-----------------------------------------------------------------------------
(* The pipeline: the source and the sink goroutine *)

Running(w) == job[w].active /\ ~job[w].cancelled

Pipeline(w, j, s) ==
  /\ SetJob(w, [j EXCEPT !.status = s])
  /\ SetCbs(w, cbs[w] \cup Notify(w, job[w], s, "pipe"))
  /\ UNCHANGED <<regVars, masterVars, up, shut, restart, lease, rec,
                 tenure, fresh, exits>>

(* The pipeline is inside neither a status callback nor a transaction. *)
SourceIdle(w) == lock # w /\ ~\E c \in cbs[w] : c.at = "pipe"

(* Preflight succeeded. *)
GoRunning(w) ==
  Running(w) /\ job[w].status = "PENDING" /\ Pipeline(w, job[w], "RUNNING")

(* The preflight, the source or the sink failed, or panicked. *)
Fail(w) ==
  /\ Running(w) /\ job[w].status \in {"PENDING", "RUNNING", "PAUSING"}
  /\ Pipeline(w, [job[w] EXCEPT !.cancelled = TRUE], "FAILED")

(* The sink drained after the source stopped for a pause. *)
FinishPause(w) ==
  /\ Running(w) /\ job[w].pause /\ job[w].status = "PAUSING" /\ SourceIdle(w)
  /\ Pipeline(w, job[w], "PAUSED")

(* Mutant: the handoff does not wait for MarkSnapshotDone. *)
SnapshotCompleteEarly(w) == job[w].begun

(* The sink has durably completed the snapshot. *)
SnapshotComplete(w) == job[w].begun /\ ckpt.done

(* The job is handed to the streaming workers. *)
FinishSnapshot(w) ==
  /\ w \in SnapshotWorker
  /\ Running(w) /\ ~job[w].pause /\ job[w].status = "RUNNING" /\ SourceIdle(w)
  /\ SnapshotComplete(w)
  /\ Pipeline(w, [job[w] EXCEPT !.handed = job[w].heard], "DONE")

(* Both goroutines returned, their own status callbacks included. *)
Drained(w) ==
  /\ job[w].active /\ SourceIdle(w)
  /\ job[w].cancelled \/ job[w].status \in {"PAUSED", "DONE"}
  /\ SetJob(w, Ended(job[w]))
  /\ SetCbs(w, {IF c.kind = "drain" THEN [c EXCEPT !.kind = "final"] ELSE c : c \in cbs[w]})
  /\ UNCHANGED <<regVars, masterVars, up, shut, restart, lease, rec,
                 tenure, fresh, exits>>

(* FencedOffsetStore.write: the transaction locks the row with its first    *)
(* check...                                                                 *)
FenceBegin(w) ==
  /\ Running(w) /\ job[w].status \in {"RUNNING", "PAUSING"} /\ SourceIdle(w)
  /\ RowFree /\ check(w)
  /\ lock' = w /\ checked' = FALSE
  /\ UNCHANGED <<row, ckpt, masterVars, workerVars, tenure, fresh, exits>>

(* ... checks again after its statements, and rolls back if that fails... *)
FenceRecheck(w) ==
  /\ lock = w /\ ~checked /\ ~job[w].cancelled
  /\ IF check(w) THEN checked' = TRUE /\ lock' = lock
                 ELSE checked' = FALSE /\ lock' = NoWorker
  /\ UNCHANGED <<row, ckpt, masterVars, workerVars, tenure, fresh, exits>>

(* ... or if the run is cancelled. *)
FenceRollback(w) ==
  /\ lock = w /\ job[w].cancelled
  /\ lock' = NoWorker /\ checked' = FALSE
  /\ UNCHANGED <<row, ckpt, masterVars, workerVars, tenure, fresh, exits>>

FenceCommit(w) ==
  /\ lock = w /\ checked
  /\ lock' = NoWorker /\ checked' = FALSE

(* SaveSnapshotStart by a run that starts a snapshot from scratch. *)
CommitSnapshotStart(w) ==
  /\ FenceCommit(w)
  /\ w \in SnapshotWorker /\ ~job[w].begun
  /\ ckpt' = [has |-> TRUE, done |-> FALSE, by |-> job[w].by]
  /\ SetJob(w, [job[w] EXCEPT !.begun = TRUE])
  /\ fresh' = FALSE
  /\ UNCHANGED <<row, masterVars, up, shut, restart, lease, rec, cbs, tenure, exits>>

(* SaveSnapshotProgress, or SaveOffset of a streaming worker. *)
CommitProgress(w) ==
  /\ FenceCommit(w)
  /\ w \in SnapshotWorker => job[w].begun /\ ckpt.has /\ ~ckpt.done
  /\ ckpt' = [ckpt EXCEPT !.has = TRUE, !.by = job[w].by]
  /\ UNCHANGED <<row, masterVars, workerVars, tenure, fresh, exits>>

(* MarkSnapshotDone by the sink, after the last snapshot write. *)
CommitSnapshotDone(w) ==
  /\ FenceCommit(w)
  /\ w \in SnapshotWorker /\ job[w].begun /\ ckpt.has /\ ~ckpt.done
  /\ ckpt' = [ckpt EXCEPT !.done = TRUE, !.by = job[w].by]
  /\ UNCHANGED <<row, masterVars, workerVars, tenure, fresh, exits>>

(* Begin, Mark and DeleteIcebergCommit and ClearSnapshotProgress go through *)
(* the same transaction and leave the checkpoint as it is.                  *)
CommitIntent(w) ==
  /\ FenceCommit(w)
  /\ UNCHANGED <<row, ckpt, masterVars, workerVars, tenure, fresh, exits>>

(* persistSnapshotProgress: connectors report progress all the time (every  *)
(* start does), and each report spawns a goroutine that may be delayed at   *)
(* will.  It saves the status it reads, provided that it still is the       *)
(* status under persistenceMu: reading and saving are one step.             *)
PersistProgress(w) ==
  /\ job[w].sub # 0
  /\ LET s == job[w].status IN
       saveManagedJobRecordIfCurrent(w, PlainSave(s, desiredStateForJobStatus(w, s)))
  /\ UNCHANGED <<ckpt, lock, checked, masterVars, workerVars, tenure, fresh, exits>>

-----------------------------------------------------------------------------
(* Persistence callbacks *)

(* The listener saves; a terminal status is then followed by the release of *)
(* the lease, at once or when the run has drained.                          *)
SaveStatus(w, c) ==
  /\ c.kind = "status"
  /\ saveManagedJobRecordIfCurrent(w, c)
  /\ SetCbs(w, (cbs[w] \ {c}) \cup
       CASE c.put = "STOPPING" ->
              {LaterCallback(IF job[w].active THEN "drain" ELSE "final", "other")}
         [] c.put # "STOPPING" /\ snapshotStatusReleasesSlot(c.expect) ->
              {LaterCallback("release", c.at)}
         [] OTHER -> {})
  /\ UNCHANGED job

(* startJob: a start whose save is refused is stopped. *)
SavePost(w, c) ==
  /\ c.kind = "post"
  /\ saveManagedJobRecordIfCurrent(w, c)
  /\ IF SaveLost(w, c)
     THEN /\ SetJob(w, [job[w] EXCEPT !.cancelled = TRUE, !.status = StopStatus(@)])
          /\ SetCbs(w, (cbs[w] \ {c}) \cup Notify(w, job[w], StopStatus(job[w].status), "loop"))
     ELSE SetCbs(w, cbs[w] \ {c}) /\ UNCHANGED job

(* deferMaintenanceOwnershipStatus after the run has drained: it saves the  *)
(* status of that moment, which may be that of a later run.                 *)
SaveFinal(w, c) ==
  /\ c.kind = "final"
  /\ LET s == job[w].status IN
       /\ saveManagedJobRecordIfCurrent(w, PlainSave(s, desiredStateForJobStatus(w, s)))
       /\ SetCbs(w, (cbs[w] \ {c}) \cup
            (IF snapshotStatusReleasesSlot(s) THEN {LaterCallback("release", "other")} ELSE {}))
  /\ UNCHANGED job

Save(w) ==
  /\ \E c \in cbs[w] :
       SaveStatus(w, c) \/ SavePost(w, c) \/ SaveFinal(w, c)
  /\ UNCHANGED <<ckpt, lock, checked, masterVars, up, shut, restart, lease, rec,
                 tenure, fresh, exits>>

(* releaseWorkerLeaseAfterDrain from a callback: during a shutdown the      *)
(* lease of a job that restarts elsewhere is kept until the drain is saved. *)
Release(w) ==
  \E c \in cbs[w] :
    /\ c.kind = "release" /\ RowFree
    /\ SetCbs(w, cbs[w] \ {c})
    /\ IF shut[w] # "no" /\ restart[w]
       THEN UNCHANGED <<row, lease>>
       ELSE /\ row' = ReleaseJobLease(w, job[w].sub)
            /\ lease' = [lease EXCEPT ![w] = IF @ = job[w].sub THEN 0 ELSE @]
    /\ UNCHANGED <<ckpt, lock, checked, masterVars, up, shut, restart, rec, job,
                   tenure, fresh, exits>>

-----------------------------------------------------------------------------
(* Lease renewal, pause requests, shutdown and crash of a worker *)

(* RenewJobLease does not ask that the lease be unexpired. *)
RenewJobLease(w, sub) ==
  Owns(w, sub) /\ (row.desired = "RUNNING" \/ row.status \in {"PAUSING", "STOPPING"})

(* Mutant: jobs with a running pipeline are not looked at. *)
RenewsIdleOnly(w) ==
  up[w] /\ shut[w] = "no" /\ lease[w] # 0 /\ job[w].status \in ActiveStatus /\ ~job[w].active

(* The renewal loop looks at the job. *)
Renews(w) ==
  /\ up[w] /\ shut[w] = "no" /\ lease[w] # 0 /\ ~job[w].handed
  /\ \/ job[w].status \in ActiveStatus
     \/ job[w].status \in {"FAILED", "STOPPED", "DONE"} /\ job[w].active

Renew(w) ==
  /\ Renews(w) /\ RowFree /\ RenewJobLease(w, job[w].sub)
  /\ row' = [row EXCEPT !.live = TRUE]
  /\ UNCHANGED <<ckpt, lock, checked, masterVars, workerVars, tenure, fresh, exits>>

(* The lease is lost: a running pipeline is stopped with its listener       *)
(* detached, and what is left of the lease is released.                     *)
RenewLost(w) ==
  /\ Renews(w) /\ RowFree /\ ~RenewJobLease(w, job[w].sub)
  /\ IF job[w].active
     THEN SetJob(w, [job[w] EXCEPT !.heard = FALSE, !.cancelled = TRUE, !.status = StopStatus(@)])
     ELSE UNCHANGED job
  /\ row' = ReleaseJobLease(w, job[w].sub)
  /\ lease' = [lease EXCEPT ![w] = IF @ = job[w].sub THEN 0 ELSE @]
  /\ UNCHANGED <<ckpt, lock, checked, masterVars, up, shut, restart, rec, cbs,
                 tenure, fresh, exits>>

PausedJob(j) == [j EXCEPT !.pause = TRUE, !.status = "PAUSING"]

(* applyDurablePauseRequests *)
ApplyPause(w) ==
  /\ up[w] /\ shut[w] = "no"
  /\ row.present /\ row.owner = w /\ row.live
  /\ row.desired = "RUNNING" /\ row.status = "PAUSING"
  /\ lease[w] # 0 /\ job[w].status = "RUNNING"
  /\ SetJob(w, PausedJob(job[w]))
  /\ SetCbs(w, cbs[w] \cup Notify(w, job[w], "PAUSING", "other"))
  /\ UNCHANGED <<regVars, masterVars, up, shut, restart, lease, rec,
                 tenure, fresh, exits>>

(* SIGTERM: the worker loops end, owned leases are extended past the drain  *)
(* window, and Shutdown notes the jobs that have to restart elsewhere.      *)
ShutdownBegin(w) ==
  /\ up[w] /\ shut[w] = "no" /\ rec[w] = NoRecord /\ ~job[w].starting
  /\ exits < MaxExits /\ RowFree
  /\ shut' = [shut EXCEPT ![w] = "begun"]
  /\ restart' = [restart EXCEPT ![w] = lease[w] # 0 /\ job[w].status \in ActiveStatus]
  /\ row' = IF lease[w] # 0 /\ RenewJobLease(w, lease[w]) THEN [row EXCEPT !.live = TRUE] ELSE row
  /\ exits' = exits + 1
  /\ UNCHANGED <<ckpt, lock, checked, masterVars, up, lease, rec, job, cbs, tenure, fresh>>

(* Shutdown saves the intent to run, then pauses or cancels the pipeline. *)
ShutdownDrain(w) ==
  /\ up[w] /\ shut[w] = "begun" /\ restart[w]
  /\ shut' = [shut EXCEPT ![w] = "draining"]
  /\ LET s == job[w].status IN
       /\ saveManagedJobRecordIfCurrent(w, PlainSave(s, "RUNNING"))
       /\ CASE s = "RUNNING" ->
                 /\ SetJob(w, PausedJob(job[w]))
                 /\ SetCbs(w, cbs[w] \cup Notify(w, job[w], "PAUSING", "other"))
            [] s \in {"CREATED", "PENDING"} ->
                 /\ SetJob(w, [job[w] EXCEPT !.cancelled = TRUE, !.status = "STOPPED"])
                 /\ SetCbs(w, cbs[w] \cup Notify(w, job[w], "STOPPED", "other"))
            [] OTHER -> UNCHANGED <<job, cbs>>
  /\ UNCHANGED <<ckpt, lock, checked, masterVars, up, restart, lease, rec,
                 tenure, fresh, exits>>

(* What the process leaves behind when it ends. *)
Exit(w) ==
  /\ up' = [up EXCEPT ![w] = FALSE]
  /\ shut' = [shut EXCEPT ![w] = "no"]
  /\ restart' = [restart EXCEPT ![w] = FALSE]
  /\ lease' = [lease EXCEPT ![w] = 0]
  /\ rec' = [rec EXCEPT ![w] = NoRecord]
  /\ SetJob(w, NoJob)
  /\ SetCbs(w, {})

(* The drain is over: the final record still says RUNNING, and its save is  *)
(* followed by the release of the lease.                                    *)
ShutdownExit(w) ==
  /\ up[w] /\ RowFree /\ lock # w
  /\ \/ shut[w] = "begun" /\ ~restart[w] /\ row' = row
     \/ /\ shut[w] = "draining" /\ ~job[w].active
        /\ LET s == job[w].status
               c == PlainSave(s, "RUNNING")
               saved == IF Current(w, c) THEN saveJobRecord(w, c) ELSE row
           IN  row' = IF ~SaveLost(w, c) /\ saved.present /\ saved.sub = job[w].sub /\ saved.owner = w
                      THEN Unleased(saved) ELSE saved
  /\ Exit(w)
  /\ UNCHANGED <<ckpt, lock, checked, masterVars, tenure, fresh, exits>>

(* The process dies, or its shutdown deadline passes; the server rolls an   *)
(* open transaction back.                                                   *)
Crash(w) ==
  /\ up[w] /\ exits < MaxExits
  /\ exits' = exits + 1
  /\ Exit(w)
  /\ lock' = IF lock = w THEN NoWorker ELSE lock
  /\ checked' = IF lock = w THEN FALSE ELSE checked
  /\ UNCHANGED <<row, ckpt, masterVars, tenure, fresh>>

Restart(w) ==
  /\ ~up[w]
  /\ up' = [up EXCEPT ![w] = TRUE]
  /\ UNCHANGED <<regVars, masterVars, shut, restart, lease, rec, job, cbs,
                 tenure, fresh, exits>>

(* The worker renews the lease, or acts on the job within a lease period. *)
Attends(w) ==
  /\ up[w]
  /\ \/ Renews(w) /\ RenewJobLease(w, job[w].sub)
     \/ rec[w] # NoRecord \/ cbs[w] # {} \/ shut[w] # "no"

(* lease_until passes on the clock of the metadata server. *)
Expire ==
  /\ row.live
  /\ TimelyRenewal => ~\E w \in Worker : row.owner = w /\ Attends(w)
  /\ row' = [row EXCEPT !.live = FALSE]
  /\ UNCHANGED <<ckpt, lock, checked, masterVars, workerVars, tenure, fresh, exits>>

-----------------------------------------------------------------------------
(* The control plane *)

Request(op) ==
  op \in Ops \cup {"submit"} /\ requests < MaxRequests /\ requests' = requests + 1

(* Submit of a job id the control plane does not manage. *)
Submit ==
  /\ Request("submit") /\ RowFree /\ master = "none" /\ nsub < MaxSub
  /\ master' = "managed" /\ mrole' = JobRole /\ nsub' = nsub + 1
  /\ row' = SaveJob(nsub + 1, "RUNNING", JobRole, "QUEUED")
  /\ stopped' = FALSE /\ fresh' = TRUE
  /\ UNCHANGED <<ckpt, lock, checked, opread, workerVars, tenure, exits>>

RequestJobStop ==
  /\ Request("stop") /\ RowFree /\ master = "managed" /\ row.present
  /\ row' = Unleased([row EXCEPT !.desired = "STOPPED", !.status = "STOPPED"])
  /\ stopped' = TRUE
  /\ UNCHANGED <<ckpt, lock, checked, master, mrole, opread, nsub, workerVars, tenure, fresh, exits>>

RequestJobPause ==
  /\ Request("pause") /\ RowFree /\ master = "managed"
  /\ row.present /\ row.desired = "RUNNING" /\ row.status = "RUNNING"
  /\ row' = [row EXCEPT !.status = "PAUSING"]
  /\ UNCHANGED <<ckpt, lock, checked, master, mrole, opread, nsub, stopped, workerVars, tenure, fresh, exits>>

(* resubmitDurableJob reads the row... *)
ResubmitRead ==
  /\ Request("resubmit") /\ master = "managed" /\ opread = "none"
  /\ row.present /\ row.status \in Resumable
  /\ opread' = row.role
  /\ UNCHANGED <<regVars, master, mrole, nsub, stopped, workerVars, tenure, fresh, exits>>

(* ... and later updates it, if its status still allows that. *)
Resubmitted(r) ==
  IF row.present /\ row.status \in Resumable THEN r ELSE row

RequestJobResume ==
  /\ RowFree /\ opread # "none" /\ opread' = "none"
  /\ row' = Resubmitted(Unleased([row EXCEPT !.desired = "RUNNING", !.role = opread,
                                             !.resume = TRUE, !.status = "QUEUED"]))
  /\ mrole' = IF row' = row THEN mrole ELSE opread
  /\ stopped' = (stopped /\ row' = row)
  /\ UNCHANGED <<ckpt, lock, checked, master, nsub, requests, workerVars, tenure, fresh, exits>>

(* The saved binlog position has been purged. *)
RequestJobFreshSnapshot ==
  /\ "purge" \in Ops /\ RowFree /\ opread # "none" /\ opread' = "none" /\ ckpt.has
  /\ row' = Resubmitted(Unleased([row EXCEPT !.desired = "RUNNING", !.role = "SNAPSHOT",
                                             !.resume = FALSE, !.status = "QUEUED"]))
  /\ mrole' = IF row' = row THEN mrole ELSE "SNAPSHOT"
  /\ stopped' = (stopped /\ row' = row)
  /\ fresh' = (fresh \/ row' # row)
  /\ UNCHANGED <<ckpt, lock, checked, master, nsub, requests, workerVars, tenure, exits>>

(* The purged job has retained intents: archive them with the checkpoint    *)
(* and start a new submission.                                              *)
RequestJobRebuild ==
  /\ "purge" \in Ops /\ RowFree /\ opread # "none" /\ opread' = "none"
  /\ ckpt.has /\ nsub < MaxSub
  /\ row.present /\ row.sub = nsub /\ row.owner = NoWorker
  /\ row.desired = "STOPPED" /\ row.status \in Resumable
  /\ row' = [row EXCEPT !.sub = nsub + 1, !.desired = "RUNNING", !.role = "SNAPSHOT",
                        !.resume = FALSE, !.status = "QUEUED"]
  /\ ckpt' = NoCheckpoint /\ nsub' = nsub + 1 /\ mrole' = "SNAPSHOT"
  /\ stopped' = FALSE /\ fresh' = TRUE
  /\ UNCHANGED <<lock, checked, master, requests, workerVars, tenure, exits>>

(* Delete forgets the job, then runs in the background: it saves STOPPING   *)
(* with the default role, as the role of the job is forgotten too (the      *)
(* lease is left as it is)...                                               *)
DeleteBegin ==
  /\ Request("delete") /\ master = "managed"
  /\ master' = "deleting"
  /\ UNCHANGED <<regVars, mrole, opread, nsub, stopped, workerVars, tenure, fresh, exits>>

DeleteSave ==
  /\ RowFree /\ master = "deleting" /\ master' = "stopping"
  /\ row' = SaveJob(nsub, "STOPPED", "STREAMING", "STOPPING")
  /\ UNCHANGED <<ckpt, lock, checked, mrole, opread, nsub, stopped, requests, workerVars,
                 tenure, fresh, exits>>

(* ... removes the checkpoint (its rows are locked by a transaction that    *)
(* has written them)...                                                     *)
DeleteJobState ==
  /\ RowFree /\ master = "stopping" /\ master' = "cleaned"
  /\ ckpt' = NoCheckpoint /\ fresh' = TRUE
  /\ UNCHANGED <<row, lock, checked, mrole, opread, nsub, stopped, requests, workerVars,
                 tenure, exits>>

(* ... unless a retained commit intent blocks that and the job comes back   *)
(* as FAILED...                                                             *)
DeleteBlocked ==
  /\ RowFree /\ master = "stopping" /\ master' = "managed"
  /\ row' = SaveJob(nsub, "STOPPED", mrole, "FAILED")
  /\ UNCHANGED <<ckpt, lock, checked, mrole, opread, nsub, stopped, requests, workerVars,
                 tenure, fresh, exits>>

(* ... and then the row. *)
DeleteJob ==
  /\ RowFree /\ master = "cleaned" /\ master' = "none"
  /\ row' = NoRow /\ stopped' = TRUE
  /\ UNCHANGED <<ckpt, lock, checked, mrole, opread, nsub, requests, workerVars, tenure, fresh, exits>>

-----------------------------------------------------------------------------
\* The counters of the bounds start at zero, or as if some had been used up.
Unsubmitted(subs, asked, left) ==
  /\ row = NoRow /\ ckpt = NoCheckpoint /\ lock = NoWorker /\ checked = FALSE
  /\ master = "none" /\ mrole = JobRole /\ opread = "none" /\ nsub = subs
  /\ up = [w \in Worker |-> TRUE]
  /\ shut = [w \in Worker |-> "no"]
  /\ restart = [w \in Worker |-> FALSE]
  /\ lease = [w \in Worker |-> 0]
  /\ rec = [w \in Worker |-> NoRecord]
  /\ job = [w \in Worker |-> NoJob]
  /\ cbs = [w \in Worker |-> {}]
  /\ tenure = 0 /\ stopped = TRUE /\ fresh = TRUE
  /\ requests = asked /\ exits = left

Init == Unsubmitted(0, 0, 0)

Start(w) ==
  \/ Claim(w) \/ ClaimOther(w) \/ LoadClaimed(w) \/ StopStaleJob(w) \/ GiveUpStaleJob(w)
  \/ AdoptClaimed(w) \/ StartClaimed(w) \/ RefuseDone(w) \/ Launch(w) \/ FailStart(w)

Pipe(w) ==
  \/ GoRunning(w) \/ Fail(w) \/ FinishPause(w) \/ FinishSnapshot(w) \/ Drained(w)
  \/ PersistProgress(w)

Fence(w) ==
  \/ FenceBegin(w) \/ FenceRecheck(w) \/ FenceRollback(w)
  \/ CommitSnapshotStart(w) \/ CommitProgress(w) \/ CommitSnapshotDone(w) \/ CommitIntent(w)

Lifecycle(w) ==
  \/ Save(w) \/ Release(w) \/ Renew(w) \/ RenewLost(w) \/ ApplyPause(w)
  \/ ShutdownBegin(w) \/ ShutdownDrain(w) \/ ShutdownExit(w) \/ Crash(w) \/ Restart(w)

Control ==
  \/ Submit \/ RequestJobStop \/ RequestJobPause
  \/ ResubmitRead \/ RequestJobResume \/ RequestJobFreshSnapshot \/ RequestJobRebuild
  \/ DeleteBegin \/ DeleteSave \/ DeleteJobState \/ DeleteBlocked \/ DeleteJob

Next ==
  \/ \E w \in Worker : Start(w) \/ Pipe(w) \/ Fence(w) \/ Lifecycle(w)
  \/ Control
  \/ Expire

Spec == Init /\ [][Next]_vars

(* What the goroutines of a live worker do without being asked: the poll    *)
(* loop, the renewal loop, the control observer, the pipeline and its       *)
(* callbacks all make progress.  A statement that waits for the row lock    *)
(* gets it when fenced transactions keep coming and going: strong fairness. *)
WorkerFairness(w) ==
  /\ WF_vars(LoadClaimed(w)) /\ WF_vars(StopStaleJob(w))
  /\ WF_vars(AdoptClaimed(w) \/ StartClaimed(w) \/ RefuseDone(w))
  /\ WF_vars(Launch(w) \/ FailStart(w))
  /\ WF_vars(GoRunning(w)) /\ WF_vars(Drained(w)) /\ WF_vars(ApplyPause(w))
  /\ WF_vars(FenceRecheck(w) \/ FenceRollback(w)) /\ WF_vars(CommitIntent(w))
  /\ SF_vars(ShutdownDrain(w)) /\ SF_vars(ShutdownExit(w)) /\ WF_vars(Restart(w))
  /\ SF_vars(Claim(w)) /\ SF_vars(Save(w)) /\ SF_vars(Release(w))
  /\ SF_vars(RenewLost(w)) /\ SF_vars(FinishPause(w))

FairSpec == Spec /\ (\A w \in Worker : WorkerFairness(w)) /\ WF_vars(Expire)

-----------------------------------------------------------------------------
(* Safety *)

(* While a fenced transaction holds the row, its worker owns the submission *)
(* it runs and the job is meant to run: no checkpoint is ever written by a  *)
(* worker that lost the job.                                                *)
FenceHolds ==
  lock # NoWorker =>
    /\ Owns(lock, job[lock].sub) /\ job[lock].active
    /\ row.desired = "RUNNING" \/ row.status = "PAUSING"

(* Once a stop is accepted, or the job is deleted, nothing but a new        *)
(* request makes the job eligible again: no late callback of any worker     *)
(* overwrites the stop.                                                     *)
StopSticks == stopped => row.desired = "STOPPED" /\ row.owner = NoWorker

(* A job that the control plane has deleted has no row: a late callback     *)
(* cannot recreate it.                                                      *)
DeletedStaysDeleted == master = "none" => ~row.present

(* A job whose mode starts with a snapshot is offered to the streaming      *)
(* workers only after its snapshot is durably complete, as long as nobody   *)
(* deletes the job and its checkpoint.                                      *)
StreamingAfterSnapshot ==
  JobRole = "SNAPSHOT" /\ master = "managed" /\
  row.present /\ row.desired = "RUNNING" /\ row.role = "STREAMING" => ckpt.done

(* A snapshot starts from scratch once for each request that asks for one:  *)
(* an interruption never throws the durable snapshot progress away.         *)
ResumesFromCheckpoint ==
  [][\A w \in Worker : CommitSnapshotStart(w) => fresh]_vars

(* Once the snapshot worker has let go of a job that it handed over, the    *)
(* job waits for a streaming worker: it is not left DONE.                   *)
HandoffKept ==
  row.present /\ row.role = "STREAMING" /\ row.owner = NoWorker => row.status # "DONE"

-----------------------------------------------------------------------------
(* Liveness *)

(* The instance has no claim left: what a further claim would do is cut off. *)
OutOfClaims == tenure = MaxTenure

(* A pause request is carried out, by whatever worker has the job then: the *)
(* request survives the crash of the worker that was to carry it out.       *)
PauseSettles ==
  row.status = "PAUSING" ~> (row.status \notin ActiveStatus \/ OutOfClaims)

(* The pipeline of a stopped job ends, although nobody tells its worker:    *)
(* the worker finds out when it renews the lease.                           *)
StoppedRunEnds ==
  \A w \in Worker : (stopped /\ job[w].active) ~> (~stopped \/ ~job[w].active)

(* A job that is meant to run gets a running pipeline, however many workers *)
(* crashed or lost it on the way.                                           *)
DesiredJobRuns ==
  (row.present /\ row.desired = "RUNNING") ~>
    \/ row.desired = "STOPPED" \/ OutOfClaims
    \/ \E w \in Worker : Owns(w, job[w].sub) /\ Running(w)
=============================================================================
