--------------------------- MODULE JobLeaseProofs ---------------------------
(***************************************************************************)
(* Proofs about JobLease: for any number of workers, submissions, claims,  *)
(* requests and exits, and whether or not leases are renewed in time.      *)
(* What is said of the handoff is about one snapshot worker.               *)
(***************************************************************************)
EXTENDS JobLease, TLAPS

-----------------------------------------------------------------------------
(* Types of what the helpers return *)

(* The empty row, checkpoint, poll and job of the initial state. *)
LEMMA ConstantTypes ==
  /\ NoRow \in Row /\ NoCheckpoint \in Checkpoint
  /\ NoRecord \in Claimed /\ Querying \in Claimed /\ NoJob \in Job
<1>1. 0 \in Sub
  BY BoundAssumption DEF BoundAssumption, Sub
<1>2. NoRow \in Row
  BY <1>1 DEF NoRow, Row, Desired, Role, Status
<1>3. NoCheckpoint \in Checkpoint
  BY DEF NoCheckpoint, Checkpoint
<1>4. NoRecord \in Claimed /\ Querying \in Claimed
  BY <1>1 DEF NoRecord, Querying, Claimed, Status
<1>5. NoJob \in Job
  BY <1>1 DEF NoJob, Job, Status
<1> QED BY <1>2, <1>3, <1>4, <1>5

(* Writes of MySQLJobStore keep the row well-formed. *)
LEMMA RowTypes ==
  ASSUME row \in Row
  PROVE  /\ Unleased(row) \in Row
         /\ \A w \in Worker, s \in Sub : ReleaseJobLease(w, s) \in Row
         /\ \A s \in Sub, d \in Desired, r \in Role, t \in Status :
              SaveJob(s, d, r, t) \in Row /\ SaveClaimedJob(d, r, t) \in Row
<1>1. Unleased(row) \in Row
  BY DEF Unleased, Row
<1>2. ASSUME NEW w \in Worker, NEW s \in Sub PROVE ReleaseJobLease(w, s) \in Row
  BY <1>1 DEF ReleaseJobLease
<1>3. ASSUME NEW s \in Sub, NEW d \in Desired, NEW r \in Role, NEW t \in Status
      PROVE  SaveJob(s, d, r, t) \in Row
  BY <1>3 DEF SaveJob, Row
<1>4. ASSUME NEW d \in Desired, NEW r \in Role, NEW t \in Status
      PROVE  SaveClaimedJob(d, r, t) \in Row
  <2>1. (IF row.status = "PAUSING" /\ t \in {"CREATED", "QUEUED", "PENDING", "RUNNING"}
         THEN row.status ELSE t) \in Status
    BY DEF Row
  <2> QED BY <2>1 DEF SaveClaimedJob, Row
<1> QED BY <1>1, <1>2, <1>3, <1>4

(* Desired states, roles and the status after requestStop. *)
LEMMA DesiredTypes ==
  ASSUME NEW w \in Worker
  PROVE  /\ \A s \in Status : desiredStateForJobStatus(w, s) \in Desired
         /\ executionRoleForJob(w) \in Role
         /\ \A s \in Status : StopStatus(s) \in Status
BY DEF desiredStateForJobStatus, desiredStateForStatus, Desired, executionRoleForJob,
       durableWorkerRole, Role, StopStatus, Status

(* The guarded and the unguarded save. *)
LEMMA SaveTypes ==
  ASSUME TypeOK, NEW w \in Worker, NEW c, c.put \in Status, c.desired \in Desired
  PROVE  saveJobRecord(w, c) \in Row
<1>1. row \in Row /\ job[w].sub \in Sub
  BY DEF TypeOK, Job
<1> QED BY <1>1, RowTypes, DesiredTypes DEF saveJobRecord

(* The callbacks that the manager leaves behind. *)
LEMMA CallbackTypes ==
  /\ \A s \in Status, d \in Desired : PlainSave(s, d) \in Callback
  /\ \A k \in {"status", "post", "drain", "final", "release"},
        at \in {"pipe", "loop", "other"} : LaterCallback(k, at) \in Callback
BY DEF PlainSave, LaterCallback, Callback, Status, Desired

(* A transition of w's Job adds at most one well-formed callback. *)
LEMMA NotifyTypes ==
  ASSUME NEW w \in Worker, NEW s \in Status, NEW at \in {"pipe", "loop", "other"},
         NEW S \in SUBSET Callback, NEW j
  PROVE  S \cup Notify(w, j, s, at) \in SUBSET Callback
<1>1. StatusCallback(w, j, s, at) \in Callback
  BY DesiredTypes DEF StatusCallback, Callback, Status, Desired
<1> QED BY <1>1 DEF Notify

(* What w's Job becomes in the steps of the pipeline and of the manager. *)
LEMMA JobTypes ==
  ASSUME TypeOK, NEW w \in Worker, NEW s \in Status
  PROVE  /\ job[w] \in Job
         /\ Ended(job[w]) \in Job
         /\ [Ended(job[w]) EXCEPT !.status = s] \in Job
         /\ [job[w] EXCEPT !.status = s] \in Job
         /\ [job[w] EXCEPT !.cancelled = TRUE, !.status = s] \in Job
         /\ PausedJob(job[w]) \in Job
         /\ rec[w] \in Claimed => RestoredJob(w) \in Job /\ Pending(w, RestoredJob(w)) \in Job
<1>1. job[w] \in Job
  BY DEF TypeOK
<1>2. Ended(job[w]) \in Job
  BY <1>1 DEF Ended, Job
<1>3. [Ended(job[w]) EXCEPT !.status = s] \in Job
  BY <1>2 DEF Job
<1>4. [job[w] EXCEPT !.status = s] \in Job
  BY <1>1 DEF Job
<1>5. [job[w] EXCEPT !.cancelled = TRUE, !.status = s] \in Job
  BY <1>1 DEF Job
<1>6. PausedJob(job[w]) \in Job
  BY <1>1 DEF PausedJob, Job, Status
<1>7. ASSUME rec[w] \in Claimed
      PROVE  RestoredJob(w) \in Job /\ Pending(w, RestoredJob(w)) \in Job
  <2>1. (IF rec[w].status \in ActiveStatus THEN "STOPPED" ELSE rec[w].status) \in Status
    BY <1>7 DEF Claimed, Status
  <2>2. rec[w].sub \in Sub /\ tenure \in Nat
    BY <1>7 DEF Claimed, TypeOK
  <2>3. RestoredJob(w) \in Job
    BY <2>1, <2>2, ConstantTypes DEF RestoredJob, Job
  <2>4. (w \in SnapshotWorker => ~FirstAttempt(w)) \in BOOLEAN
    OBVIOUS
  <2> QED BY <2>3, <2>4 DEF Pending, Job, Status
<1> QED BY <1>1, <1>2, <1>3, <1>4, <1>5, <1>6, <1>7

-----------------------------------------------------------------------------
(* Type correctness *)

(* A step of w's Job and callbacks that leaves the rest of the state alone. *)
LEMMA LocalTypes ==
  ASSUME TypeOK, NEW w \in Worker, NEW j \in Job, NEW S \in SUBSET Callback,
         job' = job \/ SetJob(w, j), cbs' = cbs \/ SetCbs(w, S)
  PROVE  job' \in [Worker -> Job] /\ cbs' \in [Worker -> SUBSET Callback]
BY DEF TypeOK, SetJob, SetCbs

(* Claiming and starting a job keeps the types. *)
LEMMA StartTypes ==
  ASSUME TypeOK, NEW w \in Worker, Start(w)
  PROVE  TypeOK'
<1> USE DEF regVars, masterVars
<1>0. /\ rec[w] \in Claimed /\ cbs[w] \in SUBSET Callback /\ row \in Row /\ job[w] \in Job
      /\ rec[w].sub \in Sub
  BY DEF TypeOK, Claimed
<1>c. NoRecord \in Claimed /\ Querying \in Claimed
  BY ConstantTypes
<1>1. CASE Claim(w)
  <2>1. row' \in Row
    BY <1>1, <1>0 DEF Claim, Row
  <2> QED BY <1>1, <1>c, <2>1 DEF Claim, TypeOK
<1>2. CASE ClaimOther(w)
  BY <1>2, <1>c DEF ClaimOther, TypeOK
<1>3. CASE LoadClaimed(w)
  <2>1. [sub |-> row.sub, status |-> row.status, resume |-> row.resume] \in Claimed
    BY <1>0 DEF Row, Claimed
  <2> QED BY <1>3, <1>c, <2>1 DEF LoadClaimed, TypeOK
<1>4. CASE StopStaleJob(w)
  <2>1. StopStatus(job[w].status) \in Status
    BY <1>0, DesiredTypes DEF Job
  <2>2. [job[w] EXCEPT !.gone = TRUE, !.heard = FALSE,
                       !.cancelled = TRUE, !.status = StopStatus(@)] \in Job
    BY <1>0, <2>1 DEF Job
  <2> QED BY <1>4, <2>2 DEF StopStaleJob, SetJob, TypeOK
<1>5. CASE GiveUpStaleJob(w)
  <2>1. row' \in Row
    BY <1>5, <1>0, RowTypes DEF GiveUpStaleJob
  <2>2. lease' \in [Worker -> Sub]
    BY <1>5, ConstantTypes DEF GiveUpStaleJob, TypeOK, NoRow, Row
  <2> QED BY <1>5, <1>c, <2>1, <2>2 DEF GiveUpStaleJob, TypeOK
<1>6. CASE AdoptClaimed(w)
  <2>1. [job[w] EXCEPT !.heard = TRUE, !.handed = FALSE] \in Job
    BY <1>0 DEF Job
  <2> QED BY <1>6, <1>0, <1>c, <2>1 DEF AdoptClaimed, SetJob, TypeOK
<1>7. CASE StartClaimed(w)
  <2>1. "PENDING" \in Status
    BY DEF Status
  <2>2. RestoredJob(w) \in Job /\ Pending(w, RestoredJob(w)) \in Job
    BY <1>0, <2>1, JobTypes
  <2>3. KeptCallbacks(w) \in SUBSET Callback
    BY <1>0 DEF KeptCallbacks
  <2>4. KeptCallbacks(w) \cup Notify(w, RestoredJob(w), "PENDING", "loop") \in SUBSET Callback
    BY <2>1, <2>3, NotifyTypes
  <2>5. job' \in [Worker -> Job] /\ cbs' \in [Worker -> SUBSET Callback]
    BY <1>7, <2>2, <2>4, LocalTypes DEF StartClaimed
  <2> QED BY <1>7, <1>0, <1>c, <2>5 DEF StartClaimed, TypeOK
<1>8. CASE RefuseDone(w)
  <2>1. RestoredJob(w) \in Job
    BY <1>0, JobTypes DEF Status
  <2>2. KeptCallbacks(w) \in SUBSET Callback
    BY <1>0 DEF KeptCallbacks
  <2>3. job' \in [Worker -> Job] /\ cbs' \in [Worker -> SUBSET Callback]
    BY <1>8, <2>1, <2>2, LocalTypes DEF RefuseDone
  <2> QED BY <1>8, <1>0, <1>c, <2>3 DEF RefuseDone, TypeOK
<1>9. CASE Launch(w)
  <2>1. [job[w] EXCEPT !.starting = FALSE, !.active = TRUE] \in Job
    BY <1>0 DEF Job
  <2>2. job[w].status \in Status
    BY <1>0 DEF Job
  <2>3. cbs[w] \cup {PlainSave(job[w].status, desiredStateForJobStatus(w, job[w].status))}
          \in SUBSET Callback
    BY <1>0, <2>2, CallbackTypes, DesiredTypes
  <2>4. job' \in [Worker -> Job] /\ cbs' \in [Worker -> SUBSET Callback]
    BY <1>9, <2>1, <2>3, LocalTypes DEF Launch
  <2> QED BY <1>9, <2>4 DEF Launch, TypeOK
<1>10. CASE FailStart(w)
  <2>1. "FAILED" \in Status
    BY DEF Status
  <2>2. [Ended(job[w]) EXCEPT !.status = "FAILED"] \in Job
    BY <2>1, JobTypes
  <2>3. cbs[w] \cup Notify(w, job[w], "FAILED", "loop") \in SUBSET Callback
    BY <1>0, <2>1, NotifyTypes
  <2>4. job' \in [Worker -> Job] /\ cbs' \in [Worker -> SUBSET Callback]
    BY <1>10, <2>2, <2>3, LocalTypes DEF FailStart
  <2> QED BY <1>10, <2>4 DEF FailStart, TypeOK
<1> QED BY <1>1, <1>2, <1>3, <1>4, <1>5, <1>6, <1>7, <1>8, <1>9, <1>10 DEF Start

(* The guarded save of a callback writes a well-formed row. *)
LEMMA ManagedSaveTypes ==
  ASSUME TypeOK, NEW w \in Worker, NEW c, c.put \in Status, c.desired \in Desired,
         saveManagedJobRecordIfCurrent(w, c)
  PROVE  row' \in Row
<1>1. saveJobRecord(w, c) \in Row /\ row \in Row
  BY SaveTypes DEF TypeOK
<1> QED BY <1>1 DEF saveManagedJobRecordIfCurrent

(* The same for the save of the status as it is. *)
LEMMA PlainSaveTypes ==
  ASSUME TypeOK, NEW w \in Worker, NEW s \in Status, NEW d \in Desired
  PROVE  /\ saveManagedJobRecordIfCurrent(w, PlainSave(s, d)) => row' \in Row
         /\ saveJobRecord(w, PlainSave(s, d)) \in Row
<1> DEFINE c == PlainSave(s, d)
<1>1. c.put \in Status /\ c.desired \in Desired
  BY DEF PlainSave
<1> HIDE DEF c
<1>2. saveManagedJobRecordIfCurrent(w, c) => row' \in Row
  BY <1>1, ManagedSaveTypes
<1>3. saveJobRecord(w, c) \in Row
  BY <1>1, SaveTypes
<1> QED BY <1>2, <1>3 DEF c

(* A status change of the pipeline keeps the types. *)
LEMMA PipelineTypes ==
  ASSUME TypeOK, NEW w \in Worker, NEW j \in Job, NEW s \in Status, Pipeline(w, j, s)
  PROVE  TypeOK'
<1>1. [j EXCEPT !.status = s] \in Job
  BY DEF Job
<1>2. cbs[w] \cup Notify(w, job[w], s, "pipe") \in SUBSET Callback
  BY NotifyTypes DEF TypeOK
<1>3. job' \in [Worker -> Job] /\ cbs' \in [Worker -> SUBSET Callback]
  BY <1>1, <1>2, LocalTypes DEF Pipeline
<1> QED BY <1>3 DEF Pipeline, TypeOK, regVars, masterVars

(* The pipeline keeps the types. *)
LEMMA PipeTypes ==
  ASSUME TypeOK, NEW w \in Worker, Pipe(w)
  PROVE  TypeOK'
<1>0. job[w] \in Job /\ job[w].status \in Status /\ cbs[w] \in SUBSET Callback
  BY DEF TypeOK, Job
<1>s. "RUNNING" \in Status /\ "FAILED" \in Status /\ "PAUSED" \in Status /\ "DONE" \in Status
  BY DEF Status
<1>1. CASE GoRunning(w)
  BY <1>1, <1>0, <1>s, PipelineTypes DEF GoRunning
<1>2. CASE Fail(w)
  <2>1. [job[w] EXCEPT !.cancelled = TRUE] \in Job
    BY <1>0 DEF Job
  <2> QED BY <1>2, <1>s, <2>1, PipelineTypes DEF Fail
<1>3. CASE FinishPause(w)
  BY <1>3, <1>0, <1>s, PipelineTypes DEF FinishPause
<1>4. CASE FinishSnapshot(w)
  <2>1. [job[w] EXCEPT !.handed = job[w].heard] \in Job
    BY <1>0 DEF Job
  <2> QED BY <1>4, <1>s, <2>1, PipelineTypes DEF FinishSnapshot
<1>5. CASE Drained(w)
  <2>1. Ended(job[w]) \in Job
    BY <1>0, JobTypes
  <2>2. ASSUME NEW c \in Callback
        PROVE  (IF c.kind = "drain" THEN [c EXCEPT !.kind = "final"] ELSE c) \in Callback
    BY <2>2 DEF Callback
  <2>3. {IF c.kind = "drain" THEN [c EXCEPT !.kind = "final"] ELSE c : c \in cbs[w]}
          \in SUBSET Callback
    BY <1>0, <2>2
  <2>4. job' \in [Worker -> Job] /\ cbs' \in [Worker -> SUBSET Callback]
    BY <1>5, <2>1, <2>3, LocalTypes DEF Drained
  <2> QED BY <1>5, <2>4 DEF Drained, TypeOK, regVars, masterVars
<1>6. CASE PersistProgress(w)
  <2>1. desiredStateForJobStatus(w, job[w].status) \in Desired
    BY <1>0, DesiredTypes
  <2>2. row' \in Row
    BY <1>6, <1>0, <2>1, PlainSaveTypes DEF PersistProgress
  <2> QED BY <1>6, <2>2 DEF PersistProgress, TypeOK, masterVars, workerVars
<1> QED BY <1>1, <1>2, <1>3, <1>4, <1>5, <1>6 DEF Pipe

(* Fenced transactions keep the types. *)
LEMMA FenceTypes ==
  ASSUME TypeOK, NEW w \in Worker, Fence(w)
  PROVE  TypeOK'
<1> USE DEF masterVars, workerVars
<1>0. job[w] \in Job /\ job[w].by \in Nat /\ ckpt \in Checkpoint
  BY DEF TypeOK, Job
<1>1. CASE FenceBegin(w)
  BY <1>1 DEF FenceBegin, TypeOK
<1>2. CASE FenceRecheck(w)
  BY <1>2 DEF FenceRecheck, TypeOK
<1>3. CASE FenceRollback(w)
  BY <1>3 DEF FenceRollback, TypeOK
<1>4. CASE CommitSnapshotStart(w)
  <2>1. ckpt' \in Checkpoint /\ [job[w] EXCEPT !.begun = TRUE] \in Job
    BY <1>4, <1>0 DEF CommitSnapshotStart, Checkpoint, Job
  <2> QED BY <1>4, <2>1 DEF CommitSnapshotStart, FenceCommit, SetJob, TypeOK
<1>5. CASE CommitProgress(w)
  <2>1. ckpt' \in Checkpoint
    BY <1>5, <1>0 DEF CommitProgress, Checkpoint
  <2> QED BY <1>5, <2>1 DEF CommitProgress, FenceCommit, TypeOK
<1>6. CASE CommitSnapshotDone(w)
  <2>1. ckpt' \in Checkpoint
    BY <1>6, <1>0 DEF CommitSnapshotDone, Checkpoint
  <2> QED BY <1>6, <2>1 DEF CommitSnapshotDone, FenceCommit, TypeOK
<1>7. CASE CommitIntent(w)
  BY <1>7 DEF CommitIntent, FenceCommit, TypeOK
<1> QED BY <1>1, <1>2, <1>3, <1>4, <1>5, <1>6, <1>7 DEF Fence

(* The three kinds of saving callbacks keep the types. *)
LEMMA SaveStepTypes ==
  ASSUME TypeOK, NEW w \in Worker, Save(w)
  PROVE  TypeOK'
<1>0. job[w] \in Job /\ job[w].status \in Status /\ cbs[w] \in SUBSET Callback
  BY DEF TypeOK, Job
<1>1. PICK c \in cbs[w] : SaveStatus(w, c) \/ SavePost(w, c) \/ SaveFinal(w, c)
  BY DEF Save
<1>2. c.put \in Status /\ c.desired \in Desired /\ c.at \in {"pipe", "loop", "other"}
  BY <1>0 DEF Callback
<1>3. cbs[w] \ {c} \in SUBSET Callback
  BY <1>0
<1>4. /\ row' \in Row
      /\ job' \in [Worker -> Job]
      /\ cbs' \in [Worker -> SUBSET Callback]
  <2>1. CASE SaveStatus(w, c)
    <3>1. row' \in Row
      BY <2>1, <1>2, ManagedSaveTypes DEF SaveStatus
    <3>2. PICK S \in SUBSET Callback : SetCbs(w, S)
      <4> DEFINE D == {LaterCallback(IF job[w].active THEN "drain" ELSE "final", "other")}
                 R == {LaterCallback("release", c.at)}
      <4>1. (cbs[w] \ {c}) \cup D \in SUBSET Callback
        BY <1>3, CallbackTypes
      <4>2. (cbs[w] \ {c}) \cup R \in SUBSET Callback
        BY <1>2, <1>3, CallbackTypes
      <4>3. (cbs[w] \ {c}) \cup {} \in SUBSET Callback
        BY <1>3
      <4> HIDE DEF D, R
      <4>4. SetCbs(w, (cbs[w] \ {c}) \cup D) \/ SetCbs(w, (cbs[w] \ {c}) \cup R)
              \/ SetCbs(w, (cbs[w] \ {c}) \cup {})
        BY <2>1 DEF SaveStatus, D, R
      <4> QED BY <4>1, <4>2, <4>3, <4>4
    <3> QED BY <2>1, <3>1, <3>2, <1>0, LocalTypes DEF SaveStatus
  <2>2. CASE SavePost(w, c)
    <3>1. row' \in Row
      BY <2>2, <1>2, ManagedSaveTypes DEF SavePost
    <3>2. StopStatus(job[w].status) \in Status
      BY <1>0, DesiredTypes
    <3>3. CASE SaveLost(w, c)
      <4>1. (cbs[w] \ {c}) \cup Notify(w, job[w], StopStatus(job[w].status), "loop")
              \in SUBSET Callback
        BY <1>3, <3>2, NotifyTypes
      <4>2. [job[w] EXCEPT !.cancelled = TRUE, !.status = StopStatus(@)] \in Job
        BY <1>0, <3>2 DEF Job
      <4> QED BY <2>2, <3>1, <3>3, <4>1, <4>2, LocalTypes DEF SavePost
    <3>4. CASE ~SaveLost(w, c)
      BY <2>2, <3>1, <3>4, <1>0, <1>3, LocalTypes DEF SavePost
    <3> QED BY <3>3, <3>4
  <2>3. CASE SaveFinal(w, c)
    <3>1. desiredStateForJobStatus(w, job[w].status) \in Desired
      BY <1>0, DesiredTypes
    <3>2. row' \in Row
      BY <2>3, <1>0, <3>1, PlainSaveTypes DEF SaveFinal
    <3>3. (cbs[w] \ {c}) \cup
            (IF snapshotStatusReleasesSlot(job[w].status)
             THEN {LaterCallback("release", "other")} ELSE {}) \in SUBSET Callback
      BY <1>3, CallbackTypes
    <3> QED BY <2>3, <3>2, <3>3, <1>0, LocalTypes DEF SaveFinal
  <2> QED BY <1>1, <2>1, <2>2, <2>3
<1> QED BY <1>4 DEF Save, TypeOK, masterVars

(* A process that ends leaves well-formed local state. *)
LEMMA ExitTypes ==
  ASSUME TypeOK, NEW w \in Worker, Exit(w)
  PROVE  /\ up' \in [Worker -> BOOLEAN] /\ restart' \in [Worker -> BOOLEAN]
         /\ shut' \in [Worker -> {"no", "begun", "draining"}]
         /\ lease' \in [Worker -> Sub] /\ rec' \in [Worker -> Claimed]
         /\ job' \in [Worker -> Job] /\ cbs' \in [Worker -> SUBSET Callback]
<1>1. 0 \in Sub
  BY BoundAssumption DEF BoundAssumption, Sub
<1> QED BY <1>1, ConstantTypes DEF Exit, SetJob, SetCbs, TypeOK

(* Releases, renewals, pauses, shutdowns and crashes keep the types. *)
LEMMA LifecycleTypes ==
  ASSUME TypeOK, NEW w \in Worker, Lifecycle(w)
  PROVE  TypeOK'
<1> USE DEF regVars, masterVars
<1>0. /\ job[w] \in Job /\ job[w].sub \in Sub /\ job[w].status \in Status
      /\ row \in Row /\ cbs[w] \in SUBSET Callback
  BY DEF TypeOK, Job
<1>z. 0 \in Sub
  BY BoundAssumption DEF BoundAssumption, Sub
<1>l. [row EXCEPT !.live = TRUE] \in Row
  BY <1>0 DEF Row
<1>s. "STOPPED" \in Status /\ "PAUSING" \in Status /\ "RUNNING" \in Desired
  BY DEF Status, Desired
<1>1. CASE Save(w)
  BY <1>1, SaveStepTypes
<1>2. CASE Release(w)
  <2>1. PICK c \in cbs[w] :
          /\ SetCbs(w, cbs[w] \ {c})
          /\ IF shut[w] # "no" /\ restart[w]
             THEN UNCHANGED <<row, lease>>
             ELSE /\ row' = ReleaseJobLease(w, job[w].sub)
                  /\ lease' = [lease EXCEPT ![w] = IF @ = job[w].sub THEN 0 ELSE @]
          /\ UNCHANGED <<ckpt, lock, checked, masterVars, up, shut, restart, rec, job,
                         tenure, fresh, exits>>
    BY <1>2 DEF Release
  <2>2. row' \in Row
    BY <2>1, <1>0, RowTypes
  <2>3. lease' \in [Worker -> Sub]
    BY <2>1, <1>z DEF TypeOK
  <2>4. cbs' \in [Worker -> SUBSET Callback]
    BY <2>1, <1>0 DEF SetCbs, TypeOK
  <2> QED BY <2>1, <2>2, <2>3, <2>4 DEF TypeOK
<1>3. CASE Renew(w)
  BY <1>3, <1>l DEF Renew, TypeOK, workerVars
<1>4. CASE RenewLost(w)
  <2>1. StopStatus(job[w].status) \in Status
    BY <1>0, DesiredTypes
  <2>2. [job[w] EXCEPT !.heard = FALSE, !.cancelled = TRUE, !.status = StopStatus(@)] \in Job
    BY <1>0, <2>1 DEF Job
  <2>3. row' \in Row
    BY <1>4, <1>0, RowTypes DEF RenewLost
  <2>4. lease' \in [Worker -> Sub]
    BY <1>4, <1>z DEF RenewLost, TypeOK
  <2>5. job' \in [Worker -> Job]
    BY <1>4, <2>2 DEF RenewLost, SetJob, TypeOK
  <2> QED BY <1>4, <2>3, <2>4, <2>5 DEF RenewLost, TypeOK
<1>5. CASE ApplyPause(w)
  <2>1. PausedJob(job[w]) \in Job
    BY <1>s, JobTypes
  <2>2. cbs[w] \cup Notify(w, job[w], "PAUSING", "other") \in SUBSET Callback
    BY <1>0, <1>s, NotifyTypes
  <2>3. job' \in [Worker -> Job] /\ cbs' \in [Worker -> SUBSET Callback]
    BY <1>5, <2>1, <2>2, LocalTypes DEF ApplyPause
  <2> QED BY <1>5, <2>3 DEF ApplyPause, TypeOK
<1>6. CASE ShutdownBegin(w)
  <2>1. row' \in Row
    BY <1>6, <1>0, <1>l DEF ShutdownBegin
  <2> QED BY <1>6, <2>1 DEF ShutdownBegin, TypeOK
<1>7. CASE ShutdownDrain(w)
  <2>1. row' \in Row
    BY <1>7, <1>0, <1>s, PlainSaveTypes DEF ShutdownDrain
  <2>2. PausedJob(job[w]) \in Job /\ [job[w] EXCEPT !.cancelled = TRUE, !.status = "STOPPED"] \in Job
    BY <1>s, JobTypes
  <2>3. /\ cbs[w] \cup Notify(w, job[w], "PAUSING", "other") \in SUBSET Callback
        /\ cbs[w] \cup Notify(w, job[w], "STOPPED", "other") \in SUBSET Callback
    BY <1>0, <1>s, NotifyTypes
  <2>4. \/ /\ SetJob(w, PausedJob(job[w]))
           /\ SetCbs(w, cbs[w] \cup Notify(w, job[w], "PAUSING", "other"))
        \/ /\ SetJob(w, [job[w] EXCEPT !.cancelled = TRUE, !.status = "STOPPED"])
           /\ SetCbs(w, cbs[w] \cup Notify(w, job[w], "STOPPED", "other"))
        \/ UNCHANGED <<job, cbs>>
    BY <1>7 DEF ShutdownDrain
  <2>5. job' \in [Worker -> Job] /\ cbs' \in [Worker -> SUBSET Callback]
    BY <2>2, <2>3, <2>4, LocalTypes DEF TypeOK
  <2> QED BY <1>7, <2>1, <2>5 DEF ShutdownDrain, TypeOK
<1>8. CASE ShutdownExit(w)
  <2>1. saveJobRecord(w, PlainSave(job[w].status, "RUNNING")) \in Row
    BY <1>0, <1>s, PlainSaveTypes
  <2>2. ASSUME NEW r \in Row PROVE Unleased(r) \in Row
    BY <2>2 DEF Unleased, Row
  <2>3. row' \in Row
    BY <1>8, <1>0, <2>1, <2>2 DEF ShutdownExit
  <2>4. Exit(w)
    BY <1>8 DEF ShutdownExit
  <2> QED BY <1>8, <2>3, <2>4, ExitTypes DEF ShutdownExit, TypeOK
<1>9. CASE Crash(w)
  <2>1. Exit(w)
    BY <1>9 DEF Crash
  <2>2. lock' \in Worker \cup {NoWorker} /\ exits' \in Nat
    BY <1>9 DEF Crash, TypeOK
  <2>3. checked' = FALSE \/ checked' = checked
    BY <1>9, Zenon DEF Crash
  <2> QED BY <1>9, <2>1, <2>2, <2>3, ExitTypes DEF Crash, TypeOK
<1>10. CASE Restart(w)
  BY <1>10 DEF Restart, TypeOK
<1> QED BY <1>1, <1>2, <1>3, <1>4, <1>5, <1>6, <1>7, <1>8, <1>9, <1>10 DEF Lifecycle

(* The requests of the control plane keep the types. *)
LEMMA ControlTypes ==
  ASSUME TypeOK, Control
  PROVE  TypeOK'
<1> USE DEF regVars, workerVars
<1>0. /\ row \in Row /\ row.role \in Role /\ nsub \in Sub /\ opread \in Role \cup {"none"}
      /\ mrole \in Role /\ NoRow \in Row /\ NoCheckpoint \in Checkpoint
  BY ConstantTypes DEF TypeOK, Row
<1>r. ASSUME NEW op, Request(op) PROVE requests' \in Nat
  BY <1>r DEF Request, TypeOK
<1>n. nsub < MaxSub => nsub + 1 \in Sub
  BY <1>0, BoundAssumption DEF BoundAssumption, Sub
<1>u. \A r \in Row : Unleased(r) \in Row
  BY DEF Unleased, Row
<1>s. /\ {"RUNNING", "STOPPED"} \subseteq Desired /\ {"SNAPSHOT", "STREAMING"} \subseteq Role
      /\ {"QUEUED", "STOPPED", "STOPPING", "PAUSING", "FAILED"} \subseteq Status
  BY DEF Desired, Role, Status
<1>1. CASE Submit
  <2>1. SaveJob(nsub + 1, "RUNNING", JobRole, "QUEUED") \in Row
    BY <1>1, <1>0, <1>n, <1>s, RowTypes, RoleAssumption DEF Submit, RoleAssumption
  <2> QED BY <1>1, <1>r, <1>n, <1>s, <2>1, RoleAssumption DEF Submit, TypeOK, RoleAssumption
<1>2. CASE RequestJobStop
  <2>1. [row EXCEPT !.desired = "STOPPED", !.status = "STOPPED"] \in Row
    BY <1>0, <1>s DEF Row
  <2> QED BY <1>2, <1>r, <1>u, <2>1 DEF RequestJobStop, TypeOK
<1>3. CASE RequestJobPause
  <2>1. [row EXCEPT !.status = "PAUSING"] \in Row
    BY <1>0, <1>s DEF Row
  <2> QED BY <1>3, <1>r, <2>1 DEF RequestJobPause, TypeOK
<1>4. CASE ResubmitRead
  BY <1>4, <1>0, <1>r DEF ResubmitRead, TypeOK
<1>5. CASE RequestJobResume
  <2>1. [row EXCEPT !.desired = "RUNNING", !.role = opread,
                    !.resume = TRUE, !.status = "QUEUED"] \in Row
    BY <1>5, <1>0, <1>s DEF RequestJobResume, Row
  <2>2. row' \in Row
    BY <1>5, <1>0, <1>u, <2>1 DEF RequestJobResume, Resubmitted
  <2>3. stopped' \in BOOLEAN /\ mrole' \in Role
    BY <1>5, <1>0 DEF RequestJobResume
  <2> QED BY <1>5, <2>2, <2>3 DEF RequestJobResume, TypeOK
<1>6. CASE RequestJobFreshSnapshot
  <2>1. [row EXCEPT !.desired = "RUNNING", !.role = "SNAPSHOT",
                    !.resume = FALSE, !.status = "QUEUED"] \in Row
    BY <1>0, <1>s DEF Row
  <2>2. row' \in Row
    BY <1>6, <1>0, <1>u, <2>1 DEF RequestJobFreshSnapshot, Resubmitted
  <2>3. stopped' \in BOOLEAN /\ fresh' \in BOOLEAN /\ mrole' \in Role
    BY <1>6, <1>0, <1>s DEF RequestJobFreshSnapshot
  <2> QED BY <1>6, <2>2, <2>3 DEF RequestJobFreshSnapshot, TypeOK
<1>7. CASE RequestJobRebuild
  <2>1. row' \in Row
    BY <1>7, <1>0, <1>n, <1>s DEF RequestJobRebuild, Row
  <2> QED BY <1>7, <1>0, <1>n, <1>s, <2>1 DEF RequestJobRebuild, TypeOK
<1>8. CASE DeleteBegin
  BY <1>8, <1>r DEF DeleteBegin, TypeOK
<1>9. CASE DeleteSave
  <2>1. SaveJob(nsub, "STOPPED", "STREAMING", "STOPPING") \in Row
    BY <1>0, <1>s, RowTypes
  <2> QED BY <1>9, <2>1 DEF DeleteSave, TypeOK
<1>10. CASE DeleteJobState
  BY <1>10, <1>0 DEF DeleteJobState, TypeOK
<1>11. CASE DeleteBlocked
  <2>1. SaveJob(nsub, "STOPPED", mrole, "FAILED") \in Row
    BY <1>0, <1>s, RowTypes
  <2> QED BY <1>11, <2>1 DEF DeleteBlocked, TypeOK
<1>12. CASE DeleteJob
  BY <1>12, <1>0 DEF DeleteJob, TypeOK
<1> QED BY <1>1, <1>2, <1>3, <1>4, <1>5, <1>6, <1>7, <1>8, <1>9, <1>10, <1>11, <1>12 DEF Control

(* Every step keeps the types. *)
LEMMA NextTypes ==
  ASSUME TypeOK, [Next]_vars
  PROVE  TypeOK'
<1>1. ASSUME NEW w \in Worker, Start(w) \/ Pipe(w) \/ Fence(w) \/ Lifecycle(w)
      PROVE  TypeOK'
  BY <1>1, StartTypes, PipeTypes, FenceTypes, LifecycleTypes
<1>2. CASE Control
  BY <1>2, ControlTypes
<1>3. CASE Expire
  <2>1. row' \in Row
    BY <1>3 DEF Expire, TypeOK, Row
  <2> QED BY <1>3, <2>1 DEF Expire, TypeOK, masterVars, workerVars
<1>4. CASE UNCHANGED vars
  BY <1>4 DEF vars, TypeOK
<1> QED BY <1>1, <1>2, <1>3, <1>4 DEF Next

(* The state stays well-formed: job status, desired state, role and lease   *)
(* are always among the values the registry and the Job object know, and    *)
(* every callback in flight carries a status that can be saved.             *)
THEOREM TypeCorrect == Spec => []TypeOK
<1>1. Init => TypeOK
  <2> SUFFICES ASSUME Init PROVE TypeOK
    OBVIOUS
  <2>1. 0 \in Sub
    BY BoundAssumption DEF BoundAssumption, Sub
  <2> QED BY <2>1, ConstantTypes, RoleAssumption DEF Init, Unsubmitted, TypeOK, RoleAssumption, Role
<1>2. TypeOK /\ [Next]_vars => TypeOK'
  BY NextTypes
<1> QED BY <1>1, <1>2, PTL DEF Spec

-----------------------------------------------------------------------------
(***************************************************************************)
(* The inductive invariant.  That no late callback reverts a stop or       *)
(* recreates a deleted row rests on the guard of saveJobRecord: the        *)
(* unguarded save is only for jobs that wait for their first claim, and a  *)
(* worker's Job never has that status, nor do the callbacks it leaves.     *)
(* That a fenced transaction keeps its job rests on the row lock, and on   *)
(* a failed start (which ends the Job) never meeting an active run.        *)
(***************************************************************************)
Waiting == {"CREATED", "QUEUED"}

LocalJob(j) == j.status \notin Waiting /\ ~(j.starting /\ j.active)
LocalCbs(S) == \A c \in S : c.put \notin Waiting
LocalInv == \A w \in Worker : LocalJob(job[w]) /\ LocalCbs(cbs[w])

IInv == TypeOK /\ LocalInv /\ FenceHolds /\ StopSticks /\ DeletedStaysDeleted

(* What a worker may do to the row: a stopped job stays stopped, a deleted  *)
(* one deleted, and a row locked by a transaction is left alone.            *)
RowKept ==
  /\ row'.present = row.present
  /\ row.desired = "STOPPED" /\ row.owner = NoWorker =>
       row'.desired = "STOPPED" /\ row'.owner = NoWorker
  /\ row' = row \/ lock = NoWorker

(* The run of a transaction that goes on goes on. *)
RunKept ==
  lock # NoWorker /\ lock' = lock =>
    job'[lock].sub = job[lock].sub /\ job'[lock].active

Kept == LocalInv' /\ RowKept /\ RunKept /\ lock' \in {lock, NoWorker}

(* Callbacks that listeners leave never ask for a waiting status. *)
LEMMA CallbackPuts ==
  ASSUME NEW w \in Worker, NEW s \in Status \ Waiting, NEW S, LocalCbs(S), NEW at, NEW j
  PROVE  LocalCbs(S \cup Notify(w, j, s, at))
<1>1. StatusCallback(w, j, s, at).put \notin Waiting
  BY DEF StatusCallback, Waiting
<1> QED BY <1>1 DEF Notify, LocalCbs

(* A change of w's Job and callbacks that keeps the local invariant. *)
LEMMA LocalStep ==
  ASSUME TypeOK, LocalInv, NEW w \in Worker, NEW j, NEW S,
         job' = job \/ SetJob(w, j), cbs' = cbs \/ SetCbs(w, S),
         LocalJob(j), LocalCbs(S)
  PROVE  LocalInv'
<1> SUFFICES ASSUME NEW v \in Worker PROVE LocalJob(job'[v]) /\ LocalCbs(cbs'[v])
  BY DEF LocalInv
<1>1. job'[v] = job[v] \/ job'[v] = j
  BY DEF SetJob, TypeOK
<1>2. cbs'[v] = cbs[v] \/ cbs'[v] = S
  BY DEF SetCbs, TypeOK
<1> QED BY <1>1, <1>2 DEF LocalInv

(* A change of w's Job that keeps its submission and its run. *)
LEMMA RunStep ==
  ASSUME TypeOK, NEW w \in Worker, NEW j, job' = job \/ SetJob(w, j), FenceHolds,
         lock = w => j.sub = job[w].sub /\ j.active
  PROVE  RunKept
<1> SUFFICES ASSUME lock # NoWorker PROVE job'[lock].sub = job[lock].sub /\ job'[lock].active
  BY DEF RunKept
<1>1. lock \in Worker /\ job[lock].active
  BY DEF TypeOK, FenceHolds
<1> QED BY <1>1 DEF SetJob, TypeOK

(* A step that leaves the Jobs and the callbacks alone. *)
LEMMA SameRuns ==
  ASSUME LocalInv, FenceHolds, UNCHANGED <<job, cbs>>
  PROVE  LocalInv' /\ RunKept
<1>1. LocalInv'
  BY DEF LocalInv
<1>2. RunKept
  BY DEF RunKept, FenceHolds
<1> QED BY <1>1, <1>2

(* The guarded save of a callback of w keeps the row. *)
LEMMA SaveKeepsRow ==
  ASSUME TypeOK, NEW w \in Worker, NEW c, c.put \notin Waiting,
         saveManagedJobRecordIfCurrent(w, c)
  PROVE  RowKept
<1>1. ~UnguardedSave(w, c) /\ NoWorker \notin Worker
  BY WorkerAssumption DEF WorkerAssumption, UnguardedSave, Waiting
<1>2. row' = row \/ (Owns(w, job[w].sub) /\ row' = SaveClaimedJob(c.desired, executionRoleForJob(w), c.put))
  BY <1>1 DEF saveManagedJobRecordIfCurrent, saveJobRecord
<1>3. lock = NoWorker
  BY DEF saveManagedJobRecordIfCurrent, RowFree
<1> QED BY <1>1, <1>2, <1>3 DEF RowKept, SaveClaimedJob, Owns, TypeOK, Row

(* So does the release of a lease of w. *)
LEMMA ReleaseKeepsRow ==
  ASSUME TypeOK, NEW w \in Worker, NEW sub, RowFree, row' = ReleaseJobLease(w, sub)
  PROVE  RowKept
BY DEF ReleaseJobLease, Unleased, RowKept, RowFree, TypeOK, Row

(* A worker that claims and starts the job keeps the invariant's parts. *)
LEMMA StartKeeps ==
  ASSUME IInv, NEW w \in Worker, Start(w)
  PROVE  Kept /\ UNCHANGED <<stopped, master>>
<1> USE DEF regVars, masterVars
<1>0. /\ TypeOK /\ LocalInv /\ FenceHolds /\ LocalJob(job[w]) /\ LocalCbs(cbs[w])
      /\ job[w] \in Job /\ rec[w] \in Claimed
  BY DEF IInv, LocalInv, TypeOK
<1>f. lock = w => job[w].active
  BY <1>0, WorkerAssumption DEF FenceHolds, WorkerAssumption
<1>k. LocalCbs(KeptCallbacks(w))
  BY <1>0 DEF KeptCallbacks, LocalCbs
<1>1. CASE Claim(w)
  <2>1. RowKept
    BY <1>1, <1>0 DEF Claim, Claimable, RowFree, RowKept, TypeOK, Row
  <2> QED BY <1>1, <1>0, <2>1, SameRuns DEF Claim, Kept
<1>2. CASE ClaimOther(w)
  BY <1>2, <1>0, SameRuns DEF ClaimOther, Kept, RowKept
<1>3. CASE LoadClaimed(w)
  BY <1>3, <1>0, SameRuns DEF LoadClaimed, Kept, RowKept
<1>4. CASE StopStaleJob(w)
  <2> DEFINE j == [job[w] EXCEPT !.gone = TRUE, !.heard = FALSE,
                                 !.cancelled = TRUE, !.status = StopStatus(@)]
  <2>1. LocalJob(j) /\ j.sub = job[w].sub /\ j.active = job[w].active
    BY <1>0 DEF LocalJob, Job, StopStatus, Waiting
  <2>2. SetJob(w, j)
    BY <1>4 DEF StopStaleJob
  <2> HIDE DEF j
  <2> QED BY <1>4, <1>0, <1>f, <2>1, <2>2, LocalStep, RunStep
          DEF StopStaleJob, Kept, RowKept
<1>5. CASE GiveUpStaleJob(w)
  <2>1. RowKept
    BY <1>5, <1>0, ReleaseKeepsRow DEF GiveUpStaleJob
  <2> QED BY <1>5, <1>0, <2>1, SameRuns DEF GiveUpStaleJob, Kept
<1>6. CASE AdoptClaimed(w)
  <2> DEFINE j == [job[w] EXCEPT !.heard = TRUE, !.handed = FALSE]
  <2>1. LocalJob(j) /\ j.sub = job[w].sub /\ j.active = job[w].active
    BY <1>0 DEF LocalJob, Job
  <2>2. SetJob(w, j)
    BY <1>6 DEF AdoptClaimed
  <2> HIDE DEF j
  <2> QED BY <1>6, <1>0, <1>f, <2>1, <2>2, LocalStep, RunStep
          DEF AdoptClaimed, Kept, RowKept
<1>r. RestoredJob(w).status \notin Waiting /\ ~RestoredJob(w).active /\ ~RestoredJob(w).starting
  BY <1>0 DEF RestoredJob, NoJob, Claimed, ActiveStatus, Waiting
<1>7. CASE StartClaimed(w)
  <2> DEFINE j == Pending(w, RestoredJob(w))
             S == KeptCallbacks(w) \cup Notify(w, RestoredJob(w), "PENDING", "loop")
  <2>1. LocalJob(j)
    BY <1>r DEF LocalJob, Pending, RestoredJob, NoJob, Waiting
  <2>2. LocalCbs(S)
    BY <1>k, CallbackPuts DEF Status, Waiting
  <2>3. SetJob(w, j) /\ SetCbs(w, S) /\ lock # w
    BY <1>7, <1>f DEF StartClaimed, Startable
  <2> HIDE DEF j, S
  <2> QED BY <1>7, <1>0, <2>1, <2>2, <2>3, LocalStep, RunStep
          DEF StartClaimed, Kept, RowKept
<1>8. CASE RefuseDone(w)
  <2>1. LocalJob(RestoredJob(w))
    BY <1>r DEF LocalJob
  <2>2. SetJob(w, RestoredJob(w)) /\ SetCbs(w, KeptCallbacks(w)) /\ lock # w
    BY <1>8, <1>f DEF RefuseDone
  <2> QED BY <1>8, <1>0, <1>k, <2>1, <2>2, LocalStep, RunStep
          DEF RefuseDone, Kept, RowKept
<1>9. CASE Launch(w)
  <2> DEFINE j == [job[w] EXCEPT !.starting = FALSE, !.active = TRUE]
             S == cbs[w] \cup {PlainSave(job[w].status,
                                  desiredStateForJobStatus(w, job[w].status))}
  <2>1. LocalJob(j) /\ j.sub = job[w].sub /\ j.active
    BY <1>0 DEF LocalJob, Job
  <2>2. LocalCbs(S)
    BY <1>0 DEF LocalCbs, LocalJob, PlainSave
  <2>3. SetJob(w, j) /\ SetCbs(w, S)
    BY <1>9 DEF Launch
  <2> HIDE DEF j, S
  <2> QED BY <1>9, <1>0, <2>1, <2>2, <2>3, LocalStep, RunStep DEF Launch, Kept, RowKept
<1>10. CASE FailStart(w)
  <2> DEFINE j == [Ended(job[w]) EXCEPT !.status = "FAILED"]
             S == cbs[w] \cup Notify(w, job[w], "FAILED", "loop")
  <2>1. LocalJob(j)
    BY <1>0 DEF LocalJob, Ended, Job, Waiting
  <2>2. LocalCbs(S)
    BY <1>0, CallbackPuts DEF Status, Waiting
  <2>3. SetJob(w, j) /\ SetCbs(w, S) /\ lock # w
    BY <1>10, <1>0, <1>f DEF FailStart, LocalJob
  <2> HIDE DEF j, S
  <2> QED BY <1>10, <1>0, <2>1, <2>2, <2>3, LocalStep, RunStep
          DEF FailStart, Kept, RowKept
<1> QED BY <1>1, <1>2, <1>3, <1>4, <1>5, <1>6, <1>7, <1>8, <1>9, <1>10 DEF Start

(* A status change of the pipeline keeps them. *)
LEMMA PipelineKeeps ==
  ASSUME IInv, NEW w \in Worker, NEW j \in Job, NEW s \in Status \ Waiting, Pipeline(w, j, s),
         j.sub = job[w].sub, j.active = job[w].active, j.starting = job[w].starting
  PROVE  Kept /\ UNCHANGED <<stopped, master>>
<1>0. /\ TypeOK /\ LocalInv /\ FenceHolds /\ LocalJob(job[w]) /\ LocalCbs(cbs[w])
      /\ (lock = w => job[w].active)
  BY WorkerAssumption DEF IInv, LocalInv, FenceHolds, WorkerAssumption
<1> DEFINE k == [j EXCEPT !.status = s]
           S == cbs[w] \cup Notify(w, job[w], s, "pipe")
<1>1. LocalJob(k) /\ k.sub = job[w].sub /\ k.active = job[w].active
  BY <1>0 DEF LocalJob, Job
<1>2. LocalCbs(S)
  BY <1>0, CallbackPuts
<1>3. SetJob(w, k) /\ SetCbs(w, S)
  BY DEF Pipeline
<1> HIDE DEF k, S
<1> QED BY <1>0, <1>1, <1>2, <1>3, LocalStep, RunStep
        DEF Pipeline, Kept, RowKept, regVars, masterVars

(* So does the pipeline as a whole. *)
LEMMA PipeKeeps ==
  ASSUME IInv, NEW w \in Worker, Pipe(w)
  PROVE  Kept /\ UNCHANGED <<stopped, master>>
<1>0. /\ TypeOK /\ LocalInv /\ FenceHolds /\ LocalJob(job[w]) /\ LocalCbs(cbs[w])
      /\ job[w] \in Job
  BY DEF IInv, LocalInv, TypeOK
<1>s. {"RUNNING", "FAILED", "PAUSED", "DONE"} \subseteq Status \ Waiting
  BY DEF Status, Waiting
<1>1. CASE GoRunning(w)
  BY <1>1, <1>0, <1>s, PipelineKeeps DEF GoRunning
<1>2. CASE Fail(w)
  <2> DEFINE j == [job[w] EXCEPT !.cancelled = TRUE]
  <2>1. j \in Job /\ j.sub = job[w].sub /\ j.active = job[w].active /\ j.starting = job[w].starting
    BY <1>0 DEF Job
  <2>2. Pipeline(w, j, "FAILED")
    BY <1>2 DEF Fail
  <2> HIDE DEF j
  <2> QED BY <1>s, <2>1, <2>2, PipelineKeeps
<1>3. CASE FinishPause(w)
  BY <1>3, <1>0, <1>s, PipelineKeeps DEF FinishPause
<1>4. CASE FinishSnapshot(w)
  <2> DEFINE j == [job[w] EXCEPT !.handed = job[w].heard]
  <2>1. j \in Job /\ j.sub = job[w].sub /\ j.active = job[w].active /\ j.starting = job[w].starting
    BY <1>0 DEF Job
  <2>2. Pipeline(w, j, "DONE")
    BY <1>4 DEF FinishSnapshot
  <2> HIDE DEF j
  <2> QED BY <1>s, <2>1, <2>2, PipelineKeeps
<1>5. CASE Drained(w)
  <2> DEFINE S == {IF c.kind = "drain" THEN [c EXCEPT !.kind = "final"] ELSE c : c \in cbs[w]}
  <2>1. LocalJob(Ended(job[w]))
    BY <1>0 DEF LocalJob, Ended, Job
  <2>2. LocalCbs(S)
    <3>1. cbs[w] \subseteq Callback
      BY <1>0 DEF TypeOK
    <3>2. ASSUME NEW c \in cbs[w]
          PROVE  (IF c.kind = "drain" THEN [c EXCEPT !.kind = "final"] ELSE c).put \notin Waiting
      BY <3>1, <1>0 DEF LocalCbs, Callback
    <3> QED BY <3>2 DEF LocalCbs
  <2>3. SetJob(w, Ended(job[w])) /\ SetCbs(w, S) /\ lock # w
    BY <1>5 DEF Drained, SourceIdle
  <2> HIDE DEF S
  <2> QED BY <1>5, <1>0, <2>1, <2>2, <2>3, LocalStep, RunStep
          DEF Drained, Kept, RowKept, regVars, masterVars
<1>6. CASE PersistProgress(w)
  <2> DEFINE c == PlainSave(job[w].status, desiredStateForJobStatus(w, job[w].status))
  <2>1. c.put \notin Waiting
    BY <1>0 DEF PlainSave, LocalJob
  <2>2. saveManagedJobRecordIfCurrent(w, c)
    BY <1>6 DEF PersistProgress
  <2> HIDE DEF c
  <2>3. RowKept
    BY <1>0, <2>1, <2>2, SaveKeepsRow
  <2> QED BY <1>6, <1>0, <2>3, SameRuns
          DEF PersistProgress, Kept, masterVars, workerVars
<1> QED BY <1>1, <1>2, <1>3, <1>4, <1>5, <1>6 DEF Pipe

(* So do the fenced transactions; the one that begins holds the row only    *)
(* after its check.                                                         *)
LEMMA FenceKeeps ==
  ASSUME IInv, NEW w \in Worker, Fence(w)
  PROVE  IInv'
<1> USE DEF masterVars, workerVars
<1>0. TypeOK /\ LocalInv /\ FenceHolds /\ StopSticks /\ DeletedStaysDeleted /\ job[w] \in Job
  BY DEF IInv, TypeOK
<1>t. TypeOK'
  BY <1>0, FenceTypes
<1>r. row' = row /\ stopped' = stopped /\ master' = master /\ cbs' = cbs
  BY DEF Fence, FenceBegin, FenceRecheck, FenceRollback, CommitSnapshotStart,
         CommitProgress, CommitSnapshotDone, CommitIntent
<1>d. StopSticks' /\ DeletedStaysDeleted'
  BY <1>0, <1>r DEF StopSticks, DeletedStaysDeleted
<1>1. CASE FenceBegin(w)
  <2>1. LocalInv'
    BY <1>1, <1>0 DEF FenceBegin, LocalInv
  <2>2. FenceHolds'
    BY <1>1 DEF FenceBegin, Running, check, FenceHolds, Owns
  <2> QED BY <1>t, <1>d, <2>1, <2>2 DEF IInv
<1>2. CASE FenceRecheck(w)
  <2>1. LocalInv'
    BY <1>2, <1>0 DEF FenceRecheck, LocalInv
  <2>2. FenceHolds'
    BY <1>2, <1>0 DEF FenceRecheck, FenceHolds, Owns
  <2> QED BY <1>t, <1>d, <2>1, <2>2 DEF IInv
<1>3. CASE lock' = NoWorker /\ (job' = job \/ SetJob(w, [job[w] EXCEPT !.begun = TRUE]))
  <2>1. LocalJob([job[w] EXCEPT !.begun = TRUE]) /\ LocalCbs(cbs[w])
    BY <1>0 DEF LocalInv, LocalJob, Job
  <2>2. LocalInv'
    BY <1>3, <1>0, <1>r, <2>1, LocalStep
  <2>3. FenceHolds'
    BY <1>3 DEF FenceHolds
  <2> QED BY <1>t, <1>d, <2>2, <2>3 DEF IInv
<1> QED BY <1>1, <1>2, <1>3 DEF Fence, FenceRollback, FenceCommit, CommitSnapshotStart,
           CommitProgress, CommitSnapshotDone, CommitIntent

(* The saving callbacks keep them. *)
LEMMA SaveKeeps ==
  ASSUME IInv, NEW w \in Worker, Save(w)
  PROVE  Kept /\ UNCHANGED <<stopped, master>>
<1>0. /\ TypeOK /\ LocalInv /\ FenceHolds /\ LocalJob(job[w]) /\ LocalCbs(cbs[w])
      /\ job[w] \in Job /\ job[w].status \in Status /\ (lock = w => job[w].active)
  BY WorkerAssumption DEF IInv, LocalInv, TypeOK, Job, FenceHolds, WorkerAssumption
<1>1. PICK c \in cbs[w] : SaveStatus(w, c) \/ SavePost(w, c) \/ SaveFinal(w, c)
  BY DEF Save
<1>2. c.put \notin Waiting /\ LocalCbs(cbs[w] \ {c})
  BY <1>0 DEF LocalCbs
<1>3. \A k, at : LocalCbs((cbs[w] \ {c}) \cup {LaterCallback(k, at)})
  BY <1>2 DEF LocalCbs, LaterCallback, Waiting
<1>4. LocalInv' /\ RowKept /\ RunKept
  <2>1. CASE SaveStatus(w, c)
    <3>1. RowKept
      BY <2>1, <1>0, <1>2, SaveKeepsRow DEF SaveStatus
    <3>2. PICK S : SetCbs(w, S) /\ LocalCbs(S)
      <4>1. \/ SetCbs(w, (cbs[w] \ {c}) \cup
                         {LaterCallback(IF job[w].active THEN "drain" ELSE "final", "other")})
            \/ SetCbs(w, (cbs[w] \ {c}) \cup {LaterCallback("release", c.at)})
            \/ SetCbs(w, (cbs[w] \ {c}) \cup {})
        BY <2>1 DEF SaveStatus
      <4>2. LocalCbs((cbs[w] \ {c}) \cup {})
        BY <1>2 DEF LocalCbs
      <4> QED BY <4>1, <4>2, <1>3
    <3>3. job' = job
      BY <2>1 DEF SaveStatus
    <3>4. LocalInv'
      BY <1>0, <3>2, <3>3, LocalStep
    <3>5. RunKept
      BY <1>0, <3>3 DEF RunKept, FenceHolds
    <3> QED BY <3>1, <3>4, <3>5
  <2>2. CASE SavePost(w, c)
    <3>1. RowKept
      BY <2>2, <1>0, <1>2, SaveKeepsRow DEF SavePost
    <3>2. CASE SaveLost(w, c)
      <4> DEFINE j == [job[w] EXCEPT !.cancelled = TRUE, !.status = StopStatus(@)]
                 S == (cbs[w] \ {c}) \cup Notify(w, job[w], StopStatus(job[w].status), "loop")
      <4>1. LocalJob(j) /\ j.sub = job[w].sub /\ j.active = job[w].active
        BY <1>0 DEF LocalJob, Job, StopStatus, Waiting
      <4>2. StopStatus(job[w].status) \in Status \ Waiting
        BY DEF StopStatus, Status, Waiting
      <4>3. LocalCbs(S)
        BY <1>2, <4>2, CallbackPuts
      <4>4. SetJob(w, j) /\ SetCbs(w, S)
        BY <2>2, <3>2 DEF SavePost
      <4> HIDE DEF j, S
      <4> QED BY <3>1, <1>0, <4>1, <4>3, <4>4, LocalStep, RunStep
    <3>3. CASE ~SaveLost(w, c)
      <4>1. job' = job /\ SetCbs(w, cbs[w] \ {c})
        BY <2>2, <3>3 DEF SavePost
      <4>2. LocalInv'
        BY <1>0, <1>2, <4>1, LocalStep
      <4>3. RunKept
        BY <1>0, <4>1 DEF RunKept, FenceHolds
      <4> QED BY <3>1, <4>2, <4>3
    <3> QED BY <3>2, <3>3
  <2>3. CASE SaveFinal(w, c)
    <3> DEFINE d == PlainSave(job[w].status, desiredStateForJobStatus(w, job[w].status))
    <3>1. d.put \notin Waiting /\ saveManagedJobRecordIfCurrent(w, d)
      BY <2>3, <1>0 DEF SaveFinal, PlainSave, LocalJob
    <3> HIDE DEF d
    <3>2. RowKept
      BY <3>1, <1>0, SaveKeepsRow
    <3>3. PICK S : SetCbs(w, S) /\ LocalCbs(S)
      <4>1. \/ SetCbs(w, (cbs[w] \ {c}) \cup {LaterCallback("release", "other")})
            \/ SetCbs(w, (cbs[w] \ {c}) \cup {})
        BY <2>3 DEF SaveFinal
      <4>2. LocalCbs((cbs[w] \ {c}) \cup {})
        BY <1>2 DEF LocalCbs
      <4> QED BY <4>1, <4>2, <1>3
    <3>4. job' = job
      BY <2>3 DEF SaveFinal
    <3>5. LocalInv'
      BY <1>0, <3>3, <3>4, LocalStep
    <3>6. RunKept
      BY <1>0, <3>4 DEF RunKept, FenceHolds
    <3> QED BY <3>2, <3>5, <3>6
  <2> QED BY <1>1, <2>1, <2>2, <2>3
<1> QED BY <1>4 DEF Save, Kept, masterVars

(* So do releases, renewals, pauses, shutdowns and crashes. *)
LEMMA LifecycleKeeps ==
  ASSUME IInv, NEW w \in Worker, Lifecycle(w)
  PROVE  Kept /\ UNCHANGED <<stopped, master>>
<1> USE DEF regVars, masterVars
<1>0. /\ TypeOK /\ LocalInv /\ FenceHolds /\ LocalJob(job[w]) /\ LocalCbs(cbs[w])
      /\ job[w] \in Job /\ job[w].status \in Status /\ (lock = w => job[w].active)
  BY WorkerAssumption DEF IInv, LocalInv, TypeOK, Job, FenceHolds, WorkerAssumption
<1>p. /\ LocalJob(PausedJob(job[w])) /\ PausedJob(job[w]).sub = job[w].sub
      /\ PausedJob(job[w]).active = job[w].active
      /\ LocalCbs(cbs[w] \cup Notify(w, job[w], "PAUSING", "other"))
  <2>1. "PAUSING" \in Status \ Waiting
    BY DEF Status, Waiting
  <2>2. LocalCbs(cbs[w] \cup Notify(w, job[w], "PAUSING", "other"))
    BY <1>0, <2>1, CallbackPuts
  <2> QED BY <1>0, <2>2 DEF LocalJob, PausedJob, Job, Waiting
<1>e. ASSUME Exit(w), lock' = NoWorker \/ lock # w PROVE LocalInv' /\ RunKept
  <2>1. LocalJob(NoJob) /\ LocalCbs({}) /\ SetJob(w, NoJob) /\ SetCbs(w, {})
    BY <1>e DEF LocalJob, LocalCbs, NoJob, Waiting, Exit
  <2>2. LocalInv'
    BY <1>0, <2>1, LocalStep
  <2>3. RunKept
    BY <1>0, <1>e, <2>1, RunStep DEF RunKept
  <2> QED BY <2>2, <2>3
<1>1. CASE Save(w)
  BY <1>1, SaveKeeps
<1>2. CASE Release(w)
  <2>1. PICK c \in cbs[w] :
          /\ RowFree
          /\ SetCbs(w, cbs[w] \ {c})
          /\ row' = row \/ row' = ReleaseJobLease(w, job[w].sub)
          /\ UNCHANGED <<ckpt, lock, checked, masterVars, up, shut, restart, rec, job,
                         tenure, fresh, exits>>
    BY <1>2 DEF Release
  <2>2. RowKept
    BY <2>1, <1>0, ReleaseKeepsRow DEF RowKept
  <2>3. LocalCbs(cbs[w] \ {c})
    BY <1>0 DEF LocalCbs
  <2>4. LocalInv'
    BY <1>0, <2>1, <2>3, LocalStep
  <2>5. RunKept
    BY <1>0, <2>1 DEF RunKept, FenceHolds
  <2> QED BY <2>1, <2>2, <2>4, <2>5 DEF Kept
<1>3. CASE Renew(w)
  <2>1. RowKept
    BY <1>3, <1>0 DEF Renew, RowFree, RowKept, TypeOK, Row
  <2> QED BY <1>3, <1>0, <2>1, SameRuns DEF Renew, Kept, workerVars
<1>4. CASE RenewLost(w)
  <2> DEFINE j == [job[w] EXCEPT !.heard = FALSE, !.cancelled = TRUE, !.status = StopStatus(@)]
  <2>1. LocalJob(j) /\ j.sub = job[w].sub /\ j.active = job[w].active
    BY <1>0 DEF LocalJob, Job, StopStatus, Waiting
  <2>2. job' = job \/ SetJob(w, j)
    BY <1>4 DEF RenewLost
  <2>3. RowKept
    BY <1>4, <1>0, ReleaseKeepsRow DEF RenewLost
  <2> HIDE DEF j
  <2> QED BY <1>4, <1>0, <2>1, <2>2, <2>3, LocalStep, RunStep DEF RenewLost, Kept
<1>5. CASE ApplyPause(w)
  <2>1. LocalInv' /\ RunKept
    BY <1>5, <1>0, <1>p, LocalStep, RunStep DEF ApplyPause
  <2> QED BY <1>5, <2>1 DEF ApplyPause, Kept, RowKept
<1>6. CASE ShutdownBegin(w)
  <2>1. RowKept
    BY <1>6, <1>0 DEF ShutdownBegin, RowFree, RowKept, TypeOK, Row
  <2> QED BY <1>6, <1>0, <2>1, SameRuns DEF ShutdownBegin, Kept
<1>7. CASE ShutdownDrain(w)
  <2> DEFINE c == PlainSave(job[w].status, "RUNNING")
             j == [job[w] EXCEPT !.cancelled = TRUE, !.status = "STOPPED"]
  <2>1. c.put \notin Waiting /\ saveManagedJobRecordIfCurrent(w, c)
    BY <1>7, <1>0 DEF ShutdownDrain, PlainSave, LocalJob
  <2>2. LocalJob(j) /\ j.sub = job[w].sub /\ j.active = job[w].active
    BY <1>0 DEF LocalJob, Job, Waiting
  <2>3. \/ /\ SetJob(w, PausedJob(job[w]))
           /\ SetCbs(w, cbs[w] \cup Notify(w, job[w], "PAUSING", "other"))
        \/ /\ SetJob(w, j)
           /\ SetCbs(w, cbs[w] \cup Notify(w, job[w], "STOPPED", "other"))
        \/ UNCHANGED <<job, cbs>>
    BY <1>7 DEF ShutdownDrain
  <2>4. "STOPPED" \in Status \ Waiting
    BY DEF Status, Waiting
  <2> HIDE DEF c, j
  <2>5. RowKept
    BY <2>1, <1>0, SaveKeepsRow
  <2>6. LocalCbs(cbs[w] \cup Notify(w, job[w], "STOPPED", "other"))
    BY <1>0, <2>4, CallbackPuts
  <2>7. CASE SetJob(w, PausedJob(job[w]))
             /\ SetCbs(w, cbs[w] \cup Notify(w, job[w], "PAUSING", "other"))
    BY <1>7, <1>0, <1>p, <2>5, <2>7, LocalStep, RunStep DEF ShutdownDrain, Kept
  <2>8. CASE SetJob(w, j) /\ SetCbs(w, cbs[w] \cup Notify(w, job[w], "STOPPED", "other"))
    BY <1>7, <1>0, <2>2, <2>5, <2>6, <2>8, LocalStep, RunStep DEF ShutdownDrain, Kept
  <2>9. CASE UNCHANGED <<job, cbs>>
    BY <1>7, <1>0, <2>5, <2>9, SameRuns DEF ShutdownDrain, Kept
  <2> QED BY <2>3, <2>7, <2>8, <2>9
<1>8. CASE ShutdownExit(w)
  <2> DEFINE c == PlainSave(job[w].status, "RUNNING")
             saved == IF Current(w, c) THEN saveJobRecord(w, c) ELSE row
  <2>1. /\ lock = NoWorker /\ lock' = lock /\ Exit(w)
        /\ row' = row \/ row' = saved \/ row' = Unleased(saved)
        /\ UNCHANGED <<stopped, master>>
    BY <1>8 DEF ShutdownExit, RowFree
  <2>2. NoWorker \notin Worker /\ ~UnguardedSave(w, c)
    BY <1>0, WorkerAssumption DEF WorkerAssumption, UnguardedSave, PlainSave, LocalJob, Waiting
  <2>3. \/ saved = row
        \/ /\ Owns(w, job[w].sub)
           /\ saved = SaveClaimedJob(c.desired, executionRoleForJob(w), c.put)
    BY <2>2 DEF saveJobRecord
  <2> HIDE DEF c, saved
  <2>4. /\ saved.present = row.present
        /\ row.desired = "STOPPED" /\ row.owner = NoWorker =>
             saved.desired = "STOPPED" /\ saved.owner = NoWorker
        /\ saved = row \/ (row.owner = w /\ Unleased(saved).present = row.present)
    BY <1>0, <2>2, <2>3 DEF SaveClaimedJob, Owns, Unleased, TypeOK, Row
  <2>5. RowKept
    BY <1>0, <2>1, <2>2, <2>4 DEF RowKept, Unleased, TypeOK, Row
  <2>6. LocalInv' /\ RunKept
    BY <2>1, <1>e, WorkerAssumption DEF WorkerAssumption
  <2> QED BY <2>1, <2>5, <2>6 DEF Kept
<1>9. CASE Crash(w)
  <2>1. LocalInv' /\ RunKept
    BY <1>9, <1>e DEF Crash
  <2> QED BY <1>9, <2>1 DEF Crash, Kept, RowKept
<1>10. CASE Restart(w)
  BY <1>10, <1>0, SameRuns DEF Restart, Kept, RowKept
<1> QED BY <1>1, <1>2, <1>3, <1>4, <1>5, <1>6, <1>7, <1>8, <1>9, <1>10 DEF Lifecycle

(* The parts that a worker keeps make up the invariant. *)
LEMMA KeptSuffices ==
  ASSUME IInv, TypeOK', Kept, UNCHANGED <<stopped, master>>
  PROVE  IInv'
<1>1. FenceHolds'
  <2>1. CASE lock' = NoWorker
    BY <2>1 DEF FenceHolds
  <2>2. CASE lock' # NoWorker
    <3>1. lock' = lock /\ row' = row
      BY <2>2 DEF Kept, RowKept
    <3>2. job'[lock].sub = job[lock].sub /\ job'[lock].active
      BY <2>2, <3>1 DEF Kept, RunKept
    <3> QED BY <2>2, <3>1, <3>2 DEF IInv, FenceHolds, Owns
  <2> QED BY <2>1, <2>2
<1>2. StopSticks' /\ DeletedStaysDeleted'
  BY DEF IInv, Kept, RowKept, StopSticks, DeletedStaysDeleted
<1> QED BY <1>1, <1>2 DEF IInv, Kept

(* The control plane keeps the invariant: each of its statements waits for  *)
(* the row, and only its own requests change what was asked for.            *)
LEMMA ControlKeeps ==
  ASSUME IInv, Control
  PROVE  IInv'
<1> USE DEF regVars, workerVars
<1>0. TypeOK /\ LocalInv /\ FenceHolds /\ StopSticks /\ DeletedStaysDeleted /\ row \in Row
  BY DEF IInv, TypeOK
<1>t. TypeOK'
  BY <1>0, ControlTypes
<1>1. UNCHANGED <<job, cbs, lock>> /\ (row' = row \/ lock = NoWorker)
  BY DEF Control, RowFree, Submit, RequestJobStop, RequestJobPause, ResubmitRead,
         RequestJobResume, RequestJobFreshSnapshot, RequestJobRebuild, DeleteBegin,
         DeleteSave, DeleteJobState, DeleteBlocked, DeleteJob
<1>2. LocalInv'
  BY <1>0, <1>1, SameRuns
<1>3. FenceHolds'
  BY <1>0, <1>1 DEF FenceHolds, Owns
<1>4. StopSticks' /\ DeletedStaysDeleted'
  <2> USE <1>0 DEF StopSticks, DeletedStaysDeleted, Row
  <2>1. CASE Submit
    BY <2>1 DEF Submit
  <2>2. CASE RequestJobStop
    BY <2>2 DEF RequestJobStop, Unleased
  <2>3. CASE RequestJobPause
    BY <2>3 DEF RequestJobPause
  <2>4. CASE ResubmitRead
    BY <2>4 DEF ResubmitRead
  <2>5. CASE RequestJobResume
    BY <2>5 DEF RequestJobResume, Resubmitted, Unleased
  <2>6. CASE RequestJobFreshSnapshot
    BY <2>6 DEF RequestJobFreshSnapshot, Resubmitted, Unleased
  <2>7. CASE RequestJobRebuild
    BY <2>7 DEF RequestJobRebuild
  <2>8. CASE DeleteBegin
    BY <2>8 DEF DeleteBegin
  <2>9. CASE DeleteSave
    BY <2>9 DEF DeleteSave, SaveJob
  <2>10. CASE DeleteJobState
    BY <2>10 DEF DeleteJobState
  <2>11. CASE DeleteBlocked
    BY <2>11 DEF DeleteBlocked, SaveJob
  <2>12. CASE DeleteJob
    BY <2>12 DEF DeleteJob, NoRow
  <2> QED BY <2>1, <2>2, <2>3, <2>4, <2>5, <2>6, <2>7, <2>8, <2>9, <2>10, <2>11, <2>12
          DEF Control
<1> QED BY <1>t, <1>2, <1>3, <1>4 DEF IInv

(* Every step keeps the inductive invariant. *)
LEMMA NextKeeps ==
  ASSUME IInv, [Next]_vars
  PROVE  IInv'
<1>t. TypeOK /\ TypeOK'
  BY NextTypes DEF IInv
<1>1. ASSUME NEW w \in Worker, Start(w) \/ Pipe(w) \/ Fence(w) \/ Lifecycle(w)
      PROVE  IInv'
  BY <1>1, <1>t, StartKeeps, PipeKeeps, FenceKeeps, LifecycleKeeps, KeptSuffices
<1>2. CASE Control
  BY <1>2, ControlKeeps
<1>3. CASE Expire
  <2>1. /\ row' = [row EXCEPT !.live = FALSE] /\ row \in Row
        /\ UNCHANGED <<lock, job, cbs, stopped, master>>
    BY <1>3, <1>t DEF Expire, masterVars, workerVars, TypeOK
  <2>2. LocalInv'
    BY <2>1, SameRuns DEF IInv
  <2>3. FenceHolds' /\ StopSticks' /\ DeletedStaysDeleted'
    BY <2>1 DEF IInv, FenceHolds, Owns, StopSticks, DeletedStaysDeleted, Row
  <2> QED BY <1>t, <2>2, <2>3 DEF IInv
<1>4. CASE UNCHANGED vars
  BY <1>4, <1>t DEF vars, IInv, LocalInv, FenceHolds, Owns, StopSticks, DeletedStaysDeleted
<1> QED BY <1>1, <1>2, <1>3, <1>4 DEF Next

(* The inductive invariant holds of every behaviour of the specification.   *)
THEOREM Inductive == Spec => []IInv
<1>1. Init => IInv
  <2> SUFFICES ASSUME Init PROVE IInv
    OBVIOUS
  <2>1. 0 \in Sub
    BY BoundAssumption DEF BoundAssumption, Sub
  <2>2. TypeOK
    BY <2>1, ConstantTypes, RoleAssumption DEF Init, Unsubmitted, TypeOK, RoleAssumption, Role
  <2>3. LocalInv
    BY DEF Init, Unsubmitted, LocalInv, LocalJob, LocalCbs, NoJob, Waiting
  <2>4. FenceHolds /\ StopSticks /\ DeletedStaysDeleted
    BY DEF Init, Unsubmitted, FenceHolds, StopSticks, DeletedStaysDeleted, NoRow
  <2> QED BY <2>2, <2>3, <2>4 DEF IInv
<1>2. IInv /\ [Next]_vars => IInv'
  BY NextKeeps
<1> QED BY <1>1, <1>2, PTL DEF Spec

(* A fenced transaction that holds the row belongs to a worker that owns    *)
(* the submission it runs, of a job that is meant to run or to drain:       *)
(* FencedOffsetStore never lets a displaced worker write a checkpoint while *)
(* the job is somebody else's.                                              *)
THEOREM FenceSafe == Spec => []FenceHolds
<1>1. IInv => FenceHolds
  BY DEF IInv
<1> QED BY <1>1, Inductive, PTL

(* After an accepted stop, no callback, renewal, release or shutdown of any *)
(* worker makes the job eligible again or gives it an owner.                *)
THEOREM StopSafe == Spec => []StopSticks
<1>1. IInv => StopSticks
  BY DEF IInv
<1> QED BY <1>1, Inductive, PTL

(* After DeleteJob, no late save of a worker recreates the registry row.    *)
THEOREM DeleteSafe == Spec => []DeletedStaysDeleted
<1>1. IInv => DeletedStaysDeleted
  BY DEF IInv
<1> QED BY <1>1, Inductive, PTL

-----------------------------------------------------------------------------
(***************************************************************************)
(* The handoff.  A row becomes STREAMING when a snapshot worker saves it   *)
(* while its run is handed, and that run has then seen the snapshot done.  *)
(* The checkpoint is reset by a run that has not begun, which needs the    *)
(* row; so what has to be shown is that a snapshot worker that still has   *)
(* the row after the handoff holds a run that is over, and gets no other   *)
(* one before its lease is gone, although a poll may hold an older record  *)
(* of the job, and a resubmit the role it has read.                        *)
(***************************************************************************)
PendingDone(w) == \E c \in cbs[w] : c.kind = "status" /\ c.expect = "DONE"

(* The callback with which the run of w gives its lease back. *)
Closing(w) ==
  \E c \in cbs[w] : c.at = "pipe" /\ (c.kind = "release" \/ (c.kind = "status" /\ c.expect = "DONE"))

DoneCallback(w, c) ==
  /\ c.kind = "status" /\ c.expect = "DONE" =>
       c.at = "pipe" /\ (w \in SnapshotWorker => c.put = "STOPPED" /\ c.desired = "RUNNING")
  /\ c.kind = "post" => c.expect # "DONE"

WorkerCalm(w) ==
  /\ shut[w] # "no" => rec[w] = NoRecord
  /\ restart[w] => shut[w] # "no"
  /\ shut[w] = "draining" => restart[w]
  /\ ~job[w].active => \A c \in cbs[w] : c.at # "pipe"
  /\ job[w].active \/ job[w].starting => job[w].sub # 0
  /\ job[w].starting => job[w].status # "DONE"
  /\ \A c \in cbs[w] : DoneCallback(w, c)
  /\ job[w].sub <= nsub /\ rec[w].sub <= nsub

HandedRun(w) ==
  job[w].handed =>
    /\ job[w].begun /\ ~job[w].starting /\ job[w].status = "DONE" /\ job[w].sub # 0
    /\ job[w].sub = row.sub => ckpt.done
    /\ lease[w] = job[w].sub /\ shut[w] = "no" => job[w].active /\ Closing(w)

RunOver(w) ==
  \/ job[w].sub = 0 /\ rec[w].sub = 0 /\ ~job[w].active /\ ~job[w].starting
  \/ /\ job[w].sub = row.sub /\ job[w].status = "DONE"
     /\ job[w].begun /\ ~job[w].starting
     /\ ~job[w].handed => ~restart[w] /\ rec[w].sub = 0
     /\ rec[w].sub # 0 => lease[w] = job[w].sub

HandedOver == (row.present /\ row.role = "STREAMING") \/ opread = "STREAMING"

OwnerOver(w) ==
  row.owner = w =>
    /\ RunOver(w)
    /\ opread = "STREAMING" => ~PendingDone(w)
    /\ row.role = "STREAMING" /\ PendingDone(w) => row.status = "DONE"

RowInv ==
  /\ master \in {"none", "managed"}
  /\ master = "none" => ~row.present /\ row.owner = NoWorker /\ opread = "none"
  /\ row.sub <= nsub /\ (row.present => row.sub # 0)
  /\ master = "managed" => row.present
  /\ row.owner \notin SnapshotWorker \cup {NoWorker} => row.role = "STREAMING"

HandoffInv ==
  /\ RowInv
  /\ \A w \in Worker : WorkerCalm(w)
  /\ \A w \in SnapshotWorker : HandedRun(w)
  /\ HandedOver =>
       /\ ckpt.done
       /\ row.role = "SNAPSHOT" => row.desired = "STOPPED"
       /\ \A w \in SnapshotWorker : OwnerOver(w)

(* What follows is about one snapshot worker and a job nobody deletes.      *)
HandoffAssumption ==
  /\ "delete" \notin Ops
  /\ \A v, w \in SnapshotWorker : v = w

(* A step of w alone. *)
OnlyWorker(w) ==
  \A v \in Worker \ {w} :
    /\ job'[v] = job[v] /\ cbs'[v] = cbs[v] /\ lease'[v] = lease[v]
    /\ rec'[v] = rec[v] /\ shut'[v] = shut[v] /\ restart'[v] = restart[v]

(* Its step leaves alone what is said of the row, but for its lease.        *)
RowStays ==
  /\ row'.present = row.present /\ row'.role = row.role /\ row'.desired = row.desired
  /\ row'.owner = row.owner /\ row'.status = row.status /\ row'.sub = row.sub

RowOver ==
  HandedOver => ckpt.done /\ (row.role = "SNAPSHOT" => row.desired = "STOPPED")

(* What a step of w has to keep. *)
LEMMA WorkerStep ==
  ASSUME TypeOK, HandoffInv, NEW w \in Worker, OnlyWorker(w),
         UNCHANGED <<ckpt, master, opread, nsub>>,
         RowInv', RowOver', row'.sub = row.sub,
         RowStays \/ row'.owner \in {w, NoWorker},
         WorkerCalm(w)',
         w \in SnapshotWorker => HandedRun(w)' /\ (HandedOver' => OwnerOver(w)')
  PROVE  HandoffInv'
<1>n. NoWorker \notin Worker /\ SnapshotWorker \subseteq Worker
  BY WorkerAssumption DEF WorkerAssumption
<1>1. ASSUME NEW v \in Worker PROVE WorkerCalm(v)'
  <2>1. CASE v = w
    BY <2>1
  <2>2. CASE v # w
    BY <2>2 DEF HandoffInv, OnlyWorker, WorkerCalm, DoneCallback
  <2> QED BY <2>1, <2>2
<1>2. ASSUME NEW v \in SnapshotWorker PROVE HandedRun(v)'
  <2>1. CASE v = w
    BY <2>1
  <2>2. CASE v # w
    BY <2>2, <1>n DEF HandoffInv, OnlyWorker, HandedRun, Closing
  <2> QED BY <2>1, <2>2
<1>3. ASSUME NEW v \in SnapshotWorker, HandedOver' PROVE OwnerOver(v)'
  <2>1. CASE v = w
    BY <2>1, <1>3
  <2>2. CASE v # w /\ row'.owner = v
    <3>2. RowStays
      BY <2>2, <1>n
    <3>3. HandedOver /\ OwnerOver(v) /\ v \in Worker
      BY <1>3, <1>n, <3>2 DEF RowStays, HandedOver, HandoffInv
    <3> QED BY <2>2, <3>2, <3>3 DEF RowStays, OwnerOver, RunOver, PendingDone, OnlyWorker
  <2> QED BY <2>1, <2>2 DEF OwnerOver
<1>4. HandedOver' => ckpt'.done /\ (row'.role = "SNAPSHOT" => row'.desired = "STOPPED")
  BY DEF RowOver
<1> QED BY <1>1, <1>2, <1>3, <1>4 DEF HandoffInv

(* The same when the row stays as it is. *)
LEMMA LocalHandoff ==
  ASSUME TypeOK, HandoffInv, NEW w \in Worker, OnlyWorker(w),
         UNCHANGED <<row, ckpt, master, opread, nsub>>,
         WorkerCalm(w)',
         w \in SnapshotWorker => HandedRun(w)' /\ (HandedOver => OwnerOver(w)')
  PROVE  HandoffInv'
<1>1. RowInv' /\ RowOver'
  BY DEF HandoffInv, RowInv, RowOver, HandedOver
<1>2. HandedOver' => HandedOver
  BY DEF HandedOver
<1> QED BY <1>1, <1>2, WorkerStep DEF RowStays

(* A listener leaves a callback for DONE only when the run reaches DONE.    *)
LEMMA NotifyCalm ==
  ASSUME NEW w \in Worker, NEW j, NEW s, s # "DONE", NEW at, NEW c \in Notify(w, j, s, at)
  PROVE  c.kind = "status" /\ c.expect # "DONE" /\ c.at = at /\ DoneCallback(w, c)
BY DEF Notify, StatusCallback, DoneCallback

LEMMA NotifyDone ==
  ASSUME NEW w \in Worker, NEW j, NEW c \in Notify(w, j, "DONE", "pipe")
  PROVE  c.kind = "status" /\ c.expect = "DONE" /\ c.at = "pipe" /\ DoneCallback(w, c)
BY DEF Notify, StatusCallback, DoneCallback

(* What the parts say of one worker. *)
LEMMA Parts ==
  ASSUME IInv, HandoffInv, NEW w \in Worker
  PROVE  /\ TypeOK /\ FenceHolds /\ WorkerCalm(w) /\ RowInv /\ NoWorker \notin Worker
         /\ job[w] \in Job /\ rec[w] \in Claimed /\ row \in Row /\ cbs[w] \in SUBSET Callback
         /\ job[w].status \notin Waiting /\ ~(job[w].starting /\ job[w].active)
         /\ \A c \in cbs[w] : c.put \notin Waiting
         /\ w \in SnapshotWorker => HandedRun(w) /\ (HandedOver => OwnerOver(w))
         /\ RowOver
BY WorkerAssumption DEF IInv, LocalInv, LocalJob, LocalCbs, HandoffInv, TypeOK,
   WorkerAssumption, RowOver

(* A save of w in the status DONE: of that status, or the one with which    *)
(* the listener hands the job over.                                         *)
HandoffSave(w, c) ==
  c.expect = "DONE" =>
    \/ c.put = "DONE" /\ c.desired = (IF restart[w] THEN "RUNNING" ELSE "STOPPED")
    \/ c \in cbs[w] /\ c.kind = "status"

SavedBy(w, c, r) ==
  /\ Owns(w, job[w].sub) /\ lease[w] = job[w].sub /\ lease[w] # 0 /\ job[w].status = c.expect
  /\ r.present /\ r.sub = row.sub /\ r.owner = w
  /\ r.role = executionRoleForJob(w) /\ r.desired = c.desired
  /\ c.put = "DONE" => r.status = "DONE"

LEMMA SavedRow ==
  ASSUME IInv, NEW w \in Worker, NEW c, c.put \notin Waiting,
         NEW r, r = IF Current(w, c) THEN saveJobRecord(w, c) ELSE row
  PROVE  r = row \/ SavedBy(w, c, r)
<1>0. row \in Row
  BY DEF IInv, TypeOK
<1>1. ~UnguardedSave(w, c)
  BY DEF UnguardedSave, Waiting
<1>2. CASE r # row
  <2>1. /\ Current(w, c) /\ claimedWorkerLeaseOwner(w) /\ Owns(w, job[w].sub)
        /\ r = SaveClaimedJob(c.desired, executionRoleForJob(w), c.put)
    BY <1>1, <1>2 DEF saveJobRecord
  <2> QED BY <2>1, <1>0 DEF SavedBy, SaveClaimedJob, Current, claimedWorkerLeaseOwner, Owns, Row
<1> QED BY <1>2

(* What the saved row is, and what is left to be shown of it.               *)
SavedOver(w, r) ==
  /\ r.sub = row.sub
  /\ master = "managed" /\ r.present
  /\ r.owner = w /\ (w \notin SnapshotWorker => r.role = "STREAMING")
  /\ (r.role = "STREAMING" \/ opread = "STREAMING") =>
       /\ ckpt.done
       /\ r.role = "SNAPSHOT" => r.desired = "STOPPED"
       /\ w \in SnapshotWorker =>
            /\ job[w].sub = row.sub /\ job[w].status = "DONE" /\ job[w].begun /\ ~job[w].starting
            /\ ~job[w].handed => ~restart[w] /\ rec[w].sub = 0
            /\ rec[w].sub # 0 => lease[w] = job[w].sub
            /\ opread = "STREAMING" => ~PendingDone(w)

LEMMA SaveHandoff ==
  ASSUME IInv, HandoffInv, NEW w \in Worker, NEW c, HandoffSave(w, c),
         NEW r, SavedBy(w, c, r)
  PROVE  SavedOver(w, r)
<1>p. /\ TypeOK /\ RowInv /\ NoWorker \notin Worker /\ job[w] \in Job /\ RowOver
      /\ w \in SnapshotWorker => HandedRun(w) /\ (HandedOver => OwnerOver(w))
      /\ WorkerCalm(w)
  BY Parts
<1>1. master = "managed" /\ row.owner = w /\ row.present /\ job[w].sub = row.sub
  BY <1>p DEF SavedBy, Owns, RowInv, NoRow
<1>2. CASE w \notin SnapshotWorker
  <2>1. row.role = "STREAMING" /\ r.role = "STREAMING"
    BY <1>p, <1>1, <1>2 DEF RowInv, SavedBy, executionRoleForJob, durableWorkerRole
  <2>2. ckpt.done
    BY <1>p, <1>1, <2>1 DEF RowOver, HandedOver
  <2> QED BY <1>1, <1>2, <2>1, <2>2 DEF SavedOver, SavedBy
<1>3. CASE w \in SnapshotWorker /\ job[w].handed
  <2>1. /\ job[w].begun /\ ~job[w].starting /\ job[w].status = "DONE" /\ ckpt.done
    BY <1>p, <1>1, <1>3 DEF HandedRun
  <2>2. r.role = "STREAMING" /\ lease[w] = job[w].sub
    BY <1>3 DEF SavedBy, executionRoleForJob
  <2>3. opread = "STREAMING" => ~PendingDone(w)
    BY <1>p, <1>1, <1>3 DEF HandedOver, OwnerOver
  <2> QED BY <1>1, <1>3, <2>1, <2>2, <2>3 DEF SavedOver, SavedBy
<1>4. CASE w \in SnapshotWorker /\ ~job[w].handed
  <2>1. r.role = "SNAPSHOT"
    BY <1>4 DEF SavedBy, executionRoleForJob, durableWorkerRole
  <2>2. ASSUME opread = "STREAMING"
        PROVE  /\ ckpt.done /\ r.desired = "STOPPED" /\ ~PendingDone(w)
               /\ job[w].status = "DONE" /\ job[w].begun /\ ~job[w].starting
               /\ ~restart[w] /\ rec[w].sub = 0
    <3>1. HandedOver /\ OwnerOver(w) /\ ckpt.done
      BY <1>p, <1>4, <2>2 DEF HandedOver, RowOver
    <3>2. RunOver(w) /\ ~PendingDone(w) /\ job[w].sub # 0
      BY <1>1, <2>2, <3>1 DEF OwnerOver, SavedBy
    <3>3. /\ job[w].status = "DONE" /\ job[w].begun /\ ~job[w].starting
          /\ ~restart[w] /\ rec[w].sub = 0
      BY <1>4, <3>2 DEF RunOver
    <3>4. c.expect = "DONE" /\ ~(c \in cbs[w] /\ c.kind = "status")
      BY <3>2, <3>3 DEF SavedBy, PendingDone
    <3>5. r.desired = "STOPPED"
      BY <3>3, <3>4 DEF HandoffSave, SavedBy
    <3> QED BY <3>1, <3>2, <3>3, <3>5
  <2> QED BY <1>1, <1>4, <2>1, <2>2 DEF SavedOver, SavedBy
<1> QED BY <1>2, <1>3, <1>4

(* A step of w that saves its row, or leaves it as it is.                   *)
LEMMA SavingStep ==
  ASSUME IInv, HandoffInv, NEW w \in Worker, OnlyWorker(w),
         UNCHANGED <<ckpt, master, opread, nsub>>,
         NEW c, HandoffSave(w, c), row' = row \/ SavedBy(w, c, row'),
         WorkerCalm(w)',
         w \in SnapshotWorker => HandedRun(w)',
         w \in SnapshotWorker /\ HandedOver /\ row' = row => OwnerOver(w)',
         w \in SnapshotWorker /\ SavedOver(w, row') /\ SavedBy(w, c, row') /\ HandedOver'
           => OwnerOver(w)'
  PROVE  HandoffInv'
<1>p. TypeOK /\ RowInv /\ RowOver /\ NoWorker \notin Worker
  BY Parts
<1>1. CASE row' = row
  BY <1>1, <1>p, LocalHandoff
<1>2. CASE SavedBy(w, c, row')
  <2>1. SavedOver(w, row')
    BY <1>2, SaveHandoff
  <2>2. RowInv'
    BY <1>2, <1>p, <2>1 DEF RowInv, SavedOver, SavedBy, Owns
  <2>3. RowOver'
    BY <2>1 DEF RowOver, HandedOver, SavedOver
  <2>4. row'.sub = row.sub /\ row'.owner = w
    BY <2>1 DEF SavedOver
  <2> QED BY <1>2, <1>p, <2>1, <2>2, <2>3, <2>4, WorkerStep
<1> QED BY <1>1, <1>2

(* Giving a lease back.                                                     *)
LEMMA ReleaseOver ==
  ASSUME IInv, HandoffInv, NEW w \in Worker, NEW sub, row' = ReleaseJobLease(w, sub),
         UNCHANGED <<ckpt, master, opread, nsub>>
  PROVE  /\ row'.present = row.present /\ row'.role = row.role /\ row'.desired = row.desired
         /\ row'.status = row.status /\ row'.sub = row.sub
         /\ row'.owner = row.owner \/ row'.owner = NoWorker
         /\ Owns(w, sub) => row'.owner = NoWorker
         /\ ~Owns(w, sub) => row' = row
         /\ RowInv' /\ RowOver'
<1>p. row \in Row /\ RowInv /\ RowOver
  BY Parts
<1>1. /\ row'.present = row.present /\ row'.role = row.role /\ row'.desired = row.desired
      /\ row'.status = row.status /\ row'.sub = row.sub
      /\ row'.owner = row.owner \/ row'.owner = NoWorker
      /\ Owns(w, sub) => row'.owner = NoWorker
      /\ ~Owns(w, sub) => row' = row
  BY <1>p DEF ReleaseJobLease, Unleased, Row
<1>2. master = "none" => row' = row
  BY <1>1, <1>p DEF RowInv, Owns, NoRow
<1>3. RowInv'
  BY <1>1, <1>2, <1>p DEF RowInv
<1>4. RowOver'
  BY <1>1, <1>p DEF RowOver, HandedOver
<1> QED BY <1>1, <1>3, <1>4

(* Claiming and starting keeps the invariant.                               *)
LEMMA StartHandoff ==
  ASSUME IInv, HandoffInv, NEW w \in Worker, Start(w)
  PROVE  HandoffInv'
<1> USE DEF regVars, masterVars
<1>p. /\ TypeOK /\ FenceHolds /\ WorkerCalm(w) /\ RowInv /\ NoWorker \notin Worker
      /\ job[w] \in Job /\ rec[w] \in Claimed /\ row \in Row /\ cbs[w] \in SUBSET Callback
      /\ job[w].status \notin Waiting /\ ~(job[w].starting /\ job[w].active)
      /\ w \in SnapshotWorker => HandedRun(w) /\ (HandedOver => OwnerOver(w))
      /\ RowOver
  BY Parts
<1>f. /\ job \in [Worker -> Job] /\ cbs \in [Worker -> SUBSET Callback]
      /\ rec \in [Worker -> Claimed] /\ lease \in [Worker -> Sub]
  BY <1>p DEF TypeOK
<1>n. NoRecord.sub = 0 /\ Querying.sub = 0 /\ Querying # NoRecord /\ nsub \in Nat /\ 0 <= nsub
  BY <1>p DEF NoRecord, Querying, TypeOK, Sub
<1>1. CASE Claim(w)
  <2>1. /\ row' = [row EXCEPT !.owner = w, !.live = TRUE] /\ UNCHANGED <<job, cbs, lease, shut, restart>>
        /\ rec'[w] = Querying /\ shut[w] = "no" /\ row.role = durableWorkerRole(w)
        /\ row.desired = "RUNNING" /\ row.present
        /\ UNCHANGED <<ckpt, master, opread, nsub>>
    BY <1>1, <1>f DEF Claim, Claimable, LoopIdle
  <2>2. OnlyWorker(w)
    BY <1>1, <1>f DEF Claim, OnlyWorker
  <2>3. WorkerCalm(w)'
    BY <2>1, <1>p, <1>n DEF WorkerCalm, DoneCallback
  <2>4. w \in SnapshotWorker => HandedRun(w)'
    BY <2>1, <1>p DEF HandedRun, Closing, Row
  <2>5. w \in SnapshotWorker => ~HandedOver'
    BY <2>1, <1>p DEF HandedOver, RowOver, durableWorkerRole, Row
  <2>6. RowInv'
    BY <2>1, <1>p DEF RowInv, durableWorkerRole, Row, NoRow
  <2>7. RowOver'
    BY <2>1, <1>p DEF RowOver, HandedOver, Row
  <2>8. row'.sub = row.sub /\ row'.owner = w
    BY <2>1, <1>p DEF Row
  <2> QED BY <1>p, <2>1, <2>2, <2>3, <2>4, <2>5, <2>6, <2>7, <2>8, WorkerStep
<1>2. CASE ClaimOther(w)
  <2>1. /\ UNCHANGED <<row, ckpt, master, opread, nsub, job, cbs, lease, shut, restart>>
        /\ rec'[w] = Querying /\ shut[w] = "no" /\ OnlyWorker(w)
    BY <1>2, <1>f DEF ClaimOther, LoopIdle, OnlyWorker
  <2>2. WorkerCalm(w)'
    BY <2>1, <1>p, <1>n DEF WorkerCalm, DoneCallback
  <2>3. w \in SnapshotWorker => HandedRun(w)' /\ (HandedOver => OwnerOver(w)')
    BY <2>1, <1>p, <1>n DEF HandedRun, Closing, OwnerOver, RunOver, PendingDone
  <2> QED BY <1>p, <2>1, <2>2, <2>3, LocalHandoff
<1>3. CASE LoadClaimed(w)
  <2>1. /\ UNCHANGED <<row, ckpt, master, opread, nsub, job, cbs, lease, shut, restart>>
        /\ rec[w] = Querying /\ OnlyWorker(w)
        /\ \/ rec'[w] = NoRecord
           \/ /\ rec'[w].sub = row.sub /\ row.present /\ row.owner = w
              /\ row.desired = "RUNNING" /\ row.role = durableWorkerRole(w)
    BY <1>3, <1>f DEF LoadClaimed, OnlyWorker
  <2>2. shut[w] = "no"
    BY <2>1, <1>p, <1>n DEF WorkerCalm
  <2>3. WorkerCalm(w)'
    BY <2>1, <2>2, <1>p, <1>n DEF WorkerCalm, DoneCallback, RowInv
  <2>4. w \in SnapshotWorker => HandedRun(w)'
    BY <2>1, <1>p DEF HandedRun, Closing
  <2>5. w \in SnapshotWorker /\ HandedOver => rec'[w] = NoRecord
    BY <2>1, <1>p DEF RowOver, durableWorkerRole
  <2>6. w \in SnapshotWorker /\ HandedOver => OwnerOver(w)'
    BY <2>1, <2>5, <1>p, <1>n DEF OwnerOver, RunOver, PendingDone
  <2> QED BY <1>p, <2>1, <2>3, <2>4, <2>6, LocalHandoff
<1>4. CASE StopStaleJob(w)
  <2>1. /\ UNCHANGED <<row, ckpt, master, opread, nsub, rec, cbs, lease, shut, restart>>
        /\ OnlyWorker(w)
        /\ job'[w] = [job[w] EXCEPT !.gone = TRUE, !.heard = FALSE,
                                    !.cancelled = TRUE, !.status = StopStatus(@)]
    BY <1>4, <1>f DEF StopStaleJob, SetJob, OnlyWorker
  <2>2. /\ job'[w].sub = job[w].sub /\ job'[w].active = job[w].active
        /\ job'[w].starting = job[w].starting /\ job'[w].begun = job[w].begun
        /\ job'[w].handed = job[w].handed
        /\ job'[w].status = "DONE" <=> job[w].status = "DONE"
    BY <2>1, <1>p DEF Job, StopStatus
  <2>3. WorkerCalm(w)'
    BY <2>1, <2>2, <1>p DEF WorkerCalm, DoneCallback
  <2>4. w \in SnapshotWorker => HandedRun(w)' /\ (HandedOver => OwnerOver(w)')
    BY <2>1, <2>2, <1>p DEF HandedRun, Closing, OwnerOver, RunOver, PendingDone
  <2> QED BY <1>p, <2>1, <2>3, <2>4, LocalHandoff
<1>5. CASE GiveUpStaleJob(w)
  <2>1. /\ UNCHANGED <<ckpt, master, opread, nsub, job, cbs, shut, restart>>
        /\ OnlyWorker(w) /\ rec'[w] = NoRecord /\ job[w].sub # rec[w].sub
        /\ lease'[w] = IF lease[w] = rec[w].sub THEN 0 ELSE lease[w]
        /\ row' = ReleaseJobLease(w, rec[w].sub) /\ job[w].sub # 0
    BY <1>5, <1>f DEF GiveUpStaleJob, OnlyWorker
  <2>2. WorkerCalm(w)'
    BY <2>1, <1>p, <1>n DEF WorkerCalm, DoneCallback
  <2>3. /\ row'.present = row.present /\ row'.role = row.role /\ row'.desired = row.desired
        /\ row'.status = row.status /\ row'.sub = row.sub
        /\ row'.owner = row.owner \/ row'.owner = NoWorker
        /\ RowInv' /\ RowOver'
    BY <2>1, ReleaseOver
  <2>4. w \in SnapshotWorker => HandedRun(w)' /\ (HandedOver' => OwnerOver(w)')
    BY <2>1, <2>3, <1>p, <1>n DEF HandedRun, Closing, HandedOver, OwnerOver, RunOver, PendingDone
  <2> QED BY <1>p, <2>1, <2>2, <2>3, <2>4, WorkerStep DEF RowStays
<1>6. CASE AdoptClaimed(w)
  <2>1. /\ UNCHANGED <<row, ckpt, master, opread, nsub, cbs, shut, restart>>
        /\ OnlyWorker(w) /\ rec'[w] = NoRecord /\ rec[w].sub # 0
        /\ job'[w] = [job[w] EXCEPT !.heard = TRUE, !.handed = FALSE]
    BY <1>6, <1>f DEF AdoptClaimed, SetJob, OnlyWorker
  <2>2. /\ job'[w].sub = job[w].sub /\ job'[w].active = job[w].active
        /\ job'[w].starting = job[w].starting /\ job'[w].begun = job[w].begun
        /\ ~job'[w].handed /\ job'[w].status = job[w].status
    BY <2>1, <1>p DEF Job
  <2>3. shut[w] = "no" /\ ~restart[w]
    BY <2>1, <1>p, <1>n DEF WorkerCalm
  <2>4. WorkerCalm(w)'
    BY <2>1, <2>2, <2>3, <1>p, <1>n DEF WorkerCalm, DoneCallback
  <2>5. w \in SnapshotWorker => HandedRun(w)' /\ (HandedOver => OwnerOver(w)')
    BY <2>1, <2>2, <2>3, <1>p, <1>n DEF HandedRun, OwnerOver, RunOver, PendingDone
  <2> QED BY <1>p, <2>1, <2>4, <2>5, LocalHandoff
<1>7. CASE StartClaimed(w) \/ RefuseDone(w)
  <2>1. /\ UNCHANGED <<row, ckpt, master, opread, nsub, shut, restart>>
        /\ OnlyWorker(w) /\ rec'[w] = NoRecord /\ rec[w].sub # 0 /\ ~job[w].active
        /\ \/ /\ job'[w] = Pending(w, RestoredJob(w))
              /\ cbs'[w] = KeptCallbacks(w) \cup Notify(w, RestoredJob(w), "PENDING", "loop")
           \/ job'[w] = RestoredJob(w) /\ cbs'[w] = KeptCallbacks(w)
    BY <1>7, <1>f DEF StartClaimed, Startable, RefuseDone, SetJob, SetCbs, OnlyWorker
  <2>2. /\ RestoredJob(w).sub = rec[w].sub /\ ~RestoredJob(w).active
        /\ ~RestoredJob(w).starting /\ ~RestoredJob(w).handed
    BY DEF RestoredJob, NoJob
  <2>3. /\ job'[w].sub = rec[w].sub /\ ~job'[w].active /\ ~job'[w].handed
        /\ job'[w].starting => job'[w].status = "PENDING"
    BY <2>1, <2>2 DEF Pending, RestoredJob, NoJob
  <2>4. \A c \in cbs'[w] : DoneCallback(w, c) /\ c.at # "pipe"
    <3>1. \A c \in KeptCallbacks(w) : DoneCallback(w, c) /\ c.at # "pipe"
      BY <2>1, <1>p DEF KeptCallbacks, WorkerCalm
    <3>2. \A c \in Notify(w, RestoredJob(w), "PENDING", "loop") : DoneCallback(w, c) /\ c.at # "pipe"
      BY NotifyCalm
    <3> QED BY <2>1, <3>1, <3>2
  <2>5. WorkerCalm(w)'
    BY <2>1, <2>3, <2>4, <1>p, <1>n DEF WorkerCalm, DoneCallback
  <2>6. w \in SnapshotWorker => HandedRun(w)'
    BY <2>3 DEF HandedRun
  <2>7. w \in SnapshotWorker /\ HandedOver => row.owner # w
    <3>1. shut[w] = "no"
      BY <2>1, <1>p, <1>n DEF WorkerCalm
    <3> QED BY <2>1, <3>1, <1>p DEF OwnerOver, RunOver, HandedRun
  <2>8. w \in SnapshotWorker /\ HandedOver => OwnerOver(w)'
    BY <2>1, <2>7 DEF OwnerOver
  <2> QED BY <1>p, <2>1, <2>5, <2>6, <2>8, LocalHandoff
<1>8. CASE Launch(w) \/ FailStart(w)
  <2>1. /\ UNCHANGED <<row, ckpt, master, opread, nsub, rec, lease, shut, restart>>
        /\ OnlyWorker(w) /\ job[w].starting
        /\ \/ /\ job'[w] = [job[w] EXCEPT !.starting = FALSE, !.active = TRUE]
              /\ cbs'[w] = cbs[w] \cup {PlainSave(job[w].status,
                                          desiredStateForJobStatus(w, job[w].status))}
           \/ /\ job'[w] = [Ended(job[w]) EXCEPT !.status = "FAILED"]
              /\ cbs'[w] = cbs[w] \cup Notify(w, job[w], "FAILED", "loop")
    BY <1>8, <1>f DEF Launch, FailStart, SetJob, SetCbs, OnlyWorker
  <2>2. /\ job'[w].sub = job[w].sub /\ ~job'[w].starting /\ job'[w].handed = job[w].handed
    BY <2>1, <1>p DEF Job, Ended
  <2>3. \A c \in cbs'[w] : DoneCallback(w, c) /\ (~job'[w].active => c.at # "pipe")
    <3>1. \A c \in cbs[w] : DoneCallback(w, c) /\ c.at # "pipe" /\ job[w].status # "DONE"
      BY <2>1, <1>p DEF WorkerCalm
    <3>2. \A c \in Notify(w, job[w], "FAILED", "loop") : DoneCallback(w, c) /\ c.at # "pipe"
      BY NotifyCalm
    <3>3. job[w].status # "DONE"
      BY <2>1, <1>p DEF WorkerCalm
    <3>4. DoneCallback(w, PlainSave(job[w].status, desiredStateForJobStatus(w, job[w].status)))
          /\ PlainSave(job[w].status, desiredStateForJobStatus(w, job[w].status)).at # "pipe"
      BY <3>3 DEF DoneCallback, PlainSave
    <3> QED BY <2>1, <3>1, <3>2, <3>4
  <2>4. WorkerCalm(w)'
    BY <2>1, <2>2, <2>3, <1>p, <1>n DEF WorkerCalm, DoneCallback
  <2>5. w \in SnapshotWorker => HandedRun(w)'
    BY <2>1, <2>2, <1>p DEF HandedRun
  <2>6. w \in SnapshotWorker /\ HandedOver => OwnerOver(w)'
    BY <2>1, <1>p DEF OwnerOver, RunOver
  <2> QED BY <1>p, <2>1, <2>4, <2>5, <2>6, LocalHandoff
<1> QED BY <1>1, <1>2, <1>3, <1>4, <1>5, <1>6, <1>7, <1>8 DEF Start

(* A status other than DONE that the pipeline reaches.                      *)
LEMMA PipelineHandoff ==
  ASSUME IInv, HandoffInv, NEW w \in Worker, NEW j \in Job, NEW s, s # "DONE", Pipeline(w, j, s),
         job[w].active, job[w].status # "DONE",
         j.sub = job[w].sub, j.active = job[w].active, j.starting = job[w].starting,
         j.begun = job[w].begun, j.handed = job[w].handed
  PROVE  HandoffInv'
<1>p. /\ TypeOK /\ WorkerCalm(w) /\ ~(job[w].starting /\ job[w].active)
      /\ w \in SnapshotWorker => HandedRun(w) /\ (HandedOver => OwnerOver(w))
  BY Parts
<1>1. /\ UNCHANGED <<row, ckpt, master, opread, nsub, rec, lease, shut, restart>>
      /\ OnlyWorker(w)
      /\ job'[w] = [j EXCEPT !.status = s]
      /\ cbs'[w] = cbs[w] \cup Notify(w, job[w], s, "pipe")
  BY <1>p DEF Pipeline, SetJob, SetCbs, OnlyWorker, regVars, masterVars, TypeOK
<1>2. /\ job'[w].sub = job[w].sub /\ job'[w].active /\ ~job'[w].starting
      /\ job'[w].handed = job[w].handed
  BY <1>1, <1>p DEF Job
<1>3. \A c \in cbs'[w] : DoneCallback(w, c)
  BY <1>1, <1>p, NotifyCalm DEF WorkerCalm
<1>4. WorkerCalm(w)'
  BY <1>1, <1>2, <1>3, <1>p DEF WorkerCalm, DoneCallback
<1>5. w \in SnapshotWorker => HandedRun(w)'
  BY <1>2, <1>p DEF HandedRun
<1>6. w \in SnapshotWorker /\ HandedOver => OwnerOver(w)'
  BY <1>1, <1>p DEF OwnerOver, RunOver
<1> QED BY <1>p, <1>1, <1>4, <1>5, <1>6, LocalHandoff

(* The pipeline keeps the invariant.                                        *)
LEMMA PipeHandoff ==
  ASSUME IInv, HandoffInv, NEW w \in Worker, Pipe(w)
  PROVE  HandoffInv'
<1> USE DEF regVars, masterVars
<1>p. /\ TypeOK /\ WorkerCalm(w) /\ RowInv /\ NoWorker \notin Worker
      /\ job[w] \in Job /\ row \in Row /\ cbs[w] \in SUBSET Callback
      /\ job[w].status \notin Waiting /\ ~(job[w].starting /\ job[w].active)
      /\ w \in SnapshotWorker => HandedRun(w) /\ (HandedOver => OwnerOver(w))
  BY Parts
<1>f. job \in [Worker -> Job] /\ cbs \in [Worker -> SUBSET Callback]
  BY <1>p DEF TypeOK
<1>1. CASE GoRunning(w)
  BY <1>1, <1>p, PipelineHandoff DEF GoRunning, Running
<1>2. CASE Fail(w)
  <2> DEFINE j == [job[w] EXCEPT !.cancelled = TRUE]
  <2>1. /\ j \in Job /\ j.sub = job[w].sub /\ j.active = job[w].active
        /\ j.starting = job[w].starting /\ j.begun = job[w].begun /\ j.handed = job[w].handed
    BY <1>p DEF Job
  <2>2. Pipeline(w, j, "FAILED") /\ job[w].active /\ job[w].status # "DONE"
    BY <1>2 DEF Fail, Running
  <2> HIDE DEF j
  <2> QED BY <2>1, <2>2, PipelineHandoff
<1>3. CASE FinishPause(w)
  BY <1>3, <1>p, PipelineHandoff DEF FinishPause, Running
<1>4. CASE FinishSnapshot(w)
  <2> DEFINE j == [job[w] EXCEPT !.handed = job[w].heard]
  <2>1. /\ UNCHANGED <<row, ckpt, master, opread, nsub, rec, lease, shut, restart>>
        /\ OnlyWorker(w) /\ job[w].active /\ job[w].status = "RUNNING"
        /\ job[w].begun /\ ckpt.done
        /\ job'[w] = [j EXCEPT !.status = "DONE"]
        /\ cbs'[w] = cbs[w] \cup Notify(w, job[w], "DONE", "pipe")
    BY <1>4, <1>f DEF FinishSnapshot, Running, SnapshotComplete, Pipeline, SetJob, SetCbs, OnlyWorker
  <2>2. /\ job'[w].sub = job[w].sub /\ job'[w].active /\ ~job'[w].starting /\ job'[w].begun
        /\ job'[w].handed = job[w].heard /\ job'[w].status = "DONE"
    BY <2>1, <1>p DEF Job
  <2>3. \A c \in cbs'[w] : DoneCallback(w, c)
    BY <2>1, <1>p, NotifyDone DEF WorkerCalm
  <2>4. WorkerCalm(w)'
    BY <2>1, <2>2, <2>3, <1>p DEF WorkerCalm, DoneCallback
  <2>5. job[w].heard => Closing(w)'
    <3>1. job[w].heard => StatusCallback(w, job[w], "DONE", "pipe") \in cbs'[w]
      BY <2>1 DEF Notify
    <3>2. /\ StatusCallback(w, job[w], "DONE", "pipe").kind = "status"
          /\ StatusCallback(w, job[w], "DONE", "pipe").expect = "DONE"
          /\ StatusCallback(w, job[w], "DONE", "pipe").at = "pipe"
      BY DEF StatusCallback
    <3> QED BY <3>1, <3>2 DEF Closing
  <2>6. job[w].sub # 0
    BY <2>1, <1>p DEF WorkerCalm
  <2>7. w \in SnapshotWorker => HandedRun(w)'
    BY <2>1, <2>2, <2>5, <2>6 DEF HandedRun
  <2>8. w \in SnapshotWorker /\ HandedOver => OwnerOver(w)'
    BY <2>1, <1>p DEF OwnerOver, RunOver
  <2> QED BY <1>p, <2>1, <2>4, <2>7, <2>8, LocalHandoff
<1>5. CASE Drained(w)
  <2>1. /\ UNCHANGED <<row, ckpt, master, opread, nsub, rec, lease, shut, restart>>
        /\ OnlyWorker(w) /\ job[w].active /\ ~\E c \in cbs[w] : c.at = "pipe"
        /\ job'[w] = Ended(job[w])
        /\ cbs'[w] = {IF c.kind = "drain" THEN [c EXCEPT !.kind = "final"] ELSE c : c \in cbs[w]}
    BY <1>5, <1>f DEF Drained, SourceIdle, SetJob, SetCbs, OnlyWorker
  <2>2. /\ job'[w].sub = job[w].sub /\ ~job'[w].active /\ ~job'[w].starting /\ job'[w].begun
        /\ job'[w].handed = job[w].handed /\ job'[w].status = job[w].status
    BY <2>1, <1>p DEF Job, Ended
  <2>3. ASSUME NEW c \in cbs'[w]
        PROVE  /\ DoneCallback(w, c) /\ c.at # "pipe"
               /\ c.kind = "status" => c \in cbs[w]
    <3>1. PICK b \in cbs[w] : c = IF b.kind = "drain" THEN [b EXCEPT !.kind = "final"] ELSE b
      BY <2>1
    <3>2. b \in Callback /\ DoneCallback(w, b) /\ b.at # "pipe"
      BY <2>1, <1>p DEF WorkerCalm
    <3>3. CASE b.kind = "drain"
      <4>1. c.kind = "final" /\ c.at = b.at
        BY <3>1, <3>2, <3>3 DEF Callback
      <4> QED BY <4>1, <3>2 DEF DoneCallback
    <3>4. CASE b.kind # "drain"
      BY <3>1, <3>2, <3>4
    <3> QED BY <3>3, <3>4
  <2>4. WorkerCalm(w)'
    BY <2>1, <2>2, <2>3, <1>p DEF WorkerCalm, DoneCallback
  <2>5. PendingDone(w)' => PendingDone(w)
    BY <2>3 DEF PendingDone
  <2>6. w \in SnapshotWorker => HandedRun(w)'
    BY <2>1, <2>2, <1>p DEF HandedRun, Closing
  <2>7. rec[w].sub # 0 => shut[w] = "no"
    BY <1>p DEF WorkerCalm, NoRecord
  <2>8. w \in SnapshotWorker /\ HandedOver => OwnerOver(w)'
    BY <2>1, <2>2, <2>5, <1>p DEF OwnerOver, RunOver
  <2> QED BY <1>p, <2>1, <2>4, <2>6, <2>8, LocalHandoff
<1>6. CASE PersistProgress(w)
  <2> DEFINE s == job[w].status
             c == PlainSave(s, desiredStateForJobStatus(w, s))
  <2>1. /\ UNCHANGED <<ckpt, master, opread, nsub, job, cbs, rec, lease, shut, restart>>
        /\ OnlyWorker(w)
        /\ row' = IF Current(w, c) THEN saveJobRecord(w, c) ELSE row
    BY <1>6 DEF PersistProgress, saveManagedJobRecordIfCurrent, workerVars, OnlyWorker
  <2>2. c.put = s /\ c.expect = s /\ c.desired = desiredStateForJobStatus(w, s)
    BY DEF PlainSave
  <2>3. c.put \notin Waiting /\ HandoffSave(w, c)
    BY <2>2, <1>p DEF HandoffSave, desiredStateForJobStatus, desiredStateForStatus, ActiveStatus
  <2> HIDE DEF c
  <2>4. row' = row \/ SavedBy(w, c, row')
    BY <2>1, <2>3, SavedRow
  <2>5. WorkerCalm(w)'
    BY <2>1, <1>p DEF WorkerCalm, DoneCallback
  <2>6. row' = row \/ row'.sub = row.sub
    BY <2>4 DEF SavedBy
  <2>7. w \in SnapshotWorker => HandedRun(w)'
    BY <2>1, <2>6, <1>p DEF HandedRun, Closing
  <2>8. w \in SnapshotWorker /\ HandedOver /\ row' = row => OwnerOver(w)'
    BY <2>1, <1>p DEF OwnerOver, RunOver, PendingDone
  <2>9. w \in SnapshotWorker /\ SavedOver(w, row') /\ SavedBy(w, c, row') /\ HandedOver'
          => OwnerOver(w)'
    BY <2>1, <2>2 DEF SavedOver, SavedBy, HandedOver, OwnerOver, RunOver, PendingDone
  <2> HIDE DEF s
  <2> QED BY <2>1, <2>3, <2>4, <2>5, <2>7, <2>8, <2>9, SavingStep
<1> QED BY <1>1, <1>2, <1>3, <1>4, <1>5, <1>6 DEF Pipe

(* A step that changes nothing but the checkpoint and the time that the      *)
(* lease has left, and keeps a complete snapshot complete.                  *)
LEMMA CheckpointHandoff ==
  ASSUME HandoffInv, ckpt.done => ckpt'.done, RowStays,
         UNCHANGED <<master, opread, nsub, job, cbs, lease, rec, shut, restart>>
  PROVE  HandoffInv'
<1>1. RowInv' /\ (\A w \in Worker : WorkerCalm(w)')
  BY DEF HandoffInv, RowInv, WorkerCalm, DoneCallback, RowStays
<1>2. \A w \in SnapshotWorker : HandedRun(w)'
  BY DEF HandoffInv, HandedRun, Closing, RowStays
<1>3. HandedOver' => /\ HandedOver /\ ckpt'.done
                     /\ row'.role = "SNAPSHOT" => row'.desired = "STOPPED"
                     /\ \A w \in SnapshotWorker : OwnerOver(w)'
  BY DEF HandoffInv, HandedOver, OwnerOver, RunOver, PendingDone, RowStays
<1> QED BY <1>1, <1>2, <1>3 DEF HandoffInv

(* A snapshot start is written by the run that has the row, before it is    *)
(* handed over; with one snapshot worker there is no other handed run.      *)
LEMMA FenceHandoff ==
  ASSUME IInv, HandoffInv, HandoffAssumption, NEW w \in Worker, Fence(w)
  PROVE  HandoffInv'
<1> USE DEF masterVars, workerVars
<1>1. CASE FenceBegin(w) \/ FenceRecheck(w) \/ FenceRollback(w) \/ CommitIntent(w)
  BY <1>1, CheckpointHandoff
     DEF RowStays, FenceBegin, FenceRecheck, FenceRollback, CommitIntent
<1>2. CASE CommitProgress(w) \/ CommitSnapshotDone(w)
  <2>1. ckpt \in Checkpoint
    BY DEF IInv, TypeOK
  <2>2. ckpt.done => ckpt'.done
    BY <1>2, <2>1 DEF CommitProgress, CommitSnapshotDone, Checkpoint
  <2> QED BY <1>2, <2>2, CheckpointHandoff DEF RowStays, CommitProgress, CommitSnapshotDone
<1>3. CASE CommitSnapshotStart(w)
  <2>p. /\ TypeOK /\ FenceHolds /\ WorkerCalm(w) /\ NoWorker \notin Worker /\ job[w] \in Job
        /\ w \in SnapshotWorker => HandedRun(w) /\ (HandedOver => OwnerOver(w))
    BY Parts
  <2>1. /\ UNCHANGED <<row, master, opread, nsub, cbs, lease, rec, shut, restart>>
        /\ w \in SnapshotWorker /\ ~job[w].begun /\ lock = w
        /\ job' = [job EXCEPT ![w] = [job[w] EXCEPT !.begun = TRUE]]
    BY <1>3 DEF CommitSnapshotStart, FenceCommit, SetJob
  <2>2. row.owner = w /\ job[w].active
    BY <2>p, <2>1 DEF FenceHolds, Owns
  <2>3. ~HandedOver /\ ~job[w].handed
    BY <2>p, <2>1, <2>2 DEF OwnerOver, RunOver, HandedRun
  <2>4. /\ job'[w].sub = job[w].sub /\ job'[w].active = job[w].active
        /\ job'[w].starting = job[w].starting /\ job'[w].status = job[w].status
        /\ job'[w].handed = job[w].handed
        /\ \A v \in Worker \ {w} : job'[v] = job[v]
    BY <2>p, <2>1 DEF TypeOK, Job
  <2>5. ASSUME NEW v \in Worker PROVE WorkerCalm(v)'
    <3>1. /\ job'[v].sub = job[v].sub /\ job'[v].active = job[v].active
          /\ job'[v].starting = job[v].starting /\ job'[v].status = job[v].status
      BY <2>4
    <3>2. WorkerCalm(v)
      BY DEF HandoffInv
    <3> QED BY <2>1, <3>1, <3>2 DEF WorkerCalm, DoneCallback
  <2>6. \A v \in SnapshotWorker : v = w
    BY <2>1 DEF HandoffAssumption
  <2>7. \A v \in SnapshotWorker : HandedRun(v)'
    BY <2>3, <2>4, <2>6 DEF HandedRun
  <2>8. ~HandedOver' /\ RowInv'
    BY <2>1, <2>3 DEF HandedOver, HandoffInv, RowInv
  <2> QED BY <2>5, <2>7, <2>8 DEF HandoffInv
<1> QED BY <1>1, <1>2, <1>3 DEF Fence

(* The callbacks keep the invariant.  The DONE callback of a snapshot       *)
(* worker is always the same record, so none is left when it has run.       *)
LEMMA CallbackHandoff ==
  ASSUME IInv, HandoffInv, NEW w \in Worker, Save(w)
  PROVE  HandoffInv'
<1> USE DEF regVars, masterVars
<1>p. /\ TypeOK /\ WorkerCalm(w) /\ job[w] \in Job /\ row \in Row /\ cbs[w] \in SUBSET Callback
      /\ job[w].status \notin Waiting
      /\ \A c \in cbs[w] : c.put \notin Waiting
      /\ w \in SnapshotWorker => HandedRun(w) /\ (HandedOver => OwnerOver(w))
  BY Parts
<1>f. job \in [Worker -> Job] /\ cbs \in [Worker -> SUBSET Callback]
  BY <1>p DEF TypeOK
<1>u. UNCHANGED <<ckpt, master, opread, nsub, lease, rec, shut, restart>>
  BY DEF Save
<1>c. PICK c \in cbs[w] : SaveStatus(w, c) \/ SavePost(w, c) \/ SaveFinal(w, c)
  BY DEF Save
<1>o. OnlyWorker(w)
  BY <1>u, <1>c, <1>f DEF SaveStatus, SavePost, SaveFinal, SetJob, SetCbs, OnlyWorker
<1>d. c \in Callback /\ DoneCallback(w, c) /\ c.put \notin Waiting
  BY <1>p DEF WorkerCalm
<1>1. CASE SaveStatus(w, c)
  <2>1. /\ row' = IF Current(w, c) THEN saveJobRecord(w, c) ELSE row
        /\ c.kind = "status" /\ job' = job
        /\ cbs'[w] = (cbs[w] \ {c}) \cup
             (CASE c.put = "STOPPING" ->
                    {LaterCallback(IF job[w].active THEN "drain" ELSE "final", "other")}
               [] c.put # "STOPPING" /\ snapshotStatusReleasesSlot(c.expect) ->
                    {LaterCallback("release", c.at)}
               [] OTHER -> {})
    BY <1>1, <1>f DEF SaveStatus, saveManagedJobRecordIfCurrent, SetCbs
  <2>2. row' = row \/ SavedBy(w, c, row')
    BY <2>1, <1>d, SavedRow
  <2>3. HandoffSave(w, c)
    BY <2>1 DEF HandoffSave
  <2>4. ASSUME NEW d \in cbs'[w]
        PROVE  /\ DoneCallback(w, d) /\ (d.at = "pipe" => \E b \in cbs[w] : b.at = "pipe")
               /\ d.kind = "status" => d \in cbs[w] /\ d # c
    <3>1. CASE d \in cbs[w] /\ d # c
      BY <3>1, <1>p DEF WorkerCalm
    <3>2. CASE d \in {LaterCallback("drain", "other"), LaterCallback("final", "other"),
                      LaterCallback("release", c.at)}
      BY <3>2 DEF LaterCallback, DoneCallback
    <3> QED BY <2>1, <3>1, <3>2
  <2>5. WorkerCalm(w)'
    BY <2>1, <2>4, <1>u, <1>p DEF WorkerCalm
  <2>6. w \in SnapshotWorker /\ Closing(w) => Closing(w)'
    <3>1. CASE c.expect = "DONE" /\ w \in SnapshotWorker
      <4>1. c.put = "STOPPED" /\ c.at = "pipe"
        BY <3>1, <2>1, <1>d DEF DoneCallback
      <4>2. LaterCallback("release", "pipe") \in cbs'[w]
        BY <2>1, <3>1, <4>1 DEF snapshotStatusReleasesSlot
      <4> QED BY <4>2 DEF Closing, LaterCallback
    <3>2. CASE c.expect # "DONE"
      BY <2>1, <3>2 DEF Closing
    <3> QED BY <3>1, <3>2
  <2>7. row'.sub = row.sub
    BY <2>2 DEF SavedBy
  <2>8. w \in SnapshotWorker => HandedRun(w)'
    BY <2>1, <2>6, <2>7, <1>u, <1>p DEF HandedRun
  <2>9. PendingDone(w)' => PendingDone(w)
    BY <2>4 DEF PendingDone
  <2>10. w \in SnapshotWorker /\ HandedOver /\ row' = row => OwnerOver(w)'
    BY <2>1, <2>9, <1>u, <1>p DEF OwnerOver, RunOver
  <2>11. w \in SnapshotWorker /\ SavedOver(w, row') /\ SavedBy(w, c, row') /\ HandedOver'
           => OwnerOver(w)'
    <3> SUFFICES ASSUME w \in SnapshotWorker, SavedOver(w, row'), SavedBy(w, c, row'), HandedOver'
                 PROVE  OwnerOver(w)'
      OBVIOUS
    <3>1. c.expect = "DONE"
      BY <1>u DEF SavedOver, SavedBy, HandedOver
    <3>2. \A d \in Callback : d.kind = "status" /\ d.expect = "DONE" /\ DoneCallback(w, d) => d = c
      BY <3>1, <2>1, <1>d DEF DoneCallback, Callback
    <3>3. ~PendingDone(w)'
      BY <3>2, <2>4, <1>p DEF PendingDone
    <3> QED BY <3>3, <2>1, <1>u DEF SavedOver, HandedOver, OwnerOver, RunOver
  <2> QED BY <2>2, <2>3, <2>5, <2>8, <2>10, <2>11, <1>u, <1>o, SavingStep
<1>2. CASE SavePost(w, c)
  <2>1. /\ row' = IF Current(w, c) THEN saveJobRecord(w, c) ELSE row
        /\ c.kind = "post"
        /\ \/ job' = job /\ cbs'[w] = cbs[w] \ {c}
           \/ /\ job'[w] = [job[w] EXCEPT !.cancelled = TRUE, !.status = StopStatus(@)]
              /\ cbs'[w] = (cbs[w] \ {c}) \cup Notify(w, job[w], StopStatus(job[w].status), "loop")
    BY <1>2, <1>f DEF SavePost, saveManagedJobRecordIfCurrent, SetCbs, SetJob
  <2>2. c.expect # "DONE"
    BY <2>1, <1>d DEF DoneCallback
  <2>3. row' = row \/ SavedBy(w, c, row')
    BY <2>1, <1>d, SavedRow
  <2>4. HandoffSave(w, c)
    BY <2>2 DEF HandoffSave
  <2>5. ASSUME NEW d \in cbs'[w]
        PROVE  /\ DoneCallback(w, d) /\ (d.at = "pipe" => d \in cbs[w])
               /\ d.kind = "status" /\ d.expect = "DONE" => d \in cbs[w]
    <3>1. CASE d \in cbs[w]
      BY <3>1, <1>p DEF WorkerCalm
    <3>2. CASE d \in Notify(w, job[w], StopStatus(job[w].status), "loop")
      <4>1. StopStatus(job[w].status) # "DONE"
        BY <3>2 DEF Notify, StopStatus
      <4> QED BY <3>2, <4>1, NotifyCalm
    <3> QED BY <2>1, <3>1, <3>2
  <2>6. /\ job'[w].sub = job[w].sub /\ job'[w].active = job[w].active
        /\ job'[w].starting = job[w].starting /\ job'[w].begun = job[w].begun
        /\ job'[w].handed = job[w].handed
        /\ job'[w].status = "DONE" <=> job[w].status = "DONE"
    BY <2>1, <1>p DEF Job, StopStatus
  <2>7. WorkerCalm(w)'
    BY <2>5, <2>6, <1>u, <1>p DEF WorkerCalm
  <2>8. Closing(w) => Closing(w)'
    BY <2>1 DEF Closing
  <2>9. row'.sub = row.sub
    BY <2>3 DEF SavedBy
  <2>10. w \in SnapshotWorker => HandedRun(w)'
    BY <2>6, <2>8, <2>9, <1>u, <1>p DEF HandedRun
  <2>11. PendingDone(w)' => PendingDone(w)
    BY <2>5 DEF PendingDone
  <2>12. w \in SnapshotWorker /\ HandedOver /\ row' = row => OwnerOver(w)'
    BY <2>6, <2>11, <1>u, <1>p DEF OwnerOver, RunOver
  <2>13. w \in SnapshotWorker /\ SavedOver(w, row') /\ SavedBy(w, c, row') /\ HandedOver'
           => OwnerOver(w)'
    BY <2>2, <1>u DEF SavedOver, SavedBy, HandedOver
  <2> QED BY <2>3, <2>4, <2>7, <2>10, <2>12, <2>13, <1>u, <1>o, SavingStep
<1>3. CASE SaveFinal(w, c)
  <2> DEFINE s == job[w].status
             p == PlainSave(s, desiredStateForJobStatus(w, s))
  <2>1. /\ row' = IF Current(w, p) THEN saveJobRecord(w, p) ELSE row
        /\ c.kind = "final" /\ job' = job
        /\ cbs'[w] = (cbs[w] \ {c}) \cup
             (IF snapshotStatusReleasesSlot(s) THEN {LaterCallback("release", "other")} ELSE {})
    BY <1>3, <1>f DEF SaveFinal, saveManagedJobRecordIfCurrent, SetCbs
  <2>2. p.put = s /\ p.expect = s /\ p.desired = desiredStateForJobStatus(w, s)
    BY DEF PlainSave
  <2>3. p.put \notin Waiting /\ HandoffSave(w, p)
    BY <2>2, <1>p DEF HandoffSave, desiredStateForJobStatus, desiredStateForStatus, ActiveStatus
  <2> HIDE DEF p
  <2>4. row' = row \/ SavedBy(w, p, row')
    BY <2>1, <2>3, SavedRow
  <2>5. ASSUME NEW d \in cbs'[w]
        PROVE  /\ DoneCallback(w, d) /\ (d.at = "pipe" => d \in cbs[w])
               /\ d.kind = "status" => d \in cbs[w]
    <3>1. CASE d \in cbs[w]
      BY <3>1, <1>p DEF WorkerCalm
    <3>2. CASE d = LaterCallback("release", "other")
      BY <3>2 DEF LaterCallback, DoneCallback
    <3> QED BY <2>1, <3>1, <3>2
  <2>6. WorkerCalm(w)'
    BY <2>1, <2>5, <1>u, <1>p DEF WorkerCalm
  <2>7. Closing(w) => Closing(w)'
    BY <2>1 DEF Closing
  <2>8. row'.sub = row.sub
    BY <2>4 DEF SavedBy
  <2>9. w \in SnapshotWorker => HandedRun(w)'
    BY <2>1, <2>7, <2>8, <1>u, <1>p DEF HandedRun
  <2>10. PendingDone(w)' => PendingDone(w)
    BY <2>5 DEF PendingDone
  <2>11. w \in SnapshotWorker /\ HandedOver /\ row' = row => OwnerOver(w)'
    BY <2>1, <2>10, <1>u, <1>p DEF OwnerOver, RunOver
  <2>12. w \in SnapshotWorker /\ SavedOver(w, row') /\ SavedBy(w, p, row') /\ HandedOver'
           => OwnerOver(w)'
    BY <2>1, <2>2, <2>10, <1>u DEF SavedOver, SavedBy, HandedOver, OwnerOver, RunOver
  <2> HIDE DEF s
  <2> QED BY <2>3, <2>4, <2>6, <2>9, <2>11, <2>12, <1>u, <1>o, SavingStep
<1> QED BY <1>c, <1>1, <1>2, <1>3

(* Giving the lease of the run back, whatever else is left of the run.      *)
LEMMA ReleasedHandoff ==
  ASSUME IInv, HandoffInv, NEW w \in Worker, OnlyWorker(w), w \in SnapshotWorker => (HandedOver => row.present),
         UNCHANGED <<ckpt, master, opread, nsub, rec, shut, restart>>,
         row' = ReleaseJobLease(w, job[w].sub),
         lease'[w] = IF lease[w] = job[w].sub THEN 0 ELSE lease[w],
         job'[w].sub = job[w].sub, job'[w].active = job[w].active,
         job'[w].starting = job[w].starting, job'[w].begun = job[w].begun,
         job'[w].handed = job[w].handed, (job'[w].status = "DONE") <=> (job[w].status = "DONE"),
         cbs'[w] \subseteq cbs[w]
  PROVE  HandoffInv'
<1>p. /\ TypeOK /\ WorkerCalm(w) /\ NoWorker \notin Worker /\ job[w] \in Job /\ lease[w] \in Sub
      /\ w \in SnapshotWorker => HandedRun(w) /\ (HandedOver => OwnerOver(w))
  BY Parts DEF TypeOK
<1>1. /\ RowInv' /\ RowOver' /\ row'.sub = row.sub /\ row'.role = row.role
      /\ row'.status = row.status
      /\ Owns(w, job[w].sub) => row'.owner = NoWorker
      /\ ~Owns(w, job[w].sub) => row' = row
      /\ RowStays \/ row'.owner = NoWorker
  BY ReleaseOver DEF RowStays
<1>2. WorkerCalm(w)'
  BY <1>p DEF WorkerCalm
<1>3. w \in SnapshotWorker => HandedRun(w)'
  BY <1>p, <1>1 DEF HandedRun
<1>4. ASSUME w \in SnapshotWorker, HandedOver' PROVE OwnerOver(w)'
  <2>1. HandedOver
    <3>1. row'.present = row.present
      BY ReleaseOver
    <3> QED BY <1>1, <1>4, <3>1 DEF HandedOver
  <2>2. row'.owner = w => /\ row' = row
                          /\ job[w].sub = 0 /\ rec[w].sub = 0 /\ ~job[w].active /\ ~job[w].starting
    BY <1>1, <1>4, <1>p, <2>1 DEF OwnerOver, RunOver, Owns
  <2> QED BY <1>4, <1>p, <2>1, <2>2 DEF OwnerOver, RunOver, PendingDone
<1> QED BY <1>p, <1>1, <1>2, <1>3, <1>4, WorkerStep

(* The end of the process leaves nothing of its run.                        *)
LEMMA ExitHandoff ==
  ASSUME IInv, HandoffInv, NEW w \in Worker, Exit(w), UNCHANGED <<ckpt, master, opread, nsub>>,
         RowInv', RowOver', row'.sub = row.sub, row' = row \/ row'.owner \in {w, NoWorker}
  PROVE  HandoffInv'
<1>p. /\ TypeOK /\ job[w] \in Job /\ row \in Row
  BY Parts
<1>1. /\ OnlyWorker(w) /\ shut'[w] = "no" /\ restart'[w] = FALSE /\ rec'[w] = NoRecord
      /\ job'[w] = NoJob /\ cbs'[w] = {}
  BY <1>p DEF Exit, SetJob, SetCbs, OnlyWorker, TypeOK
<1>n. nsub' \in Nat /\ 0 <= nsub' /\ NoRecord.sub = 0
  BY <1>p DEF TypeOK, Sub, NoRecord
<1>2. WorkerCalm(w)'
  BY <1>1, <1>n DEF WorkerCalm, NoJob
<1>3. HandedRun(w)' /\ OwnerOver(w)'
  BY <1>1, <1>n DEF HandedRun, OwnerOver, RunOver, PendingDone, NoJob
<1> QED BY <1>p, <1>1, <1>2, <1>3, WorkerStep DEF RowStays

(* Releases, renewals, pauses, shutdowns and crashes keep the invariant.    *)
LEMMA LifecycleHandoff ==
  ASSUME IInv, HandoffInv, NEW w \in Worker, Lifecycle(w)
  PROVE  HandoffInv'
<1> USE DEF regVars, masterVars, workerVars
<1>p. /\ TypeOK /\ WorkerCalm(w) /\ RowInv /\ RowOver /\ NoWorker \notin Worker
      /\ job[w] \in Job /\ row \in Row
      /\ cbs[w] \in SUBSET Callback /\ job[w].status \notin Waiting
      /\ w \in SnapshotWorker => HandedRun(w) /\ (HandedOver => OwnerOver(w))
  BY Parts
<1>f. /\ job \in [Worker -> Job] /\ cbs \in [Worker -> SUBSET Callback]
      /\ lease \in [Worker -> Sub] /\ shut \in [Worker -> {"no", "begun", "draining"}]
      /\ restart \in [Worker -> BOOLEAN]
  BY <1>p DEF TypeOK
<1>m. HandedOver => row.present
  BY <1>p DEF HandedOver, RowInv
<1>1. CASE Save(w)
  BY <1>1, CallbackHandoff
<1>2. CASE Release(w)
  <2>1. PICK c \in cbs[w] :
          /\ c.kind = "release" /\ cbs' = [cbs EXCEPT ![w] = cbs[w] \ {c}]
          /\ IF shut[w] # "no" /\ restart[w]
             THEN UNCHANGED <<row, lease>>
             ELSE /\ row' = ReleaseJobLease(w, job[w].sub)
                  /\ lease' = [lease EXCEPT ![w] = IF @ = job[w].sub THEN 0 ELSE @]
          /\ UNCHANGED <<ckpt, master, opread, nsub, rec, job, shut, restart>>
    BY <1>2 DEF Release, SetCbs
  <2>2. cbs'[w] = cbs[w] \ {c} /\ (\A v \in Worker \ {w} : cbs'[v] = cbs[v])
    BY <2>1, <1>f
  <2>3. CASE shut[w] # "no" /\ restart[w]
    <3>1. OnlyWorker(w) /\ WorkerCalm(w)'
      BY <2>1, <2>2, <2>3, <1>p DEF OnlyWorker, WorkerCalm
    <3>2. w \in SnapshotWorker => HandedRun(w)' /\ (HandedOver => OwnerOver(w)')
      BY <2>1, <2>2, <2>3, <1>p DEF HandedRun, OwnerOver, RunOver, PendingDone
    <3> QED BY <2>1, <2>3, <3>1, <3>2, <1>p, LocalHandoff
  <2>4. CASE ~(shut[w] # "no" /\ restart[w])
    <3>1. /\ row' = ReleaseJobLease(w, job[w].sub) /\ OnlyWorker(w)
          /\ lease'[w] = IF lease[w] = job[w].sub THEN 0 ELSE lease[w]
      BY <2>1, <2>2, <2>4, <1>f DEF OnlyWorker
    <3> QED BY <2>1, <2>2, <3>1, <1>m, ReleasedHandoff
  <2> QED BY <2>3, <2>4
<1>3. CASE Renew(w)
  BY <1>3, <1>p, CheckpointHandoff DEF Renew, RowStays, Row
<1>4. CASE RenewLost(w)
  <2>1. /\ row' = ReleaseJobLease(w, job[w].sub) /\ OnlyWorker(w)
        /\ UNCHANGED <<ckpt, master, opread, nsub, rec, shut, restart, cbs>>
        /\ lease'[w] = IF lease[w] = job[w].sub THEN 0 ELSE lease[w]
        /\ \/ job'[w] = job[w]
           \/ job'[w] = [job[w] EXCEPT !.heard = FALSE, !.cancelled = TRUE, !.status = StopStatus(@)]
    BY <1>4, <1>f DEF RenewLost, SetJob, OnlyWorker
  <2>2. /\ job'[w].sub = job[w].sub /\ job'[w].active = job[w].active
        /\ job'[w].starting = job[w].starting /\ job'[w].begun = job[w].begun
        /\ job'[w].handed = job[w].handed
        /\ job'[w].status = "DONE" <=> job[w].status = "DONE"
    BY <2>1, <1>p DEF Job, StopStatus
  <2> QED BY <2>1, <2>2, <1>m, ReleasedHandoff
<1>5. CASE ApplyPause(w)
  <2>1. /\ UNCHANGED <<row, ckpt, master, opread, nsub, rec, lease, shut, restart>>
        /\ OnlyWorker(w) /\ job[w].status = "RUNNING"
        /\ job'[w] = PausedJob(job[w])
        /\ cbs'[w] = cbs[w] \cup Notify(w, job[w], "PAUSING", "other")
    BY <1>5, <1>f DEF ApplyPause, SetJob, SetCbs, OnlyWorker
  <2>2. /\ job'[w].sub = job[w].sub /\ job'[w].active = job[w].active
        /\ job'[w].starting = job[w].starting /\ job'[w].handed = job[w].handed
        /\ job'[w].status = "PAUSING"
    BY <2>1, <1>p DEF Job, PausedJob
  <2>3. \A d \in cbs'[w] : /\ DoneCallback(w, d) /\ (d.at = "pipe" => d \in cbs[w])
                           /\ d.kind = "status" /\ d.expect = "DONE" => d \in cbs[w]
    BY <2>1, <1>p, NotifyCalm DEF WorkerCalm
  <2>4. WorkerCalm(w)'
    BY <2>1, <2>2, <2>3, <1>p DEF WorkerCalm
  <2>5. w \in SnapshotWorker => HandedRun(w)' /\ (HandedOver => OwnerOver(w)')
    BY <2>1, <2>2, <2>3, <1>p DEF HandedRun, OwnerOver, RunOver, PendingDone
  <2> QED BY <1>p, <2>1, <2>4, <2>5, LocalHandoff
<1>6. CASE ShutdownBegin(w)
  <2>1. /\ UNCHANGED <<ckpt, master, opread, nsub, rec, lease, job, cbs>> /\ OnlyWorker(w)
        /\ shut'[w] = "begun" /\ rec[w] = NoRecord
        /\ restart'[w] => job[w].status \in ActiveStatus
        /\ row' = row \/ row' = [row EXCEPT !.live = TRUE]
    BY <1>6, <1>f DEF ShutdownBegin, OnlyWorker
  <2>2. RowStays /\ RowInv' /\ RowOver'
    BY <2>1, <1>p DEF RowStays, RowInv, RowOver, HandedOver, NoRow, Row
  <2>3. WorkerCalm(w)'
    BY <2>1, <1>p DEF WorkerCalm
  <2>4. NoRecord.sub = 0
    BY DEF NoRecord
  <2>5. w \in SnapshotWorker => HandedRun(w)' /\ (HandedOver' => OwnerOver(w)')
    BY <2>1, <2>2, <2>4, <1>p
       DEF HandedRun, HandedOver, OwnerOver, RunOver, PendingDone, RowStays, ActiveStatus
  <2> QED BY <1>p, <2>1, <2>2, <2>3, <2>5, WorkerStep DEF RowStays
<1>7. CASE ShutdownDrain(w)
  <2> DEFINE s == job[w].status
             c == PlainSave(s, "RUNNING")
  <2>1. /\ UNCHANGED <<ckpt, master, opread, nsub, rec, lease, restart>> /\ OnlyWorker(w)
        /\ shut[w] = "begun" /\ restart[w] /\ shut'[w] = "draining"
        /\ row' = IF Current(w, c) THEN saveJobRecord(w, c) ELSE row
        /\ \/ /\ s = "RUNNING" /\ job'[w] = PausedJob(job[w])
              /\ cbs'[w] = cbs[w] \cup Notify(w, job[w], "PAUSING", "other")
           \/ /\ s \in {"CREATED", "PENDING"}
              /\ job'[w] = [job[w] EXCEPT !.cancelled = TRUE, !.status = "STOPPED"]
              /\ cbs'[w] = cbs[w] \cup Notify(w, job[w], "STOPPED", "other")
           \/ job' = job /\ cbs' = cbs
    BY <1>7, <1>f DEF ShutdownDrain, saveManagedJobRecordIfCurrent, SetJob, SetCbs, OnlyWorker
  <2>2. c.put = s /\ c.expect = s /\ c.desired = "RUNNING"
    BY DEF PlainSave
  <2>3. c.put \notin Waiting /\ HandoffSave(w, c)
    BY <2>1, <2>2, <1>p DEF HandoffSave
  <2> HIDE DEF c
  <2>4. row' = row \/ SavedBy(w, c, row')
    BY <2>1, <2>3, SavedRow
  <2>5. /\ job'[w].sub = job[w].sub /\ job'[w].active = job[w].active
        /\ job'[w].starting = job[w].starting /\ job'[w].begun = job[w].begun
        /\ job'[w].handed = job[w].handed
        /\ job'[w].status = "DONE" <=> job[w].status = "DONE"
    BY <2>1, <1>p DEF Job, PausedJob
  <2>6. \A d \in cbs'[w] : /\ DoneCallback(w, d) /\ (d.at = "pipe" => d \in cbs[w])
                           /\ d.kind = "status" /\ d.expect = "DONE" => d \in cbs[w]
    BY <2>1, <1>p, NotifyCalm DEF WorkerCalm
  <2>7. WorkerCalm(w)'
    BY <2>1, <2>5, <2>6, <1>p DEF WorkerCalm
  <2>8. row'.sub = row.sub
    BY <2>4 DEF SavedBy
  <2>9. w \in SnapshotWorker => HandedRun(w)'
    BY <2>1, <2>5, <2>8, <1>p DEF HandedRun
  <2>10. w \in SnapshotWorker /\ HandedOver /\ row' = row => OwnerOver(w)'
    BY <2>1, <2>5, <2>6, <1>p DEF OwnerOver, RunOver, PendingDone
  <2>11. w \in SnapshotWorker /\ SavedOver(w, row') /\ SavedBy(w, c, row') /\ HandedOver'
           => OwnerOver(w)'
    BY <2>1, <2>2, <2>5, <2>6 DEF SavedOver, SavedBy, HandedOver, OwnerOver, RunOver, PendingDone
  <2> HIDE DEF s
  <2> QED BY <2>1, <2>3, <2>4, <2>7, <2>9, <2>10, <2>11, SavingStep
<1>8. CASE ShutdownExit(w)
  <2> DEFINE s == job[w].status
             c == PlainSave(s, "RUNNING")
             saved == IF Current(w, c) THEN saveJobRecord(w, c) ELSE row
  <2>1. /\ Exit(w) /\ UNCHANGED <<ckpt, master, opread, nsub>>
        /\ \/ row' = row
           \/ shut[w] = "draining" /\ ((row' = Unleased(saved) /\ saved.present) \/ row' = saved)
    BY <1>8 DEF ShutdownExit
  <2>2. CASE row' = row
    <3>1. RowInv' /\ RowOver'
      BY <2>1, <2>2, <1>p DEF RowInv, RowOver, HandedOver
    <3> QED BY <2>1, <2>2, <3>1, ExitHandoff
  <2>3. CASE shut[w] = "draining" /\ ((row' = Unleased(saved) /\ saved.present) \/ row' = saved)
    <3>1. c.put = s /\ c.expect = s /\ c.desired = "RUNNING" /\ restart[w]
      BY <2>3, <1>p DEF PlainSave, WorkerCalm
    <3>2. c.put \notin Waiting /\ HandoffSave(w, c)
      BY <3>1, <1>p DEF HandoffSave
    <3>c. c = PlainSave(s, "RUNNING")
      OBVIOUS
    <3> HIDE DEF c
    <3>3. saved = row \/ SavedBy(w, c, saved)
      BY <3>2, SavedRow
    <3>4. saved = row \/ SavedOver(w, saved)
      BY <3>2, <3>3, SaveHandoff
    <3>5. saved \in Row
      <4>1. PlainSave(s, "RUNNING") = c
        BY <3>c
      <4>2. saveJobRecord(w, c) \in Row
        BY <4>1, <1>p, PlainSaveTypes DEF Job, Desired
      <4> QED BY <4>2, <1>p
    <3> HIDE DEF saved
    <3>6. /\ row'.present = saved.present /\ row'.role = saved.role
          /\ row'.desired = saved.desired /\ row'.sub = saved.sub
          /\ row' = saved \/ (row'.owner = NoWorker /\ row.present)
      BY <2>3, <3>3, <3>5 DEF Unleased, Row, SavedBy, Owns
    <3>7. CASE saved = row
      <4>1. RowInv' /\ RowOver'
        BY <2>1, <3>6, <3>7, <2>3, <1>p DEF RowInv, RowOver, HandedOver, NoRow
      <4> QED BY <2>1, <2>3, <3>6, <3>7, <4>1, ExitHandoff
    <3>8. CASE SavedOver(w, saved)
      <4>1. RowInv'
        BY <2>1, <3>6, <3>8, <1>p DEF RowInv, SavedOver
      <4>2. RowOver'
        BY <2>1, <3>6, <3>8, <1>p DEF RowOver, HandedOver, SavedOver
      <4> QED BY <2>1, <3>6, <3>8, <4>1, <4>2, ExitHandoff DEF SavedOver
    <3> QED BY <3>4, <3>7, <3>8
  <2> HIDE DEF saved
  <2> QED BY <2>1, <2>2, <2>3
<1>9. CASE Crash(w)
  <2>1. Exit(w) /\ UNCHANGED <<row, ckpt, master, opread, nsub>>
    BY <1>9 DEF Crash
  <2>2. RowInv' /\ RowOver'
    BY <2>1, <1>p DEF RowInv, RowOver, HandedOver
  <2> QED BY <2>1, <2>2, ExitHandoff
<1>10. CASE Restart(w)
  BY <1>10, CheckpointHandoff DEF Restart, RowStays
<1> QED BY <1>1, <1>2, <1>3, <1>4, <1>5, <1>6, <1>7, <1>8, <1>9, <1>10 DEF Lifecycle

(* A step of the control plane: what it has to keep.                        *)
LEMMA RequestHandoff ==
  ASSUME TypeOK, HandoffInv, UNCHANGED <<job, cbs, lease, rec, shut, restart>>,
         nsub' \in Sub, nsub <= nsub',
         \/ row'.sub = row.sub /\ ckpt' = ckpt
         \/ row'.sub = nsub + 1,
         RowInv', RowOver',
         row'.owner = NoWorker \/ ~HandedOver' \/ \A w \in SnapshotWorker : OwnerOver(w)'
  PROVE  HandoffInv'
<1>n. /\ NoWorker \notin Worker /\ SnapshotWorker \subseteq Worker
      /\ nsub \in Nat /\ nsub' \in Nat
      /\ \A w \in Worker : job[w].sub \in Nat /\ rec[w].sub \in Nat
  BY WorkerAssumption DEF WorkerAssumption, TypeOK, Sub, Job, Claimed
<1>1. ASSUME NEW w \in Worker PROVE WorkerCalm(w)'
  <2>1. job[w].sub <= nsub' /\ rec[w].sub <= nsub'
    BY <1>n DEF HandoffInv, WorkerCalm
  <2> QED BY <2>1 DEF HandoffInv, WorkerCalm, DoneCallback
<1>2. ASSUME NEW w \in SnapshotWorker PROVE HandedRun(w)'
  <2>1. HandedRun(w) /\ WorkerCalm(w)
    BY <1>n DEF HandoffInv
  <2>2. job[w].sub # nsub + 1
    BY <1>n, <2>1 DEF WorkerCalm
  <2> QED BY <2>1, <2>2 DEF HandedRun, Closing
<1>3. ASSUME HandedOver', NEW w \in SnapshotWorker PROVE OwnerOver(w)'
  BY <1>3, <1>n DEF OwnerOver
<1>4. HandedOver' => ckpt'.done /\ (row'.role = "SNAPSHOT" => row'.desired = "STOPPED")
  BY DEF RowOver
<1> QED BY <1>1, <1>2, <1>3, <1>4 DEF HandoffInv

(* The requests keep the invariant: what makes the job eligible again takes *)
(* its lease away, and a role that a resubmit has read is only read of a    *)
(* run that has not been saved as DONE.                                     *)
LEMMA ControlHandoff ==
  ASSUME TypeOK, HandoffInv, HandoffAssumption, JobRole = "SNAPSHOT", Control
  PROVE  HandoffInv'
<1> USE DEF regVars, workerVars
<1>p. /\ row \in Row /\ RowInv /\ RowOver /\ nsub \in Sub /\ nsub \in Nat /\ NoWorker \notin Worker
      /\ opread \in Role \cup {"none"}
      /\ HandedOver => \A w \in SnapshotWorker : OwnerOver(w)
  BY WorkerAssumption DEF TypeOK, HandoffInv, RowOver, Sub, WorkerAssumption
<1>1. CASE Submit
  <2>1. /\ UNCHANGED <<ckpt, opread, job, cbs, lease, rec, shut, restart>>
        /\ master = "none" /\ master' = "managed" /\ nsub' = nsub + 1 /\ nsub < MaxSub
        /\ row'.present /\ row'.sub = nsub + 1 /\ row'.role = "SNAPSHOT" /\ row'.owner = row.owner
    BY <1>1, <1>p DEF Submit, SaveJob, Row
  <2>2. ~HandedOver' /\ RowOver' /\ RowInv'
    BY <2>1, <1>p DEF HandedOver, RowOver, RowInv
  <2>3. nsub' \in Sub /\ nsub <= nsub'
    BY <2>1, <1>p, BoundAssumption DEF Sub, BoundAssumption
  <2> QED BY <2>1, <2>2, <2>3, RequestHandoff
<1>2. CASE RequestJobStop
  <2>1. /\ UNCHANGED <<ckpt, opread, master, nsub, job, cbs, lease, rec, shut, restart>>
        /\ row'.present = row.present /\ row'.sub = row.sub /\ row'.role = row.role
        /\ row'.owner = NoWorker /\ row'.desired = "STOPPED"
    BY <1>2, <1>p DEF RequestJobStop, Unleased, Row
  <2>2. RowOver' /\ RowInv'
    BY <2>1, <1>p DEF HandedOver, RowOver, RowInv
  <2> QED BY <2>1, <2>2, <1>p, RequestHandoff
<1>3. CASE RequestJobPause
  <2>1. /\ UNCHANGED <<ckpt, opread, master, nsub, job, cbs, lease, rec, shut, restart>>
        /\ row'.present = row.present /\ row'.sub = row.sub /\ row'.role = row.role
        /\ row'.owner = row.owner /\ row'.desired = row.desired /\ row.status = "RUNNING"
    BY <1>3, <1>p DEF RequestJobPause, Row
  <2>2. RowOver' /\ RowInv' /\ (HandedOver' => HandedOver)
    BY <2>1, <1>p DEF HandedOver, RowOver, RowInv
  <2>3. HandedOver' => \A w \in SnapshotWorker : OwnerOver(w)'
    BY <2>1, <2>2, <1>p DEF OwnerOver, RunOver, PendingDone
  <2> QED BY <2>1, <2>2, <2>3, <1>p, RequestHandoff
<1>4. CASE ResubmitRead
  <2>1. /\ UNCHANGED <<row, ckpt, master, nsub, job, cbs, lease, rec, shut, restart>>
        /\ row.present /\ row.status # "DONE" /\ opread' = row.role /\ master = "managed"
    BY <1>4 DEF ResubmitRead, Resumable
  <2>2. HandedOver' => HandedOver /\ row.role = "STREAMING"
    BY <2>1 DEF HandedOver
  <2>3. RowOver' /\ RowInv'
    BY <2>1, <2>2, <1>p DEF RowOver, RowInv
  <2>4. HandedOver' => \A w \in SnapshotWorker : OwnerOver(w)'
    BY <2>1, <2>2, <1>p DEF OwnerOver, RunOver, PendingDone
  <2> QED BY <2>1, <2>3, <2>4, <1>p, RequestHandoff
<1>5. CASE RequestJobResume
  <2>1. /\ UNCHANGED <<ckpt, master, nsub, job, cbs, lease, rec, shut, restart>>
        /\ opread' = "none" /\ opread # "none"
        /\ \/ row' = row
           \/ /\ row'.present = row.present /\ row'.sub = row.sub /\ row'.role = opread
              /\ row'.owner = NoWorker
    BY <1>5, <1>p DEF RequestJobResume, Resubmitted, Unleased, Row
  <2>2. HandedOver' => HandedOver /\ row'.role = "STREAMING"
    BY <2>1 DEF HandedOver
  <2>3. RowOver' /\ RowInv'
    BY <2>1, <2>2, <1>p DEF RowOver, RowInv
  <2>4. row' = row => (HandedOver' => \A w \in SnapshotWorker : OwnerOver(w)')
    BY <2>1, <2>2, <1>p DEF OwnerOver, RunOver, PendingDone
  <2>5. row'.sub = row.sub /\ (row' = row \/ row'.owner = NoWorker)
    BY <2>1
  <2> QED BY <2>1, <2>3, <2>4, <2>5, <1>p, RequestHandoff
<1>6. CASE RequestJobFreshSnapshot
  <2>1. /\ UNCHANGED <<ckpt, master, nsub, job, cbs, lease, rec, shut, restart>>
        /\ opread' = "none" /\ opread # "none"
        /\ \/ row' = row
           \/ /\ row'.present = row.present /\ row'.sub = row.sub /\ row'.role = "SNAPSHOT"
              /\ row'.owner = NoWorker
    BY <1>6, <1>p DEF RequestJobFreshSnapshot, Resubmitted, Unleased, Row
  <2>2. HandedOver' => HandedOver /\ row'.role = "STREAMING"
    BY <2>1 DEF HandedOver
  <2>3. RowOver' /\ RowInv'
    BY <2>1, <2>2, <1>p DEF RowOver, RowInv
  <2>4. row' = row => (HandedOver' => \A w \in SnapshotWorker : OwnerOver(w)')
    BY <2>1, <2>2, <1>p DEF OwnerOver, RunOver, PendingDone
  <2>5. row'.sub = row.sub /\ (row' = row \/ row'.owner = NoWorker)
    BY <2>1
  <2> QED BY <2>1, <2>3, <2>4, <2>5, <1>p, RequestHandoff
<1>7. CASE RequestJobRebuild
  <2>1. /\ UNCHANGED <<master, job, cbs, lease, rec, shut, restart>>
        /\ nsub' = nsub + 1 /\ nsub < MaxSub /\ opread' = "none"
        /\ row'.present /\ row'.sub = nsub + 1 /\ row'.role = "SNAPSHOT"
        /\ row'.owner = NoWorker /\ row.present
    BY <1>7, <1>p DEF RequestJobRebuild, Row
  <2>2. ~HandedOver' /\ RowOver' /\ RowInv'
    BY <2>1, <1>p DEF HandedOver, RowOver, RowInv
  <2>3. nsub' \in Sub /\ nsub <= nsub'
    BY <2>1, <1>p, BoundAssumption DEF Sub, BoundAssumption
  <2> QED BY <2>1, <2>2, <2>3, RequestHandoff
<1>8. ~(DeleteBegin \/ DeleteSave \/ DeleteJobState \/ DeleteBlocked \/ DeleteJob)
  BY <1>p DEF HandoffAssumption, RowInv, Request, DeleteBegin, DeleteSave, DeleteJobState,
     DeleteBlocked, DeleteJob
<1> QED BY <1>1, <1>2, <1>3, <1>4, <1>5, <1>6, <1>7, <1>8 DEF Control

(* Every step keeps the invariant of the handoff.                           *)
LEMMA NextHandoff ==
  ASSUME IInv, HandoffInv, HandoffAssumption, JobRole = "SNAPSHOT", [Next]_vars
  PROVE  HandoffInv'
<1>p. TypeOK /\ row \in Row
  BY DEF IInv, TypeOK
<1>1. ASSUME NEW w \in Worker, Start(w) \/ Pipe(w) \/ Fence(w) \/ Lifecycle(w)
      PROVE  HandoffInv'
  BY <1>1, StartHandoff, PipeHandoff, FenceHandoff, LifecycleHandoff
<1>2. CASE Control
  BY <1>2, <1>p, ControlHandoff
<1>3. CASE Expire
  BY <1>3, <1>p, CheckpointHandoff DEF Expire, masterVars, workerVars, RowStays, Row
<1>4. CASE UNCHANGED vars
  BY <1>4, CheckpointHandoff DEF vars, RowStays
<1> QED BY <1>1, <1>2, <1>3, <1>4 DEF Next

(* The invariant of the handoff holds of a job with a snapshot, one         *)
(* snapshot worker and any number of streaming workers.                     *)
THEOREM HandoffInductive ==
  ASSUME HandoffAssumption, JobRole = "SNAPSHOT"
  PROVE  Spec => []HandoffInv
<1>1. Init => HandoffInv
  <2> SUFFICES ASSUME Init PROVE HandoffInv
    OBVIOUS
  <2>1. RowInv /\ ~HandedOver
    BY DEF Init, Unsubmitted, RowInv, HandedOver, NoRow
  <2>2. ASSUME NEW w \in Worker PROVE WorkerCalm(w) /\ HandedRun(w)
    <3>1. /\ job[w] = NoJob /\ rec[w] = NoRecord /\ cbs[w] = {} /\ shut[w] = "no"
          /\ restart[w] = FALSE /\ nsub = 0
      BY DEF Init, Unsubmitted
    <3> QED BY <3>1 DEF WorkerCalm, HandedRun, NoJob, NoRecord
  <2> QED BY <2>1, <2>2, WorkerAssumption DEF HandoffInv, WorkerAssumption
<1>2. IInv /\ HandoffInv /\ [Next]_vars => HandoffInv'
  BY NextHandoff
<1> QED BY <1>1, <1>2, Inductive, PTL DEF Spec

(* ClaimJobs never offers a job to the streaming workers before the sink    *)
(* has marked its snapshot done: with one snapshot worker and a job that is *)
(* not deleted, whatever is stopped, resubmitted, purged, rebuilt, expires, *)
(* crashes or is saved late.                                                *)
THEOREM HandoffSafe ==
  ASSUME HandoffAssumption
  PROVE  Spec => []StreamingAfterSnapshot
<1>1. CASE JobRole = "SNAPSHOT"
  <2>1. HandoffInv => StreamingAfterSnapshot
    BY DEF HandoffInv, HandedOver, StreamingAfterSnapshot
  <2>2. Spec => []HandoffInv
    BY <1>1, HandoffInductive
  <2> QED BY <2>1, <2>2, PTL
<1>2. CASE JobRole # "SNAPSHOT"
  <2>1. StreamingAfterSnapshot
    BY <1>2 DEF StreamingAfterSnapshot
  <2> QED BY <2>1, PTL
<1> QED BY <1>1, <1>2
=============================================================================
