-------------------------- MODULE MaintenanceQueue --------------------------
(***************************************************************************)
(* Who may touch one Iceberg table: the durable maintenance queue of       *)
(* pkg/meta, the executors and the coordinator loop of the maintenance     *)
(* worker, the streaming job that writes the table and reserves it, and a  *)
(* maintenance monitor that would maintain it.                             *)
(*                                                                         *)
(* One row of iceberg_maintenance_state is modelled: every statement names *)
(* one table_key or one owner, and the leases are per table.  Queue order  *)
(* (priority, not_before, page limits) only chooses between tables.        *)
(*                                                                         *)
(* Time is abstracted: a schedule that is set may be due whenever it is    *)
(* read, and a lease is live until it expires.  Two constants say when a   *)
(* lease can expire under the one that holds it: an executor renews every  *)
(* third of its lease (Timely), and the coordinator never renews but takes *)
(* every inventory lease from the clock value read at the start of its     *)
(* loop (LongLoops).                                                       *)
(***************************************************************************)
EXTENDS Naturals, Sequences, FiniteSets

CONSTANTS
  Executor,     \* executor goroutines (their worker ids)
  OpOf,         \* the operation of each executor's pool
  NoOne,        \* SQL NULL in lease_owner
  Timely,       \* an executor renews its lease before it expires
  LongLoops,    \* a coordinator loop may outlast an inventory lease
  PromptRelease,\* a stopped job has released its table before it is resubmitted
  SignalLimit,  \* capacity of the sink's signal channel
  MaxSnapshots, \* bound: snapshots of the table
  MaxRequests,  \* bound: requests of users, for the job and the monitor
  MaxExits      \* bound: crashes and shutdowns of the worker

Op == {OpOf[e] : e \in Executor}

ASSUME QueueAssumption ==
  /\ OpOf \in [Executor -> Op]
  /\ "compact" \in Op /\ Op \subseteq {"compact", "expire_snapshots"}
  /\ NoOne \notin Executor
  /\ Timely \in BOOLEAN /\ LongLoops \in BOOLEAN /\ PromptRelease \in BOOLEAN
  /\ SignalLimit \in Nat
  /\ MaxSnapshots \in Nat \ {0}
  /\ MaxRequests \in Nat /\ MaxExits \in Nat

VARIABLES
  row,       \* the iceberg_maintenance_state row
  tasks,     \* iceberg_maintenance_tasks: the table's active task per operation
  reserved,  \* the streaming job's reservation is active
  monitor,   \* the monitor's row
  job,       \* the streaming job, as job_registry shows it
  release,   \* the release of the table that a stopped job still has to make
  done,      \* its initial snapshot is durably complete
  head,      \* the table's current snapshot, numbered in commit order
  signals,   \* the signal channel of the job's sink
  exec,      \* the executors
  co,        \* the coordinator loop
  up,        \* the worker's context is not cancelled
  overran,   \* ghost: the executors whose lease expired under their work
  requests,  \* bound counter
  exits      \* bound counter

vars == <<row, tasks, reserved, monitor, job, release, done, head, signals,
          exec, co, up, overran, requests, exits>>
jobVars == <<job, release, done, signals>>
boundVars == <<requests, exits>>

-----------------------------------------------------------------------------
(* Types *)

Snapshot == 0 .. MaxSnapshots
Pending == {"queued", "retry"}
Active == Pending \cup {"leased"}

(* owner_type; "streaming" is a job's row that the worker has not seeded.   *)
OwnerType == {"streaming", "job", "monitor", "unmanaged", "deleted-monitor"}

(* owner_job_id                                                             *)
OwnerId(type) == IF type = "streaming" THEN "job" ELSE type

(* inv is inventory_snapshot_id (0: never scanned), last is                 *)
(* last_snapshot_id.  next holds the operations whose next check is set,    *)
(* spent those whose current window already has a task (idempotency_key).   *)
Row == [owner: OwnerType, complete: BOOLEAN, last: Snapshot, inv: Snapshot,
        nextInv: BOOLEAN, next: SUBSET Op, spent: SUBSET Op,
        lease: Executor \cup {NoOne}, live: BOOLEAN,
        invLease: {"none", "live", "expired"}]

(* EnqueueTask inserts no task while one of the operation is active, and a  *)
(* task that has ended (succeeded, skipped, failed or cancelled) is never   *)
(* read again: only the active one is kept.  Attempts are not counted.      *)
Task == [owner: OwnerType, status: {"none"} \cup Active,
         by: Executor \cup {NoOne}, live: BOOLEAN]

Working == {"read", "save", "commit", "reread", "resave"}
Exec == [pc: {"idle", "picked", "claimed", "ended", "leaving"} \cup Working,
         owner: OwnerType, snap: Snapshot,
         outcome: {"none", "succeeded", "retryable", "over"}]

(* run and active are the owners in the worker's job map.                   *)
Coordinator ==
  [pc: {"sleep", "reserve", "prune", "seed", "monitors", "discover",
        "recover", "scan", "load", "save", "finish", "due", "insert", "advance"},
   started: BOOLEAN, run: BOOLEAN, active: BOOLEAN, claimed: Snapshot,
   read: Snapshot, todo: SUBSET Op, owner: OwnerType]

Signal == [kind: {"commit"}, snap: Snapshot, complete: BOOLEAN]
            \cup [kind: {"barrier"}, complete: BOOLEAN]

Idle == [pc |-> "idle", owner |-> "unmanaged", snap |-> 0, outcome |-> "none"]
Asleep == [pc |-> "sleep", started |-> FALSE, run |-> FALSE, active |-> FALSE,
           claimed |-> 0, read |-> 0, todo |-> {}, owner |-> "unmanaged"]
NoTask == [owner |-> "unmanaged", status |-> "none", by |-> NoOne,
           live |-> FALSE]

TypeOK ==
  /\ row \in Row
  /\ tasks \in [Op -> Task]
  /\ reserved \in BOOLEAN /\ done \in BOOLEAN
  /\ monitor \in {"ACTIVE", "PAUSED", "DELETED"}
  /\ job \in {"off", "starting", "on", "stopping"} 
  /\ release \in {"unbound", "none", "pending"}
  /\ head \in Snapshot
  /\ signals \in Seq(Signal) /\ Len(signals) <= SignalLimit
  /\ exec \in [Executor -> Exec]
  /\ co \in Coordinator
  /\ up \in BOOLEAN /\ overran \in SUBSET Executor
  /\ requests \in 0 .. MaxRequests /\ exits \in 0 .. MaxExits

Init ==
  /\ row = [owner |-> "unmanaged", complete |-> FALSE, last |-> 0, inv |-> 0,
            nextInv |-> FALSE, next |-> {}, spent |-> {}, lease |-> NoOne,
            live |-> FALSE, invLease |-> "none"]
  /\ tasks = [o \in Op |-> NoTask]
  /\ reserved = FALSE
  /\ monitor = "ACTIVE"
  /\ job = "off"
  /\ release = "unbound"
  /\ done = FALSE
  /\ head = 1
  /\ signals = <<>>
  /\ exec = [e \in Executor |-> Idle]
  /\ co = Asleep
  /\ up = TRUE
  /\ overran = {}
  /\ requests = 0
  /\ exits = 0
-----------------------------------------------------------------------------
(* Statements of the maintenance store *)

OwnedBy(id) == OwnerId(row.owner) = id
HasActive(ts, op) == ts[op].status \in Active

\* The row of a monitor is only served while the monitor is ACTIVE.
OwnerActive == row.owner = "monitor" => monitor = "ACTIVE"

NoSchedule(r) == [r EXCEPT !.nextInv = FALSE, !.next = {}, !.spent = {}]

CancelPending(ts, ops) ==
  [o \in Op |-> IF o \in ops /\ ts[o].status \in Pending THEN NoTask ELSE ts[o]]

TasksOf(id) == {o \in Op : tasks[o].owner = id}

\* Mutant: the lease is released whoever holds it.
ReleaseAny(e) == [row EXCEPT !.lease = NoOne, !.live = FALSE]

ReleaseMaintenanceTableLease(e) ==
  IF row.lease = e THEN [row EXCEPT !.lease = NoOne, !.live = FALSE] ELSE row

\* A check that is not set yet is set; one that is set may be pulled forward,
\* which opens a new schedule window.
PullCompaction(r) ==
  {[r EXCEPT !.next = @ \cup {"compact"}, !.spent = @ \ {"compact"}]}
    \cup {r2 \in {r} : "compact" \in r.next}

ScheduleCompactionCheck(r, ts) ==
  IF r.complete /\ ~HasActive(ts, "compact") THEN PullCompaction(r) ELSE {r}

\* The UPDATE is guarded by status='leased' AND lease_owner=?.
Holds(e) == tasks[OpOf[e]].status = "leased" /\ tasks[OpOf[e]].by = e

EndTask(e) == [tasks EXCEPT ![OpOf[e]] = NoTask]
RetryTask(e) ==
  [tasks EXCEPT ![OpOf[e]] = [@ EXCEPT !.status = "retry", !.by = NoOne,
                                       !.live = FALSE]]

\* Mutant: commits during a scan do not keep the request.
ForgetCommits(r, claimed) == [r EXCEPT !.invLease = "none", !.nextInv = FALSE]

\* A commit signalled during the scan keeps the table scheduled.
FinishInventoryClaim(r, claimed) ==
  [r EXCEPT !.invLease = "none", !.nextInv = r.last # claimed]

RetryInventoryClaim(r) == [r EXCEPT !.invLease = "none", !.nextInv = TRUE]

CoalesceSignal(r, s) ==
  LET changed == s.snap # 0 /\ s.snap # r.last
      complete == r.complete \/ s.complete
      seen == [r EXCEPT !.complete = complete,
                        !.last = IF changed THEN s.snap ELSE @,
                        !.nextInv = @ \/ (changed /\ complete)]
  IN {seen} \cup {r2 \in PullCompaction(seen) : complete}

SetSnapshotCompleteForOwner(r, complete) ==
  IF OwnerId(r.owner) # "job" THEN {r}
  ELSE LET set == [r EXCEPT !.complete = complete]
       IN {set} \cup {r2 \in PullCompaction(set) : complete}

\* The owner is overwritten without a condition.
UpsertState(r, complete) ==
  [r EXCEPT !.owner = "job", !.complete = @ \/ complete,
            !.nextInv = @ \/ r.inv = 0, !.next = Op]

\* Mutant: a table is reserved while a monitor's task runs on it.
NeverBusy == FALSE

OwnershipBusy == row.live /\ ~OwnedBy("job")

SyncMaintenanceReservations ==
  LET takes == row.owner \in {"monitor", "unmanaged"}
  IN /\ ~OwnershipBusy
     /\ reserved' = TRUE
     /\ row' = IF takes
               THEN [NoSchedule(row) EXCEPT !.owner = "streaming",
                                            !.complete = FALSE]
               ELSE row
     /\ tasks' = IF takes THEN CancelPending(tasks, Op) ELSE tasks

\* cancelled: the tasks the release cancels, if it changes the row.
FreeRow(cancelled) ==
  /\ reserved' = FALSE
  /\ row' = IF OwnedBy("job")
            THEN [NoSchedule(row) EXCEPT !.owner = "unmanaged"] ELSE row
  /\ tasks' = CancelPending(tasks, cancelled)

ReleaseMaintenanceReservations == FreeRow(TasksOf("job"))

ReleaseMaintenanceReservationsExcept ==
  IF reserved /\ job = "off"
  THEN FreeRow(IF OwnedBy("job") THEN Op ELSE {})
  ELSE UNCHANGED <<reserved, row, tasks>>

MonitorMayTake ==
  ~reserved /\ row.owner \in {"unmanaged", "deleted-monitor"}

reconcileMonitorTargetOwnership ==
  LET gives == row.owner = "monitor" /\ ~row.live /\ reserved
  IN /\ row' = IF MonitorMayTake
               THEN [row EXCEPT !.owner = "monitor", !.complete = TRUE,
                                !.nextInv = TRUE, !.next = Op]
               ELSE IF gives THEN [NoSchedule(row) EXCEPT !.owner = "streaming"]
               ELSE row
     /\ tasks' = IF MonitorMayTake \/ gives
                 THEN CancelPending(tasks, TasksOf(OwnerId(row.owner)))
                 ELSE tasks

RecoverExpiredMaintenanceLeases ==
  LET back == [o \in Op |->
                IF tasks[o].status = "leased" /\ ~tasks[o].live
                THEN [tasks[o] EXCEPT !.status = "retry", !.by = NoOne]
                ELSE tasks[o]]
      dead == {o \in Op : \/ tasks[o].owner = "deleted-monitor"
                          \/ tasks[o].owner = "monitor" /\ monitor # "ACTIVE"}
  IN /\ tasks' = CancelPending(back, dead)
     /\ row' = IF row.live THEN row ELSE [row EXCEPT !.lease = NoOne]

-----------------------------------------------------------------------------
(* Executors: runMaintenanceOperationWorker *)

Set(e, rec) == exec' = [exec EXCEPT ![e] = rec]
Goto(e, pc) == Set(e, [exec[e] EXCEPT !.pc = pc])
OnTable(e) == exec[e].pc \in Working
Busy(e) == OnTable(e) \/ exec[e].pc = "claimed"
execWorld == <<reserved, monitor, jobVars, co, up, boundVars>>

\* The SELECT of claimTasksOwnershipSafe locks nothing.
PickTask(e) ==
  LET task == tasks[OpOf[e]]
  IN /\ up /\ co.started /\ exec[e].pc = "idle"
     /\ task.status \in Pending
     /\ task.owner # "deleted-monitor"
     /\ ~row.live /\ row.invLease # "live"
     /\ task.owner = "monitor" => monitor = "ACTIVE"
     /\ Set(e, [Idle EXCEPT !.pc = "picked", !.owner = task.owner])
     /\ UNCHANGED <<row, tasks, head, overran, execWorld>>

\* Mutant: the inventory lease is not checked again.
TableFreeOfExecutors == ~row.live

TableFree == ~row.live /\ row.invLease # "live"

StillPicked(e) ==
  /\ up /\ exec[e].pc = "picked"
  /\ tasks[OpOf[e]].status \in Pending
  /\ tasks[OpOf[e]].owner = exec[e].owner

OwnerMismatch(e) ==
  ~OwnedBy(exec[e].owner) \/ (reserved /\ exec[e].owner # "job")

ClaimCancels(e) ==
  /\ StillPicked(e) /\ OwnerMismatch(e)
  /\ tasks' = CancelPending(tasks, {OpOf[e]})
  /\ Set(e, Idle)
  /\ UNCHANGED <<row, head, overran, execWorld>>

ClaimTask(e) ==
  /\ StillPicked(e) /\ ~OwnerMismatch(e)
  /\ TableFree
  /\ row' = [row EXCEPT !.lease = e, !.live = TRUE]
  /\ tasks' = [tasks EXCEPT ![OpOf[e]] = [@ EXCEPT !.status = "leased",
                                                   !.by = e, !.live = TRUE]]
  /\ Goto(e, "claimed")
  /\ UNCHANGED <<head, overran, execWorld>>

\* The task is gone, the table was lost while claiming, or a statement fails.
ClaimAborts(e) ==
  /\ exec[e].pc = "picked"
  /\ Set(e, Idle)
  /\ UNCHANGED <<row, tasks, head, overran, execWorld>>

\* processClaimedMaintenanceTask, up to the call of the operation.
StartTask(e) ==
  /\ exec[e].pc = "claimed" /\ up /\ row.complete
  /\ Goto(e, IF OpOf[e] = "compact" THEN "read" ELSE "commit")
  /\ UNCHANGED <<row, tasks, head, overran, execWorld>>

\* The snapshot barrier is not complete, or the catalog's configuration does
\* not resolve: retry; or the owner's configuration is gone (a monitor neither
\* in the job map nor ACTIVE): failed.
RejectTask(e) ==
  /\ exec[e].pc = "claimed" /\ up
  /\ \/ tasks' = IF Holds(e) THEN RetryTask(e) ELSE tasks
     \/ /\ row.complete /\ exec[e].owner = "monitor" /\ monitor # "ACTIVE"
        /\ tasks' = IF Holds(e) THEN EndTask(e) ELSE tasks
  /\ Goto(e, "leaving")
  /\ UNCHANGED <<row, head, overran, execWorld>>

\* A statement before the operation fails: the task stays leased.
StartFails(e) ==
  /\ exec[e].pc = "claimed"
  /\ Goto(e, "leaving")
  /\ UNCHANGED <<row, tasks, head, overran, execWorld>>

\* executeNativeMaintenanceTask
LoadTable(e) ==
  /\ exec[e].pc \in {"read", "reread"}
  /\ Set(e, [exec[e] EXCEPT !.snap = head,
                            !.pc = IF @ = "read" THEN "save" ELSE "resave"])
  /\ UNCHANGED <<row, tasks, head, overran, execWorld>>

SaveActiveInventory(e) ==
  /\ exec[e].pc \in {"save", "resave"}
  /\ row' = [row EXCEPT !.inv = exec[e].snap]
  /\ Set(e, [exec[e] EXCEPT !.pc = IF @ = "save" THEN "commit" ELSE "ended",
                            !.snap = 0])
  /\ UNCHANGED <<tasks, head, overran, execWorld>>

\* The catalog accepts the commit only if the table is as it was loaded.
CommitMaintenance(e) ==
  /\ exec[e].pc = "commit" /\ head < MaxSnapshots
  /\ head' = head + 1
  /\ Set(e, [exec[e] EXCEPT
                !.outcome = "succeeded",
                !.pc = IF OpOf[e] = "compact" THEN "reread" ELSE "ended"])
  /\ UNCHANGED <<row, tasks, overran, execWorld>>

\* The work ends.  An error of the refresh after a compaction is only a
\* warning.
Ended(e, outcome) ==
  [exec[e] EXCEPT !.pc = "ended", !.snap = 0,
                  !.outcome = IF @ = "succeeded" THEN @ ELSE outcome]

\* Nothing to do, an error, a timeout, or the worker's context is cancelled.
StopWorking(e) ==
  /\ OnTable(e)
  /\ \E outcome \in {"retryable", "over"} : Set(e, Ended(e, outcome))
  /\ UNCHANGED <<row, tasks, head, overran, execWorld>>

\* RenewTaskAndTableLease; a failed renewal cancels the operation.
RenewLease(e) ==
  /\ OnTable(e) /\ up
  /\ IF Holds(e) /\ row.lease = e
     THEN /\ row' = [row EXCEPT !.live = TRUE]
          /\ tasks' = [tasks EXCEPT ![OpOf[e]].live = TRUE]
          /\ UNCHANGED exec
     ELSE /\ Set(e, Ended(e, "retryable"))
          /\ UNCHANGED <<row, tasks>>
  /\ UNCHANGED <<head, overran, execWorld>>

\* A retryable failure is retried up to retry_limit times, any failure of a
\* stopping worker always; "over" is skipped, or failed for good.
Outcomes(e) ==
  {ts \in {EndTask(e)} : exec[e].outcome = "retryable" => up}
    \cup {ts \in {RetryTask(e)} :
            exec[e].outcome = "retryable" \/ (exec[e].outcome = "over" /\ ~up)}

\* Recording the outcome, through a context that survives a shutdown.
FinishWork(e) ==
  /\ exec[e].pc = "ended" /\ Holds(e)
  /\ tasks' \in Outcomes(e)
  /\ row' \in {row} \cup
       {r \in ScheduleCompactionCheck(row, tasks') :
          exec[e].outcome = "succeeded" /\ OpOf[e] = "compact"}
  /\ Set(e, [Idle EXCEPT !.pc = "leaving"])
  /\ UNCHANGED <<head, overran, execWorld>>

\* The lease is lost, or the result cannot be stored.
FinishFails(e) ==
  /\ exec[e].pc = "ended"
  /\ Set(e, [Idle EXCEPT !.pc = "leaving"])
  /\ UNCHANGED <<row, tasks, head, overran, execWorld>>

\* The deferred calls: requeueInterruptedMaintenanceTask (nothing unless the
\* worker is stopping) and releaseMaintenanceTableLease; either may fail.
LeaveTable(e) ==
  /\ exec[e].pc = "leaving"
  /\ tasks' \in {tasks} \cup {ts \in {RetryTask(e)} : ~up /\ Holds(e)}
  /\ row' \in {row, ReleaseMaintenanceTableLease(e)}
  /\ Set(e, Idle)
  /\ overran' = overran \ {e}
  /\ UNCHANGED <<head, execWorld>>

\* Both leases were set to the same time and expire together.
LeaseExpires(e) ==
  /\ Busy(e) => ~Timely
  /\ (row.lease = e /\ row.live) \/ (Holds(e) /\ tasks[OpOf[e]].live)
  /\ row' = IF row.lease = e THEN [row EXCEPT !.live = FALSE] ELSE row
  /\ tasks' = IF Holds(e) THEN [tasks EXCEPT ![OpOf[e]].live = FALSE] ELSE tasks
  /\ overran' = IF Busy(e) THEN overran \cup {e} ELSE overran
  /\ UNCHANGED <<exec, head, execWorld>>

ExecutorStep(e) ==
  \/ PickTask(e) \/ ClaimCancels(e) \/ ClaimTask(e) \/ ClaimAborts(e)
  \/ StartTask(e) \/ RejectTask(e) \/ StartFails(e)
  \/ LoadTable(e) \/ SaveActiveInventory(e) \/ CommitMaintenance(e)
  \/ StopWorking(e) \/ RenewLease(e)
  \/ FinishWork(e) \/ FinishFails(e) \/ LeaveTable(e) \/ LeaseExpires(e)

-----------------------------------------------------------------------------
(* The coordinator loop: RunMaintenanceWorkerBounded *)

CoAt(pc) == up /\ co.pc = pc
CoGoto(pc) == co' = [co EXCEPT !.pc = pc]
coWorld == <<monitor, jobVars, head, exec, overran, boundVars>>

\* The deferred workerCancel: the executors end, then the process.
WorkerExits == up' = FALSE /\ co' = Asleep

\* The ten-minute scan of the jobs is due, as it is in the first loop:
\* syncMaintenanceStates, LoadJobs
ListJobs ==
  /\ CoAt("sleep")
  /\ co' = [co EXCEPT !.pc = "reserve", !.run = job \in {"starting", "on"}]
  /\ UNCHANGED <<row, tasks, reserved, up, coWorld>>

\* It is not; the scan of the monitors may be.
SkipJobs ==
  /\ CoAt("sleep") /\ co.started
  /\ \E pc \in {"monitors", "recover"} : CoGoto(pc)
  /\ UNCHANGED <<row, tasks, reserved, up, coWorld>>

\* reconcilePersistedMaintenanceReservations, for the jobs that were listed
Reserve ==
  /\ CoAt("reserve")
  /\ \/ /\ co.run /\ SyncMaintenanceReservations
        /\ CoGoto("prune") /\ UNCHANGED up
     \/ /\ co.run /\ OwnershipBusy
        /\ WorkerExits /\ UNCHANGED <<row, tasks, reserved>>
     \/ /\ ~co.run
        /\ CoGoto("prune") /\ UNCHANGED <<row, tasks, reserved, up>>
  /\ UNCHANGED coWorld

Prune ==
  /\ CoAt("prune")
  /\ ReleaseMaintenanceReservationsExcept
  /\ CoGoto("seed")
  /\ UNCHANGED <<up, coWorld>>

\* syncMaintenanceStates, for the jobs that were listed
SeedState ==
  /\ CoAt("seed")
  /\ row' = IF co.run THEN UpsertState(row, done) ELSE row
  /\ CoGoto("monitors")
  /\ UNCHANGED <<tasks, reserved, up, coWorld>>

\* syncMaintenanceMonitorStates: ListMonitors.  Without an ACTIVE monitor, and
\* when its discovery is not due or fails, ownership is not reconciled.
ListMonitors ==
  /\ CoAt("monitors")
  /\ \E pc \in {"discover", "recover"} :
       /\ pc = "discover" => monitor = "ACTIVE"
       /\ co' = [co EXCEPT !.active = monitor = "ACTIVE", !.pc = pc,
                           !.started = @ \/ pc = "recover"]
  /\ UNCHANGED <<row, tasks, reserved, up, coWorld>>

ApplyMonitorDiscovery ==
  /\ CoAt("discover")
  /\ \/ /\ monitor = "ACTIVE"
        /\ reconcileMonitorTargetOwnership
        /\ co' = [co EXCEPT !.pc = "recover", !.started = TRUE]
        /\ UNCHANGED up
     \/ /\ monitor # "ACTIVE"
        /\ WorkerExits /\ UNCHANGED <<row, tasks>>
  /\ UNCHANGED <<reserved, coWorld>>

RecoverLeases ==
  /\ CoAt("recover")
  /\ RecoverExpiredMaintenanceLeases
  /\ CoGoto("scan")
  /\ UNCHANGED <<reserved, up, coWorld>>

\* A background pass also revisits inventories that nobody asked to refresh.
ClaimInventory ==
  /\ CoAt("scan")
  /\ row.complete /\ OwnerActive
  /\ row.nextInv \/ row.owner \in {"job", "monitor"}
  /\ row.invLease # "live" /\ ~row.live
  /\ row' = [row EXCEPT !.invLease = "live", !.nextInv = TRUE]
  /\ co' = [co EXCEPT !.pc = "load", !.claimed = row.last]
  /\ UNCHANGED <<tasks, reserved, up, coWorld>>

\* Nothing is due, other tables go first, or the claim fails.
SkipScan ==
  /\ CoAt("scan")
  /\ co' = [co EXCEPT !.pc = "due", !.todo = Op]
  /\ UNCHANGED <<row, tasks, reserved, up, coWorld>>

\* refreshPendingInventory
LoadInventory ==
  /\ CoAt("load")
  /\ co' = [co EXCEPT !.pc = "save", !.read = head]
  /\ UNCHANGED <<row, tasks, reserved, up, coWorld>>

SaveInventory ==
  /\ CoAt("save")
  /\ LET saved == [row EXCEPT !.inv = co.read]
     IN row' \in {saved} \cup ScheduleCompactionCheck(saved, tasks)
  /\ co' = [co EXCEPT !.pc = "finish", !.read = 0]
  /\ UNCHANGED <<tasks, reserved, up, coWorld>>

FinishInventory ==
  /\ CoAt("finish")
  /\ row' = FinishInventoryClaim(row, co.claimed)
  /\ co' = [co EXCEPT !.pc = "due", !.todo = Op, !.claimed = 0, !.read = 0]
  /\ UNCHANGED <<tasks, reserved, up, coWorld>>

\* The scan fails before or after it saved; so may the RetryInventoryClaim.
ScanFails ==
  /\ co.pc \in {"load", "save", "finish"} /\ up
  /\ row' \in {row, RetryInventoryClaim(row)}
  /\ co' = [co EXCEPT !.pc = "due", !.todo = Op, !.claimed = 0, !.read = 0]
  /\ UNCHANGED <<tasks, reserved, up, coWorld>>

\* enqueueDueMaintenance, one operation after the other.  DueStates finds the
\* table if its check is set and due and its owner is in the worker's map.
InJobMap == (OwnedBy("job") /\ co.run) \/ (OwnedBy("monitor") /\ co.active)
NextOp == IF "compact" \in co.todo THEN "compact" ELSE "expire_snapshots"
NextState ==
  co' = [co EXCEPT !.todo = @ \ {NextOp}, !.owner = "unmanaged",
                   !.pc = IF co.todo = {NextOp} THEN "sleep" ELSE "due"]

DueState ==
  /\ CoAt("due")
  /\ row.complete /\ NextOp \in row.next /\ OwnerActive /\ InJobMap
  /\ co' = [co EXCEPT !.pc = "insert", !.owner = OwnerId(row.owner)]
  /\ UNCHANGED <<row, tasks, reserved, up, coWorld>>

NotDue ==
  /\ CoAt("due")
  /\ NextState
  /\ UNCHANGED <<row, tasks, reserved, up, coWorld>>

\* The conditions of the INSERT; the schedule window makes the key unique.
Inserts ==
  /\ OwnedBy(co.owner) /\ OwnerActive
  /\ ~HasActive(tasks, NextOp) /\ NextOp \notin row.spent

EnqueueTask ==
  /\ CoAt("insert")
  /\ tasks' = IF Inserts
              THEN [tasks EXCEPT ![NextOp] = [NoTask EXCEPT
                      !.owner = co.owner, !.status = "queued"]]
              ELSE tasks
  /\ row' = IF Inserts THEN [row EXCEPT !.spent = @ \cup {NextOp}] ELSE row
  /\ CoGoto("advance")
  /\ UNCHANGED <<reserved, up, coWorld>>

\* The schedule is overwritten, also that of an owner who came in between.
AdvanceSchedule ==
  /\ CoAt("advance")
  /\ row' = [row EXCEPT !.next = @ \cup {NextOp}, !.spent = @ \ {NextOp}]
  /\ NextState
  /\ UNCHANGED <<tasks, reserved, up, coWorld>>

\* The lease runs from the clock that the loop read when it started.
InventoryLeaseExpires ==
  /\ row.invLease = "live"
  /\ co.pc \in {"load", "save", "finish"} => LongLoops
  /\ row' = [row EXCEPT !.invLease = "expired"]
  /\ UNCHANGED <<tasks, reserved, co, up, coWorld>>

CoordinatorStep ==
  \/ ListJobs \/ SkipJobs \/ Reserve \/ Prune \/ SeedState
  \/ ListMonitors \/ ApplyMonitorDiscovery \/ RecoverLeases
  \/ ClaimInventory \/ SkipScan \/ LoadInventory \/ SaveInventory
  \/ FinishInventory \/ ScanFails
  \/ DueState \/ NotDue \/ EnqueueTask \/ AdvanceSchedule
  \/ InventoryLeaseExpires

-----------------------------------------------------------------------------
(* The streaming job: its sink, its signals and its table *)

jobWorld == <<monitor, exec, co, up, overran, exits>>

\* Submit, or Resubmit of a stopped job under the same submission id.
JobStart ==
  /\ job = "off" /\ requests < MaxRequests
  /\ release = "pending" => ~PromptRelease
  /\ job' = "starting"
  /\ requests' = requests + 1
  /\ UNCHANGED <<row, tasks, reserved, release, done, head, signals, jobWorld>>

\* Mutant: the channel is treated as if it had no capacity.
Unbounded(signal) == Append(signals, signal)

\* A signal that finds the channel full is dropped.
enqueue(signal) ==
  IF Len(signals) < SignalLimit THEN Append(signals, signal) ELSE signals

\* Job.start reserves the table, then the sink handles the snapshot's start.
JobReserve ==
  /\ job = "starting"
  /\ SyncMaintenanceReservations
  /\ job' = "on"
  /\ signals' = IF done THEN signals
                ELSE enqueue([kind |-> "barrier", complete |-> FALSE])
  /\ release' = IF release = "unbound" THEN "none" ELSE release
  /\ UNCHANGED <<done, head, requests, jobWorld>>

\* failStart: the table is busy, another step fails, or the user stops it.
\* Only a job that has reserved its table once has a release to make.
StartFailed ==
  /\ job = "starting"
  /\ job' = "off"
  /\ release' = IF release = "unbound" THEN release ELSE "pending"
  /\ UNCHANGED <<row, tasks, reserved, done, head, signals, requests, jobWorld>>

\* updateStateTableAfterWrite: a commit, which observeTable signals
JobCommit ==
  /\ job \in {"on", "stopping"} /\ head < MaxSnapshots
  /\ head' = head + 1
  /\ signals' = enqueue([kind |-> "commit", snap |-> head', complete |-> done])
  /\ UNCHANGED <<row, tasks, reserved, job, release, done, requests, jobWorld>>

\* EventTypeSnapshotComplete
SnapshotComplete ==
  /\ job = "on" /\ ~done
  /\ done' = TRUE
  /\ signals' = enqueue([kind |-> "barrier", complete |-> TRUE])
  /\ UNCHANGED <<row, tasks, reserved, job, release, head, requests, jobWorld>>

\* persistSignal; the statement may fail or time out, the signal is gone
PersistSignal ==
  /\ signals # <<>>
  /\ LET s == Head(signals)
     IN row' \in {row} \cup (IF s.kind = "commit" THEN CoalesceSignal(row, s)
                             ELSE SetSnapshotCompleteForOwner(row, s.complete))
  /\ signals' = Tail(signals)
  /\ UNCHANGED <<tasks, reserved, job, release, done, head, requests, jobWorld>>

JobStop ==
  /\ job = "on" /\ requests < MaxRequests
  /\ job' = "stopping"
  /\ requests' = requests + 1
  /\ UNCHANGED <<row, tasks, reserved, release, done, head, signals, jobWorld>>

\* The run is done: STOPPED is saved, the deferred goroutine goes on.
JobDrained ==
  /\ job = "stopping"
  /\ job' = "off"
  /\ release' = "pending"
  /\ signals' = <<>>
  /\ UNCHANGED <<row, tasks, reserved, done, head, requests, jobWorld>>

\* applyMaintenanceOwnershipStatus, which only logs an error
JobRelease ==
  /\ release = "pending"
  /\ release' = "none"
  /\ \/ reserved /\ ReleaseMaintenanceReservations
     \/ UNCHANGED <<row, tasks, reserved>>
  /\ UNCHANGED <<job, done, head, signals, requests, jobWorld>>

JobStep ==
  \/ JobStart \/ JobReserve \/ StartFailed \/ JobCommit \/ SnapshotComplete
  \/ PersistSignal \/ JobStop \/ JobDrained \/ JobRelease

-----------------------------------------------------------------------------
(* Requests for the monitor: pkg/meta/maintenance_monitor_store.go *)

userWorld == <<reserved, jobVars, head, exec, co, up, overran, exits>>
Request == requests < MaxRequests /\ requests' = requests + 1

CreateMonitor ==
  /\ Request /\ monitor = "DELETED"
  /\ monitor' = "ACTIVE"
  /\ UNCHANGED <<row, tasks, userWorld>>

PauseMonitor ==
  /\ Request /\ monitor = "ACTIVE"
  /\ monitor' = "PAUSED"
  /\ row' = IF row.owner = "monitor" THEN NoSchedule(row) ELSE row
  /\ tasks' = CancelPending(tasks, TasksOf("monitor"))
  /\ UNCHANGED userWorld

ResumeMonitor ==
  /\ Request /\ monitor = "PAUSED"
  /\ monitor' = "ACTIVE"
  /\ row' = IF row.owner = "monitor"
            THEN [row EXCEPT !.nextInv = TRUE, !.next = Op, !.spent = {}]
            ELSE row
  /\ UNCHANGED <<tasks, userWorld>>

DeleteMonitor ==
  /\ Request /\ monitor # "DELETED"
  /\ monitor' = "DELETED"
  /\ row' = IF row.owner = "monitor"
            THEN [NoSchedule(row) EXCEPT !.owner = "deleted-monitor"] ELSE row
  /\ LET ts == CancelPending(tasks, TasksOf("monitor"))
     IN tasks' = [o \in Op |-> IF ts[o].owner = "monitor"
                               THEN [ts[o] EXCEPT !.owner = "deleted-monitor"]
                               ELSE ts[o]]
  /\ UNCHANGED userWorld

\* For the owner of the table, whoever that is.
RequestInventoryRefresh ==
  /\ Request /\ row.complete /\ row.invLease # "live"
  /\ row.owner \in {"job", "streaming", "monitor"}
  /\ row' = [row EXCEPT !.nextInv = TRUE]
  /\ UNCHANGED <<tasks, monitor, userWorld>>

UserStep ==
  \/ CreateMonitor \/ PauseMonitor \/ ResumeMonitor \/ DeleteMonitor
  \/ RequestInventoryRefresh

-----------------------------------------------------------------------------
(* The worker process *)

exitWorld == <<row, tasks, reserved, monitor, jobVars, head, requests>>

\* Killed and started again: what is in memory is gone, what is leased stays.
Crash ==
  /\ exits < MaxExits
  /\ exec' = [e \in Executor |-> Idle]
  /\ co' = Asleep /\ up' = TRUE /\ overran' = {}
  /\ exits' = exits + 1
  /\ UNCHANGED exitWorld

Shutdown ==
  /\ up /\ exits < MaxExits
  /\ WorkerExits
  /\ exits' = exits + 1
  /\ UNCHANGED <<exec, overran, exitWorld>>

\* executorWG.Wait, then the supervisor starts the process again.
Restart ==
  /\ ~up /\ \A e \in Executor : exec[e].pc = "idle"
  /\ up' = TRUE
  /\ UNCHANGED <<exec, co, overran, exits, exitWorld>>

Next ==
  \/ \E e \in Executor : ExecutorStep(e)
  \/ CoordinatorStep
  \/ JobStep
  \/ UserStep
  \/ Crash \/ Shutdown \/ Restart

Spec == Init /\ [][Next]_vars

-----------------------------------------------------------------------------
(* Properties *)

Scanning == co.pc \in {"load", "save"}
AtWork == {e \in Executor : OnTable(e)}

(* No two of compaction, expiration and inventory scan work on the table at *)
(* once, as long as none of those at work has lost its lease by expiry: the *)
(* claims of claimTaskForMaintenance and claimPendingInventoryState exclude *)
(* each other over crashes, failed statements, changes of owner, stale      *)
(* SELECTs, and holders that come back late to release or to finish.        *)
NoOverlap ==
  AtWork \cap overran = {} =>
    Cardinality(AtWork) + (IF Scanning THEN 1 ELSE 0) <= 1

(* With executors that renew in time, the stored inventory never goes back  *)
(* to an older snapshot: whoever saves one read the table after the         *)
(* previous save.  UpdateInventory itself compares nothing; only the leases *)
(* order the writers.                                                       *)
InventoryNewest == [][Timely => row'.inv >= row.inv]_vars

(* With executors that renew in time, a request for an inventory is dropped *)
(* only when the stored inventory covers the last commit the job signalled, *)
(* or when the table changes owner or its monitor is paused: a commit that  *)
(* arrives during a scan is not forgotten (FinishInventoryClaim).           *)
RequestKept ==
  [][ Timely /\ row.nextInv /\ ~row'.nextInv
        /\ OwnerId(row'.owner) = OwnerId(row.owner) /\ monitor' = monitor
      => row'.inv >= row'.last ]_vars

(* While the streaming job writes, no task of a monitor works on its table, *)
(* unless its lease expired under it, whatever order the reservation, the   *)
(* claim, discovery and the worker's stale job list come in.                *)
StreamProtected ==
  job \in {"on", "stopping"} =>
    \A e \in AtWork : exec[e].owner = "job" \/ e \in overran
=============================================================================
