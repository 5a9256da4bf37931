----------------------- MODULE MaintenanceQueueProofs -----------------------
(***************************************************************************)
(* Proofs about MaintenanceQueue: for any number of executors, snapshots,  *)
(* requests and exits of the worker, and any capacity of the signals.      *)
(*                                                                         *)
(* LeaseInv is inductive while a loop of the coordinator does not outlast  *)
(* an inventory lease (the run inventory_overlap shows what happens when   *)
(* it does), OwnerInv while a stopped job has released its table before it *)
(* is resubmitted, SnapshotInv while executors renew in time as well.      *)
(***************************************************************************)
EXTENDS MaintenanceQueue, TLAPS, FiniteSetTheorems, SequenceTheorems

\* The coordinator has operations left to look at while it enqueues.
TodoOK == co.pc \in {"due", "insert", "advance"} => co.todo # {}

-----------------------------------------------------------------------------
(* Leases *)

\* The operation of an executor holds the table until its lease expires.
Holding(e) == Busy(e) /\ e \notin overran
HolderOK == \A e \in Executor : Holding(e) => row.lease = e /\ row.live

\* A scan holds the table against every executor that has its lease.
ScanAt == {"load", "save", "finish"}
ScanOK == co.pc \in ScanAt =>
            row.invLease = "live" /\ \A e \in Executor : ~Holding(e)

LeaseInv == HolderOK /\ (~LongLoops => ScanOK)

-----------------------------------------------------------------------------
(* Owners *)

Writing == job \in {"on", "stopping"}

\* The reservation outlives the run of the job.
ReservedOK ==
  /\ job \in {"starting", "on", "stopping"} => release # "pending"
  /\ Writing => reserved

\* Who owns what is queued, what is being queued and what is being done.
TaskOwnerOK ==
  \A o \in Op : tasks[o].status \in Active =>
    tasks[o].owner \in {"job", "monitor", "deleted-monitor"}
DueOwnerOK == co.pc \in {"insert", "advance"} => co.owner \in {"job", "monitor"}
ExecOwnerOK ==
  \A e \in Executor : exec[e].pc = "picked" \/ Busy(e) =>
    exec[e].owner \in {"job", "monitor"}

\* Work for a monitor on the job's table has lost its lease.
ForJob == \A e \in Executor : Holding(e) => exec[e].owner = "job"
OwnedOK == OwnedBy("job") => ForJob

\* Between the reservation and the write of the owner no monitor comes in.
SeedOK == co.pc \in {"prune", "seed"} /\ co.run => row.owner # "monitor" /\ ForJob

OwnerInv == /\ ReservedOK /\ TaskOwnerOK /\ DueOwnerOK /\ ExecOwnerOK
            /\ OwnedOK /\ SeedOK
            /\ Writing => ForJob

-----------------------------------------------------------------------------
(* Snapshots *)

\* Nobody knows of a snapshot that the table does not have.
KnownOK ==
  /\ row.inv <= head /\ row.last <= head
  /\ \A i \in DOMAIN signals : signals[i].kind = "commit" => signals[i].snap <= head

\* What a scan and what an executor has read is not older than what is stored.
ScanReadOK ==
  /\ co.pc \in {"load", "save"} => co.claimed <= head
  /\ co.pc = "save" => co.read \in row.inv .. head /\ co.claimed <= co.read
  /\ co.pc = "finish" => co.claimed <= row.inv
ExecReadOK ==
  \A e \in Executor : exec[e].pc \in {"save", "resave"} =>
    exec[e].snap \in row.inv .. head

SnapshotInv == overran = {} /\ KnownOK /\ ScanReadOK /\ ExecReadOK

-----------------------------------------------------------------------------
(* Records, field by field *)

(* A row of the table with one field rewritten.                             *)
LEMMA RowFields ==
  ASSUME NEW r \in Row
  PROVE  /\ r.owner \in OwnerType /\ r.complete \in BOOLEAN /\ r.last \in Snapshot
         /\ r.inv \in Snapshot /\ r.nextInv \in BOOLEAN /\ r.next \in SUBSET Op
         /\ r.spent \in SUBSET Op /\ r.lease \in Executor \cup {NoOne} /\ r.live \in BOOLEAN
         /\ r.invLease \in {"none", "live", "expired"}
         /\ \A v \in OwnerType : [r EXCEPT !.owner = v] \in Row
         /\ \A v \in BOOLEAN : [r EXCEPT !.complete = v] \in Row
         /\ \A v \in Snapshot : [r EXCEPT !.last = v] \in Row
         /\ \A v \in Snapshot : [r EXCEPT !.inv = v] \in Row
         /\ \A v \in BOOLEAN : [r EXCEPT !.nextInv = v] \in Row
         /\ \A v \in SUBSET Op : [r EXCEPT !.next = v] \in Row
         /\ \A v \in SUBSET Op : [r EXCEPT !.spent = v] \in Row
         /\ \A v \in Executor \cup {NoOne} : [r EXCEPT !.lease = v] \in Row
         /\ \A v \in BOOLEAN : [r EXCEPT !.live = v] \in Row
         /\ \A v \in {"none", "live", "expired"} : [r EXCEPT !.invLease = v] \in Row
<1>1. /\ r.owner \in OwnerType /\ r.complete \in BOOLEAN /\ r.last \in Snapshot
      /\ r.inv \in Snapshot /\ r.nextInv \in BOOLEAN /\ r.next \in SUBSET Op
      /\ r.spent \in SUBSET Op /\ r.lease \in Executor \cup {NoOne} /\ r.live \in BOOLEAN
      /\ r.invLease \in {"none", "live", "expired"}
  BY DEF Row
<1>2. \A v \in OwnerType : [r EXCEPT !.owner = v] \in Row
  BY DEF Row
<1>3. \A v \in BOOLEAN : [r EXCEPT !.complete = v] \in Row
  BY DEF Row
<1>4. \A v \in Snapshot : [r EXCEPT !.last = v] \in Row
  BY DEF Row
<1>5. \A v \in Snapshot : [r EXCEPT !.inv = v] \in Row
  BY DEF Row
<1>6. \A v \in BOOLEAN : [r EXCEPT !.nextInv = v] \in Row
  BY DEF Row
<1>7. \A v \in SUBSET Op : [r EXCEPT !.next = v] \in Row
  BY DEF Row
<1>8. \A v \in SUBSET Op : [r EXCEPT !.spent = v] \in Row
  BY DEF Row
<1>9. \A v \in Executor \cup {NoOne} : [r EXCEPT !.lease = v] \in Row
  BY DEF Row
<1>10. \A v \in BOOLEAN : [r EXCEPT !.live = v] \in Row
  BY DEF Row
<1>11. \A v \in {"none", "live", "expired"} : [r EXCEPT !.invLease = v] \in Row
  BY DEF Row
<1> QED BY <1>1, <1>2, <1>3, <1>4, <1>5, <1>6, <1>7, <1>8, <1>9, <1>10, <1>11

(* An executor with one field rewritten.                                    *)
LEMMA ExecFields ==
  ASSUME NEW x \in Exec
  PROVE  /\ x.pc \in {"idle", "picked", "claimed", "ended", "leaving"} \cup Working
         /\ x.owner \in OwnerType /\ x.snap \in Snapshot
         /\ x.outcome \in {"none", "succeeded", "retryable", "over"}
         /\ \A v \in {"idle", "picked", "claimed", "ended", "leaving"} \cup Working :
              [x EXCEPT !.pc = v] \in Exec
         /\ \A v \in OwnerType : [x EXCEPT !.owner = v] \in Exec
         /\ \A v \in Snapshot : [x EXCEPT !.snap = v] \in Exec
         /\ \A v \in {"none", "succeeded", "retryable", "over"} :
              [x EXCEPT !.outcome = v] \in Exec
<1> DEFINE P == {"idle", "picked", "claimed", "ended", "leaving"} \cup Working
           Q == {"none", "succeeded", "retryable", "over"}
<1>1. Exec = [pc : P, owner : OwnerType, snap : Snapshot, outcome : Q]
  BY DEF Exec
<1> HIDE DEF P, Q
<1>2. x.pc \in P /\ x.owner \in OwnerType /\ x.snap \in Snapshot /\ x.outcome \in Q
  BY <1>1
<1>3. \A v \in P : [x EXCEPT !.pc = v] \in Exec
  BY <1>1
<1>4. \A v \in OwnerType : [x EXCEPT !.owner = v] \in Exec
  BY <1>1
<1>5. \A v \in Snapshot : [x EXCEPT !.snap = v] \in Exec
  BY <1>1
<1>6. \A v \in Q : [x EXCEPT !.outcome = v] \in Exec
  BY <1>1
<1> QED BY <1>2, <1>3, <1>4, <1>5, <1>6 DEF P, Q

\* Where the coordinator's loop is.
CoPc == {"sleep", "reserve", "prune", "seed", "monitors", "discover",
         "recover", "scan", "load", "save", "finish", "due", "insert", "advance"}

(* The coordinator with one field rewritten.                                *)
LEMMA CoFields ==
  ASSUME NEW x \in Coordinator
  PROVE  /\ x.pc \in CoPc /\ x.started \in BOOLEAN /\ x.run \in BOOLEAN /\ x.active \in BOOLEAN
         /\ x.claimed \in Snapshot /\ x.read \in Snapshot /\ x.todo \in SUBSET Op
         /\ x.owner \in OwnerType
         /\ \A v \in CoPc : [x EXCEPT !.pc = v] \in Coordinator
         /\ \A v \in BOOLEAN : [x EXCEPT !.started = v] \in Coordinator
         /\ \A v \in BOOLEAN : [x EXCEPT !.run = v] \in Coordinator
         /\ \A v \in BOOLEAN : [x EXCEPT !.active = v] \in Coordinator
         /\ \A v \in Snapshot : [x EXCEPT !.claimed = v] \in Coordinator
         /\ \A v \in Snapshot : [x EXCEPT !.read = v] \in Coordinator
         /\ \A v \in SUBSET Op : [x EXCEPT !.todo = v] \in Coordinator
         /\ \A v \in OwnerType : [x EXCEPT !.owner = v] \in Coordinator
<1>1. Coordinator = [pc : CoPc, started : BOOLEAN, run : BOOLEAN, active : BOOLEAN,
                     claimed : Snapshot, read : Snapshot, todo : SUBSET Op, owner : OwnerType]
  BY DEF Coordinator, CoPc
<1>2. /\ x.pc \in CoPc /\ x.started \in BOOLEAN /\ x.run \in BOOLEAN /\ x.active \in BOOLEAN
      /\ x.claimed \in Snapshot /\ x.read \in Snapshot /\ x.todo \in SUBSET Op
      /\ x.owner \in OwnerType
  BY <1>1
<1>3. \A v \in CoPc : [x EXCEPT !.pc = v] \in Coordinator
  BY <1>1
<1>4. \A v \in BOOLEAN : [x EXCEPT !.started = v] \in Coordinator
  BY <1>1
<1>5. \A v \in BOOLEAN : [x EXCEPT !.run = v] \in Coordinator
  BY <1>1
<1>6. \A v \in BOOLEAN : [x EXCEPT !.active = v] \in Coordinator
  BY <1>1
<1>7. \A v \in Snapshot : [x EXCEPT !.claimed = v] \in Coordinator
  BY <1>1
<1>8. \A v \in Snapshot : [x EXCEPT !.read = v] \in Coordinator
  BY <1>1
<1>9. \A v \in SUBSET Op : [x EXCEPT !.todo = v] \in Coordinator
  BY <1>1
<1>10. \A v \in OwnerType : [x EXCEPT !.owner = v] \in Coordinator
  BY <1>1
<1> QED BY <1>2, <1>3, <1>4, <1>5, <1>6, <1>7, <1>8, <1>9, <1>10

-----------------------------------------------------------------------------
(* Types of what the statements leave *)

(* The operations and the values that stand for nothing.                    *)
LEMMA ConstantTypes ==
  /\ "compact" \in Op /\ \A e \in Executor : OpOf[e] \in Op
  /\ NoTask \in Task /\ Idle \in Exec /\ Asleep \in Coordinator
  /\ 0 \in Snapshot /\ 1 \in Snapshot
  /\ \A o \in OwnerType : OwnerId(o) \in OwnerType
<1>1. "compact" \in Op /\ \A e \in Executor : OpOf[e] \in Op
  BY QueueAssumption DEF Op
<1>2. 0 \in Snapshot /\ 1 \in Snapshot
  BY QueueAssumption DEF Snapshot
<1>3. NoTask \in Task
  BY DEF NoTask, Task, OwnerType
<1>4. Idle \in Exec
  BY <1>2 DEF Idle, Exec, OwnerType
<1>5. Asleep \in Coordinator
  BY <1>2 DEF Asleep, Coordinator, OwnerType
<1>6. \A o \in OwnerType : OwnerId(o) \in OwnerType
  BY DEF OwnerType, OwnerId
<1> QED BY <1>1, <1>2, <1>3, <1>4, <1>5, <1>6

(* The statements on the row of the table keep it well-formed.              *)
LEMMA RowTypes ==
  ASSUME NEW r \in Row
  PROVE  /\ NoSchedule(r) \in Row
         /\ \A t \in OwnerType : [NoSchedule(r) EXCEPT !.owner = t] \in Row
         /\ \A c \in Snapshot : FinishInventoryClaim(r, c) \in Row
         /\ RetryInventoryClaim(r) \in Row
         /\ PullCompaction(r) \subseteq Row
         /\ \A ts : ScheduleCompactionCheck(r, ts) \subseteq Row
         /\ \A s \in Signal : s.kind = "commit" => CoalesceSignal(r, s) \subseteq Row
         /\ \A c \in BOOLEAN : SetSnapshotCompleteForOwner(r, c) \subseteq Row
         /\ \A c \in BOOLEAN : UpsertState(r, c) \in Row
<1>1. ASSUME NEW q \in Row
      PROVE  /\ NoSchedule(q) \in Row
             /\ \A t \in OwnerType : [NoSchedule(q) EXCEPT !.owner = t] \in Row
             /\ PullCompaction(q) \subseteq Row
  <2>1. NoSchedule(q) \in Row /\ \A t \in OwnerType : [NoSchedule(q) EXCEPT !.owner = t] \in Row
    <3>1. NoSchedule(q) \in Row
      BY Zenon DEF NoSchedule, Row
    <3> QED BY <3>1, RowFields
  <2>2. q.next \cup {"compact"} \in SUBSET Op /\ q.spent \ {"compact"} \in SUBSET Op
    BY RowFields, ConstantTypes
  <2>3. [q EXCEPT !.next = @ \cup {"compact"}, !.spent = @ \ {"compact"}] \in Row
    BY <2>2, Zenon DEF Row
  <2> QED BY <2>1, <2>3 DEF PullCompaction
<1>2. /\ \A c \in Snapshot : FinishInventoryClaim(r, c) \in Row
      /\ RetryInventoryClaim(r) \in Row
  <2>1. ASSUME NEW c \in Snapshot PROVE FinishInventoryClaim(r, c) \in Row
    BY Zenon DEF FinishInventoryClaim, Row
  <2>2. RetryInventoryClaim(r) \in Row
    BY Zenon DEF RetryInventoryClaim, Row
  <2> QED BY <2>1, <2>2
<1>3. \A ts : ScheduleCompactionCheck(r, ts) \subseteq Row
  BY <1>1 DEF ScheduleCompactionCheck
<1>4. ASSUME NEW s \in Signal, s.kind = "commit"
      PROVE  CoalesceSignal(r, s) \subseteq Row
  <2> DEFINE changed == s.snap # 0 /\ s.snap # r.last
             complete == r.complete \/ s.complete
             seen == [r EXCEPT !.complete = complete,
                               !.last = IF changed THEN s.snap ELSE @,
                               !.nextInv = @ \/ (changed /\ complete)]
  <2>1. s.snap \in Snapshot /\ s.complete \in BOOLEAN
    BY <1>4 DEF Signal
  <2>2. seen \in Row
    <3>1. (IF changed THEN s.snap ELSE r.last) \in Snapshot
      BY <2>1, RowFields
    <3>2. complete \in BOOLEAN /\ (r.nextInv \/ (changed /\ complete)) \in BOOLEAN
      BY <2>1, RowFields
    <3> HIDE DEF complete, changed
    <3> QED BY <3>1, <3>2, Zenon DEF Row
  <2> HIDE DEF seen
  <2>3. PullCompaction(seen) \subseteq Row
    BY <1>1, <2>2
  <2> QED BY <2>2, <2>3 DEF CoalesceSignal, seen
<1>5. ASSUME NEW c \in BOOLEAN
      PROVE  SetSnapshotCompleteForOwner(r, c) \subseteq Row
  <2>1. [r EXCEPT !.complete = c] \in Row
    BY RowFields
  <2>2. PullCompaction([r EXCEPT !.complete = c]) \subseteq Row
    BY <1>1, <2>1
  <2> QED BY <2>1, <2>2 DEF SetSnapshotCompleteForOwner
<1>6. ASSUME NEW c \in BOOLEAN PROVE UpsertState(r, c) \in Row
  <2>1. (r.complete \/ c) \in BOOLEAN /\ (r.nextInv \/ r.inv = 0) \in BOOLEAN
    BY RowFields
  <2>2. "job" \in OwnerType /\ Op \in SUBSET Op
    BY DEF OwnerType
  <2> QED BY <2>1, <2>2, Zenon DEF UpsertState, Row
<1> QED BY <1>1, <1>2, <1>3, <1>4, <1>5, <1>6

(* So do the statements on the table's tasks.                               *)
LEMMA TaskTypes ==
  ASSUME NEW ts \in [Op -> Task]
  PROVE  \A ops : CancelPending(ts, ops) \in [Op -> Task]
BY ConstantTypes DEF CancelPending

(* Ending and repeating a task.                                             *)
LEMMA EndTypes ==
  ASSUME tasks \in [Op -> Task], NEW e \in Executor
  PROVE  EndTask(e) \in [Op -> Task] /\ RetryTask(e) \in [Op -> Task]
<1>1. OpOf[e] \in Op /\ tasks[OpOf[e]] \in Task
  BY ConstantTypes
<1>2. [tasks[OpOf[e]] EXCEPT !.status = "retry", !.by = NoOne, !.live = FALSE] \in Task
  BY <1>1 DEF Task, Pending, Active
<1> QED BY <1>1, <1>2, ConstantTypes DEF EndTask, RetryTask

(* The releases of a lease, a reservation and an owner.                     *)
LEMMA ReleaseTypes ==
  ASSUME row \in Row, tasks \in [Op -> Task], reserved \in BOOLEAN
  PROVE  /\ \A e \in Executor : ReleaseMaintenanceTableLease(e) \in Row
         /\ SyncMaintenanceReservations =>
              row' \in Row /\ tasks' \in [Op -> Task] /\ reserved' \in BOOLEAN
         /\ ReleaseMaintenanceReservations =>
              row' \in Row /\ tasks' \in [Op -> Task] /\ reserved' \in BOOLEAN
         /\ ReleaseMaintenanceReservationsExcept =>
              row' \in Row /\ tasks' \in [Op -> Task] /\ reserved' \in BOOLEAN
         /\ reconcileMonitorTargetOwnership => row' \in Row /\ tasks' \in [Op -> Task]
         /\ RecoverExpiredMaintenanceLeases => row' \in Row /\ tasks' \in [Op -> Task]
<1>1. \A e \in Executor : ReleaseMaintenanceTableLease(e) \in Row
  <2>1. [row EXCEPT !.lease = NoOne, !.live = FALSE] \in Row
    BY Zenon DEF Row
  <2> QED BY <2>1 DEF ReleaseMaintenanceTableLease
<1>2. /\ [NoSchedule(row) EXCEPT !.owner = "streaming", !.complete = FALSE] \in Row
      /\ [NoSchedule(row) EXCEPT !.owner = "streaming"] \in Row
      /\ [NoSchedule(row) EXCEPT !.owner = "unmanaged"] \in Row
      /\ [row EXCEPT !.owner = "monitor", !.complete = TRUE, !.nextInv = TRUE, !.next = Op] \in Row
      /\ [row EXCEPT !.lease = NoOne] \in Row
  <2>1. NoSchedule(row) \in Row
    BY RowTypes
  <2>2. {"streaming", "unmanaged", "monitor"} \subseteq OwnerType /\ Op \in SUBSET Op
    BY DEF OwnerType
  <2>3. [NoSchedule(row) EXCEPT !.owner = "streaming", !.complete = FALSE] \in Row
    BY <2>1, <2>2, Zenon DEF Row
  <2>4. /\ [NoSchedule(row) EXCEPT !.owner = "streaming"] \in Row
        /\ [NoSchedule(row) EXCEPT !.owner = "unmanaged"] \in Row
    BY <2>1, <2>2, RowFields
  <2>5. [row EXCEPT !.owner = "monitor", !.complete = TRUE, !.nextInv = TRUE, !.next = Op] \in Row
    BY <2>2, Zenon DEF Row
  <2>6. [row EXCEPT !.lease = NoOne] \in Row
    BY RowFields
  <2> QED BY <2>3, <2>4, <2>5, <2>6
<1>3. \A ops : CancelPending(tasks, ops) \in [Op -> Task]
  BY TaskTypes
<1>4. SyncMaintenanceReservations =>
        row' \in Row /\ tasks' \in [Op -> Task] /\ reserved' \in BOOLEAN
  BY <1>2, <1>3 DEF SyncMaintenanceReservations
<1>5. \A c : FreeRow(c) => row' \in Row /\ tasks' \in [Op -> Task] /\ reserved' \in BOOLEAN
  BY <1>2, <1>3 DEF FreeRow
<1>6. reconcileMonitorTargetOwnership => row' \in Row /\ tasks' \in [Op -> Task]
  BY <1>2, <1>3 DEF reconcileMonitorTargetOwnership
<1>7. RecoverExpiredMaintenanceLeases => row' \in Row /\ tasks' \in [Op -> Task]
  <2> DEFINE again(o) == [tasks[o] EXCEPT !.status = "retry", !.by = NoOne]
             back == [o \in Op |-> IF tasks[o].status = "leased" /\ ~tasks[o].live
                                   THEN again(o) ELSE tasks[o]]
             dead == {o \in Op : \/ tasks[o].owner = "deleted-monitor"
                                 \/ tasks[o].owner = "monitor" /\ monitor # "ACTIVE"}
  <2>1. ASSUME NEW o \in Op PROVE again(o) \in Task
    <3>1. tasks[o] \in Task /\ "retry" \in {"none"} \cup Active
      BY DEF Active, Pending
    <3> QED BY <3>1, Zenon DEF Task
  <2>2. RecoverExpiredMaintenanceLeases =>
          /\ tasks' = CancelPending(back, dead)
          /\ row' \in {row, [row EXCEPT !.lease = NoOne]}
    BY Zenon DEF RecoverExpiredMaintenanceLeases
  <2> HIDE DEF again
  <2>3. back \in [Op -> Task]
    BY <2>1
  <2> HIDE DEF back, dead
  <2>4. CancelPending(back, dead) \in [Op -> Task]
    BY <2>3, TaskTypes
  <2> QED BY <1>2, <2>2, <2>4
<1> QED BY <1>1, <1>4, <1>5, <1>6, <1>7 DEF ReleaseMaintenanceReservations,
           ReleaseMaintenanceReservationsExcept


-----------------------------------------------------------------------------
(* Types of what a step leaves *)

(* The executors' steps.                                                    *)
LEMMA ExecutorTypes ==
  ASSUME TypeOK, NEW e \in Executor, ExecutorStep(e)
  PROVE  /\ row' \in Row /\ tasks' \in [Op -> Task] /\ head' \in Snapshot
         /\ exec' \in [Executor -> Exec] /\ overran' \in SUBSET Executor
<1>0. /\ row \in Row /\ tasks \in [Op -> Task] /\ head \in Snapshot
      /\ exec \in [Executor -> Exec] /\ overran \in SUBSET Executor /\ exec[e] \in Exec
      /\ OpOf[e] \in Op /\ tasks[OpOf[e]] \in Task
  BY ConstantTypes DEF TypeOK
<1>1. ASSUME NEW x \in Exec, Set(e, x) PROVE exec' \in [Executor -> Exec]
  BY <1>0, <1>1 DEF Set
<1>2. \A pc \in {"idle", "ended", "leaving", "claimed"} \cup Working :
        Goto(e, pc) => exec' \in [Executor -> Exec]
  <2>1. \A pc \in {"idle", "ended", "leaving", "claimed"} \cup Working :
          [exec[e] EXCEPT !.pc = pc] \in Exec
    BY <1>0, ExecFields
  <2> QED BY <1>1, <2>1 DEF Goto
<1>3. CASE PickTask(e)
  <2>1. tasks[OpOf[e]].owner \in OwnerType
    BY <1>0 DEF Task
  <2>2. [Idle EXCEPT !.pc = "picked", !.owner = tasks[OpOf[e]].owner] \in Exec
    BY <2>1, ConstantTypes, Zenon DEF Exec
  <2> QED BY <1>0, <1>1, <1>3, <2>2 DEF PickTask
<1>4. CASE ClaimCancels(e) \/ ClaimAborts(e)
  BY <1>0, <1>1, <1>4, ConstantTypes, TaskTypes DEF ClaimCancels, ClaimAborts
<1>5. CASE ClaimTask(e)
  <2>1. [row EXCEPT !.lease = e, !.live = TRUE] \in Row
    BY <1>0, Zenon DEF Row
  <2>2. [tasks[OpOf[e]] EXCEPT !.status = "leased", !.by = e, !.live = TRUE] \in Task
    BY <1>0, Zenon DEF Task, Active
  <2>3. tasks' \in [Op -> Task]
    BY <1>0, <1>5, <2>2 DEF ClaimTask
  <2> QED BY <1>0, <1>2, <1>5, <2>1, <2>3 DEF ClaimTask
<1>6. CASE StartTask(e) \/ StartFails(e)
  BY <1>0, <1>2, <1>6 DEF StartTask, StartFails, Working
<1>7. CASE RejectTask(e)
  BY <1>0, <1>2, <1>7, EndTypes DEF RejectTask
<1>8. CASE LoadTable(e)
  <2>1. \A pc \in {"save", "resave"} : [exec[e] EXCEPT !.snap = head, !.pc = pc] \in Exec
    <3> SUFFICES ASSUME NEW pc \in {"save", "resave"}
                 PROVE  [exec[e] EXCEPT !.snap = head, !.pc = pc] \in Exec
      OBVIOUS
    <3>1. pc \in Working
      BY DEF Working
    <3> QED BY <1>0, <3>1, Zenon DEF Exec
  <2>2. exec' \in [Executor -> Exec]
    BY <1>1, <1>8, <2>1 DEF LoadTable
  <2> QED BY <1>0, <1>8, <2>2 DEF LoadTable
<1>9. CASE SaveActiveInventory(e)
  <2>1. \A pc \in {"commit", "ended"} : [exec[e] EXCEPT !.pc = pc, !.snap = 0] \in Exec
    <3> SUFFICES ASSUME NEW pc \in {"commit", "ended"}
                 PROVE  [exec[e] EXCEPT !.pc = pc, !.snap = 0] \in Exec
      OBVIOUS
    <3>1. pc \in {"idle", "picked", "claimed", "ended", "leaving"} \cup Working /\ 0 \in Snapshot
      BY ConstantTypes DEF Working
    <3> QED BY <1>0, <3>1, Zenon DEF Exec
  <2>2. [row EXCEPT !.inv = exec[e].snap] \in Row
    BY <1>0, RowFields, ExecFields
  <2>3. exec' \in [Executor -> Exec]
    BY <1>1, <1>9, <2>1 DEF SaveActiveInventory
  <2> QED BY <1>0, <1>9, <2>2, <2>3 DEF SaveActiveInventory
<1>10. CASE CommitMaintenance(e)
  <2>1. \A pc \in {"reread", "ended"} :
          [exec[e] EXCEPT !.outcome = "succeeded", !.pc = pc] \in Exec
    <3> SUFFICES ASSUME NEW pc \in {"reread", "ended"}
                 PROVE  [exec[e] EXCEPT !.outcome = "succeeded", !.pc = pc] \in Exec
      OBVIOUS
    <3>1. pc \in {"idle", "picked", "claimed", "ended", "leaving"} \cup Working
      BY DEF Working
    <3> QED BY <1>0, <3>1, Zenon DEF Exec
  <2>2. head + 1 \in Snapshot
    BY <1>0, <1>10, QueueAssumption DEF CommitMaintenance, Snapshot
  <2>3. exec' \in [Executor -> Exec]
    BY <1>1, <1>10, <2>1 DEF CommitMaintenance
  <2> QED BY <1>0, <1>10, <2>2, <2>3 DEF CommitMaintenance
<1>11. \A o \in {"retryable", "over"} : Ended(e, o) \in Exec
  <2> SUFFICES ASSUME NEW o \in {"retryable", "over"} PROVE Ended(e, o) \in Exec
    OBVIOUS
  <2> DEFINE p == IF exec[e].outcome = "succeeded" THEN exec[e].outcome ELSE o
  <2>1. p \in {"none", "succeeded", "retryable", "over"} /\ 0 \in Snapshot
    BY ConstantTypes
  <2>2. Ended(e, o) = [exec[e] EXCEPT !.pc = "ended", !.snap = 0, !.outcome = p]
    BY <1>0, Zenon DEF Ended, Exec
  <2> HIDE DEF p
  <2>3. [exec[e] EXCEPT !.pc = "ended", !.snap = 0, !.outcome = p] \in Exec
    BY <1>0, <2>1, Zenon DEF Exec
  <2> QED BY <2>2, <2>3
<1>12. CASE StopWorking(e)
  BY <1>0, <1>1, <1>11, <1>12 DEF StopWorking
<1>13. CASE RenewLease(e)
  <2>1. [row EXCEPT !.live = TRUE] \in Row
    BY <1>0, RowFields
  <2>2. [tasks[OpOf[e]] EXCEPT !.live = TRUE] \in Task
    BY <1>0, Zenon DEF Task
  <2>3. exec' \in [Executor -> Exec]
    BY <1>0, <1>1, <1>11, <1>13 DEF RenewLease
  <2>4. row' \in Row
    BY <1>0, <1>13, <2>1 DEF RenewLease
  <2>5. tasks' \in [Op -> Task]
    BY <1>0, <1>13, <2>2 DEF RenewLease
  <2> QED BY <1>0, <1>13, <2>3, <2>4, <2>5 DEF RenewLease
<1>14. [Idle EXCEPT !.pc = "leaving"] \in Exec
  BY ExecFields, ConstantTypes
<1>15. CASE FinishWork(e)
  <2>1. tasks' \in [Op -> Task]
    BY <1>0, <1>15, EndTypes DEF FinishWork, Outcomes
  <2>2. row' \in Row
    BY <1>0, <1>15, RowTypes DEF FinishWork
  <2> QED BY <1>0, <1>1, <1>14, <1>15, <2>1, <2>2 DEF FinishWork
<1>16. CASE FinishFails(e)
  BY <1>0, <1>1, <1>14, <1>16 DEF FinishFails
<1>17. CASE LeaveTable(e)
  <2>1. tasks' \in [Op -> Task]
    BY <1>0, <1>17, EndTypes DEF LeaveTable
  <2>2. [row EXCEPT !.lease = NoOne, !.live = FALSE] \in Row
    BY <1>0, Zenon DEF Row
  <2>3. row' \in Row
    BY <1>0, <1>17, <2>2 DEF LeaveTable, ReleaseMaintenanceTableLease
  <2> QED BY <1>0, <1>1, <1>17, <2>1, <2>3, ConstantTypes DEF LeaveTable
<1>18. CASE LeaseExpires(e)
  <2>1. [row EXCEPT !.live = FALSE] \in Row
    BY <1>0, RowFields
  <2>2. [tasks[OpOf[e]] EXCEPT !.live = FALSE] \in Task
    BY <1>0, Zenon DEF Task
  <2>3. tasks' \in [Op -> Task]
    BY <1>0, <1>18, <2>2 DEF LeaseExpires
  <2> QED BY <1>0, <1>18, <2>1, <2>3 DEF LeaseExpires
<1> QED BY <1>3, <1>4, <1>5, <1>6, <1>7, <1>8, <1>9, <1>10, <1>12, <1>13, <1>15, <1>16, <1>17,
           <1>18 DEF ExecutorStep

(* The coordinator's steps.                                                 *)
LEMMA CoordinatorTypes ==
  ASSUME TypeOK, TodoOK, CoordinatorStep
  PROVE  /\ row' \in Row /\ tasks' \in [Op -> Task] /\ reserved' \in BOOLEAN
         /\ co' \in Coordinator /\ up' \in BOOLEAN /\ TodoOK'
<1>0. /\ row \in Row /\ tasks \in [Op -> Task] /\ reserved \in BOOLEAN /\ done \in BOOLEAN
      /\ co \in Coordinator /\ up \in BOOLEAN /\ head \in Snapshot
      /\ job \in {"off", "starting", "on", "stopping"} /\ 0 \in Snapshot
  BY ConstantTypes DEF TypeOK
<1>a. Op # {} /\ Op \subseteq {"compact", "expire_snapshots"} /\ Op \in SUBSET Op
  BY QueueAssumption
<1> DEFINE due == {"due", "insert", "advance"}
<1>1. ASSUME NEW x \in Coordinator, co' = x, x.pc \in due => x.todo # {}
      PROVE  co' \in Coordinator /\ TodoOK'
  BY <1>1 DEF TodoOK
<1>2. ASSUME NEW pc \in CoPc \ due
      PROVE  /\ [co EXCEPT !.pc = pc] \in Coordinator /\ [co EXCEPT !.pc = pc].pc = pc
             /\ CoGoto(pc) => co' \in Coordinator /\ TodoOK'
  <2>1. [co EXCEPT !.pc = pc] \in Coordinator /\ [co EXCEPT !.pc = pc].pc = pc
    BY <1>0, CoFields, Zenon DEF Coordinator
  <2> QED BY <1>1, <1>2, <2>1 DEF CoGoto
<1>3. WorkerExits => co' \in Coordinator /\ TodoOK' /\ up' \in BOOLEAN
  <2>1. Asleep \in Coordinator /\ Asleep.pc = "sleep"
    BY ConstantTypes DEF Asleep
  <2> QED BY <1>1, <2>1 DEF WorkerExits
<1>4. CASE ListJobs
  <2> DEFINE b == job \in {"starting", "on"}
             x == [co EXCEPT !.pc = "reserve", !.run = b]
  <2>1. b \in BOOLEAN /\ "reserve" \in CoPc
    BY DEF CoPc
  <2>2. co' = x
    BY <1>4, Zenon DEF ListJobs
  <2> HIDE DEF b
  <2>3. x \in Coordinator /\ x.pc = "reserve"
    BY <1>0, <2>1, Zenon DEF Coordinator, CoPc
  <2> QED BY <1>0, <1>1, <1>4, <2>2, <2>3 DEF ListJobs
<1>5. CASE SkipJobs
  BY <1>0, <1>2, <1>5 DEF SkipJobs, CoPc
<1>6. CASE Reserve
  BY <1>0, <1>2, <1>3, <1>6, ReleaseTypes DEF Reserve, CoPc
<1>7. CASE Prune
  BY <1>0, <1>2, <1>7, ReleaseTypes DEF Prune, CoPc
<1>8. CASE SeedState
  BY <1>0, <1>2, <1>8, RowTypes DEF SeedState, CoPc
<1>9. CASE ListMonitors
  <2>1. PICK pc \in {"discover", "recover"} :
          co' = [co EXCEPT !.active = monitor = "ACTIVE", !.pc = pc,
                           !.started = @ \/ pc = "recover"]
    BY <1>9, Zenon DEF ListMonitors
  <2> DEFINE b == monitor = "ACTIVE"
             s == co.started \/ pc = "recover"
             x == [co EXCEPT !.active = b, !.pc = pc, !.started = s]
  <2>2. b \in BOOLEAN /\ s \in BOOLEAN /\ pc \in CoPc \ due
    BY DEF CoPc
  <2>3. co' = x
    BY <1>0, <2>1, Zenon DEF Coordinator
  <2> HIDE DEF b, s
  <2>4. x \in Coordinator /\ x.pc = pc
    BY <1>0, <2>2, Zenon DEF Coordinator, CoPc
  <2> QED BY <1>0, <1>1, <1>9, <2>2, <2>3, <2>4 DEF ListMonitors
<1>10. CASE ApplyMonitorDiscovery
  <2> DEFINE x == [co EXCEPT !.pc = "recover", !.started = TRUE]
  <2>1. x \in Coordinator /\ x.pc = "recover"
    BY <1>0, Zenon DEF Coordinator
  <2>2. co' = x \/ WorkerExits
    BY <1>10 DEF ApplyMonitorDiscovery
  <2>3. (up' = up \/ WorkerExits) /\ reserved' = reserved
        /\ (reconcileMonitorTargetOwnership \/ UNCHANGED <<row, tasks>>)
    BY <1>10 DEF ApplyMonitorDiscovery
  <2> HIDE DEF x
  <2> QED BY <1>0, <1>1, <1>3, <2>1, <2>2, <2>3, ReleaseTypes
<1>11. CASE RecoverLeases
  BY <1>0, <1>2, <1>11, ReleaseTypes DEF RecoverLeases, CoPc
<1>12. CASE ClaimInventory
  <2> DEFINE x == [co EXCEPT !.pc = "load", !.claimed = row.last]
  <2>1. row.last \in Snapshot
    BY <1>0, RowFields
  <2>2. x \in Coordinator /\ x.pc = "load"
    BY <1>0, <2>1, Zenon DEF Coordinator
  <2>3. [row EXCEPT !.invLease = "live", !.nextInv = TRUE] \in Row
    BY <1>0, Zenon DEF Row
  <2>4. co' = x /\ row' \in Row
    BY <1>12, <2>3 DEF ClaimInventory
  <2> HIDE DEF x
  <2> QED BY <1>0, <1>1, <1>12, <2>2, <2>4 DEF ClaimInventory
<1>13. CASE SkipScan
  <2> DEFINE x == [co EXCEPT !.pc = "due", !.todo = Op]
  <2>1. x \in Coordinator /\ x.todo = Op
    BY <1>0, <1>a, Zenon DEF Coordinator
  <2>2. co' = x
    BY <1>13 DEF SkipScan
  <2> HIDE DEF x
  <2> QED BY <1>0, <1>1, <1>a, <1>13, <2>1, <2>2 DEF SkipScan
<1>14. CASE LoadInventory
  <2> DEFINE x == [co EXCEPT !.pc = "save", !.read = head]
  <2>1. x \in Coordinator /\ x.pc = "save"
    BY <1>0, Zenon DEF Coordinator
  <2>2. co' = x
    BY <1>14 DEF LoadInventory
  <2> HIDE DEF x
  <2> QED BY <1>0, <1>1, <1>14, <2>1, <2>2 DEF LoadInventory
<1>15. CASE SaveInventory
  <2> DEFINE x == [co EXCEPT !.pc = "finish", !.read = 0]
             saved == [row EXCEPT !.inv = co.read]
  <2>1. x \in Coordinator /\ x.pc = "finish"
    BY <1>0, Zenon DEF Coordinator
  <2>2. saved \in Row
    BY <1>0, RowFields, CoFields
  <2>3. co' = x /\ row' \in {saved} \cup ScheduleCompactionCheck(saved, tasks)
    BY <1>15, Zenon DEF SaveInventory
  <2> HIDE DEF x, saved
  <2> QED BY <1>0, <1>1, <1>15, <2>1, <2>2, <2>3, RowTypes DEF SaveInventory
<1>16. CASE FinishInventory \/ ScanFails
  <2> DEFINE x == [co EXCEPT !.pc = "due", !.todo = Op, !.claimed = 0, !.read = 0]
  <2>1. x \in Coordinator /\ x.todo = Op
    BY <1>0, <1>a, Zenon DEF Coordinator
  <2>2. co' = x
    BY <1>16 DEF FinishInventory, ScanFails
  <2>3. row' \in Row
    BY <1>0, <1>16, CoFields, RowTypes DEF FinishInventory, ScanFails
  <2>4. UNCHANGED <<tasks, reserved, up>>
    BY <1>16 DEF FinishInventory, ScanFails
  <2> HIDE DEF x
  <2> QED BY <1>0, <1>1, <1>a, <2>1, <2>2, <2>3, <2>4
<1>17. ASSUME co.pc \in due
       PROVE  NextOp \in Op /\ co.todo \in SUBSET Op /\ co.todo # {}
  <2>1. co.todo \in SUBSET Op /\ co.todo # {}
    BY <1>0, <1>17, CoFields DEF TodoOK
  <2> QED BY <1>a, <2>1 DEF NextOp
<1>18. CASE DueState
  <2> DEFINE t == OwnerId(row.owner)
             x == [co EXCEPT !.pc = "insert", !.owner = t]
  <2>1. t \in OwnerType
    BY <1>0, RowFields, ConstantTypes
  <2>2. co' = x /\ co.pc \in due
    BY <1>18 DEF DueState, CoAt
  <2> HIDE DEF t
  <2>3. x \in Coordinator /\ x.todo = co.todo
    BY <1>0, <2>1, Zenon DEF Coordinator
  <2> HIDE DEF x
  <2> QED BY <1>0, <1>1, <1>17, <1>18, <2>2, <2>3 DEF DueState
<1>19. ASSUME NextState, co.pc \in due PROVE co' \in Coordinator /\ TodoOK'
  <2> DEFINE n == NextOp
             p == IF co.todo = {n} THEN "sleep" ELSE "due"
             x == [co EXCEPT !.todo = @ \ {n}, !.owner = "unmanaged", !.pc = p]
  <2>1. co' = x
    BY <1>19, Zenon DEF NextState
  <2>2. n \in Op /\ co.todo \in SUBSET Op /\ co.todo # {}
    BY <1>17, <1>19
  <2>3. co.todo \ {n} \in SUBSET Op /\ p \in CoPc /\ "unmanaged" \in OwnerType
    BY <2>2 DEF CoPc, OwnerType
  <2>4. p \in due => co.todo \ {n} # {}
    BY <2>2
  <2> HIDE DEF n, p
  <2>5. x \in Coordinator /\ x.pc = p /\ x.todo = co.todo \ {n}
    BY <1>0, <2>3, Zenon DEF Coordinator, CoPc
  <2> HIDE DEF x
  <2> QED BY <1>1, <2>1, <2>4, <2>5
<1>20. CASE NotDue
  BY <1>0, <1>19, <1>20 DEF NotDue, CoAt
<1>21. CASE EnqueueTask
  <2> DEFINE x == [co EXCEPT !.pc = "advance"]
             task == [NoTask EXCEPT !.owner = co.owner, !.status = "queued"]
             n == NextOp
  <2>1. co.pc \in due /\ co' = x
    BY <1>21 DEF EnqueueTask, CoAt, CoGoto
  <2>2. x \in Coordinator /\ x.todo = co.todo
    BY <1>0, Zenon DEF Coordinator
  <2>3. n \in Op /\ co.todo # {} /\ co.owner \in OwnerType
    BY <1>0, <1>17, <2>1, CoFields
  <2>4. task \in Task
    BY <2>3, ConstantTypes, Zenon DEF Task, Active, Pending
  <2>5. /\ tasks' \in {tasks, [tasks EXCEPT ![n] = task]}
        /\ row' \in {row, [row EXCEPT !.spent = @ \cup {n}]}
        /\ UNCHANGED <<reserved, up>>
    BY <1>21, Zenon DEF EnqueueTask
  <2> HIDE DEF x, task, n
  <2>6. row.spent \cup {n} \in SUBSET Op
    BY <1>0, <2>3, RowFields
  <2>7. [row EXCEPT !.spent = @ \cup {n}] \in Row
    BY <1>0, <2>6, Zenon DEF Row
  <2> QED BY <1>0, <1>1, <2>1, <2>2, <2>3, <2>4, <2>5, <2>7
<1>22. CASE AdvanceSchedule
  <2> DEFINE n == NextOp
             r == [row EXCEPT !.next = @ \cup {n}, !.spent = @ \ {n}]
  <2>1. co.pc \in due /\ NextState /\ row' = r /\ UNCHANGED <<tasks, reserved, up>>
    BY <1>22 DEF AdvanceSchedule, CoAt
  <2>2. n \in Op
    BY <1>17, <2>1
  <2> HIDE DEF n
  <2>3. row.next \cup {n} \in SUBSET Op /\ row.spent \ {n} \in SUBSET Op
    BY <1>0, <2>2, RowFields
  <2>4. r \in Row
    BY <1>0, <2>3, Zenon DEF Row
  <2> HIDE DEF r
  <2> QED BY <1>0, <1>19, <2>1, <2>4
<1>23. CASE InventoryLeaseExpires
  <2>1. [row EXCEPT !.invLease = "expired"] \in Row
    BY <1>0, RowFields
  <2> QED BY <1>0, <1>23, <2>1 DEF InventoryLeaseExpires, TodoOK
<1> QED BY <1>4, <1>5, <1>6, <1>7, <1>8, <1>9, <1>10, <1>11, <1>12, <1>13, <1>14, <1>15, <1>16,
           <1>18, <1>20, <1>21, <1>22, <1>23 DEF CoordinatorStep

(* What the queue of signals holds after one more, and one less.            *)
LEMMA SignalTypes ==
  ASSUME signals \in Seq(Signal), Len(signals) <= SignalLimit
  PROVE  /\ \A x \in Signal :
              enqueue(x) \in Seq(Signal) /\ Len(enqueue(x)) <= SignalLimit
         /\ <<>> \in Seq(Signal) /\ Len(<<>>) <= SignalLimit
         /\ signals # <<>> =>
              /\ Head(signals) \in Signal
              /\ Tail(signals) \in Seq(Signal) /\ Len(Tail(signals)) <= SignalLimit
<1>1. SignalLimit \in Nat
  BY QueueAssumption
<1>2. ASSUME NEW x \in Signal
      PROVE  enqueue(x) \in Seq(Signal) /\ Len(enqueue(x)) <= SignalLimit
  <2>1. Append(signals, x) \in Seq(Signal) /\ Len(Append(signals, x)) = Len(signals) + 1
        /\ Len(signals) \in Nat
    OBVIOUS
  <2>2. Len(signals) < SignalLimit => Len(signals) + 1 <= SignalLimit
    BY <1>1, <2>1
  <2> QED BY <2>1, <2>2 DEF enqueue
<1>3. <<>> \in Seq(Signal) /\ Len(<<>>) <= SignalLimit
  BY <1>1
<1>4. ASSUME signals # <<>>
      PROVE  /\ Head(signals) \in Signal
             /\ Tail(signals) \in Seq(Signal) /\ Len(Tail(signals)) <= SignalLimit
  <2>1. Head(signals) \in Signal /\ Tail(signals) \in Seq(Signal)
        /\ Len(Tail(signals)) = Len(signals) - 1 /\ Len(signals) \in Nat
    BY <1>4
  <2> QED BY <1>1, <2>1
<1> QED BY <1>2, <1>3, <1>4

(* The steps of the job and its sink.                                       *)
LEMMA JobTypes ==
  ASSUME TypeOK, JobStep
  PROVE  /\ row' \in Row /\ tasks' \in [Op -> Task] /\ reserved' \in BOOLEAN
         /\ job' \in {"off", "starting", "on", "stopping"}
         /\ release' \in {"unbound", "none", "pending"} /\ done' \in BOOLEAN
         /\ head' \in Snapshot /\ signals' \in Seq(Signal) /\ Len(signals') <= SignalLimit
         /\ requests' \in 0 .. MaxRequests
<1>0. /\ row \in Row /\ tasks \in [Op -> Task] /\ reserved \in BOOLEAN /\ done \in BOOLEAN
      /\ job \in {"off", "starting", "on", "stopping"}
      /\ release \in {"unbound", "none", "pending"} /\ head \in Snapshot
      /\ signals \in Seq(Signal) /\ Len(signals) <= SignalLimit
      /\ requests \in 0 .. MaxRequests /\ MaxRequests \in Nat
  BY QueueAssumption DEF TypeOK
<1>1. requests < MaxRequests => requests + 1 \in 0 .. MaxRequests
  BY <1>0
<1>2. CASE JobStart
  BY <1>0, <1>1, <1>2 DEF JobStart
<1>3. CASE JobReserve
  <2>1. [kind |-> "barrier", complete |-> FALSE] \in Signal
    BY DEF Signal
  <2>2. signals' \in Seq(Signal) /\ Len(signals') <= SignalLimit
    BY <1>0, <1>3, <2>1, SignalTypes DEF JobReserve
  <2>3. row' \in Row /\ tasks' \in [Op -> Task] /\ reserved' \in BOOLEAN
    BY <1>0, <1>3, ReleaseTypes DEF JobReserve
  <2> QED BY <1>0, <1>3, <2>2, <2>3 DEF JobReserve
<1>4. CASE StartFailed
  BY <1>0, <1>4 DEF StartFailed
<1>5. CASE JobCommit
  <2>1. head' = head + 1 /\ head + 1 \in Snapshot
    BY <1>0, <1>5, QueueAssumption DEF JobCommit, Snapshot
  <2>2. [kind |-> "commit", snap |-> head + 1, complete |-> done] \in Signal
    BY <1>0, <2>1 DEF Signal
  <2>3. signals' \in Seq(Signal) /\ Len(signals') <= SignalLimit
    BY <1>0, <1>5, <2>1, <2>2, SignalTypes DEF JobCommit
  <2> QED BY <1>0, <1>5, <2>1, <2>3 DEF JobCommit
<1>6. CASE SnapshotComplete
  <2>1. [kind |-> "barrier", complete |-> TRUE] \in Signal
    BY DEF Signal
  <2>2. signals' \in Seq(Signal) /\ Len(signals') <= SignalLimit
    BY <1>0, <1>6, <2>1, SignalTypes DEF SnapshotComplete
  <2> QED BY <1>0, <1>6, <2>2 DEF SnapshotComplete
<1>7. CASE PersistSignal
  <2> DEFINE s == Head(signals)
  <2>1. s \in Signal /\ signals' = Tail(signals) /\ signals # <<>>
    BY <1>0, <1>7, SignalTypes DEF PersistSignal
  <2>2. row' \in {row} \cup (IF s.kind = "commit" THEN CoalesceSignal(row, s)
                             ELSE SetSnapshotCompleteForOwner(row, s.complete))
    BY <1>7 DEF PersistSignal
  <2>3. s.complete \in BOOLEAN
    BY <2>1 DEF Signal
  <2> HIDE DEF s
  <2>4. row' \in Row
    BY <1>0, <2>1, <2>2, <2>3, RowTypes
  <2>5. signals' \in Seq(Signal) /\ Len(signals') <= SignalLimit
    BY <1>0, <2>1, SignalTypes
  <2> QED BY <1>0, <1>7, <2>4, <2>5 DEF PersistSignal
<1>8. CASE JobStop
  BY <1>0, <1>1, <1>8 DEF JobStop
<1>9. CASE JobDrained
  <2>1. signals' \in Seq(Signal) /\ Len(signals') <= SignalLimit
    BY <1>0, <1>9, SignalTypes DEF JobDrained
  <2> QED BY <1>0, <1>9, <2>1 DEF JobDrained
<1>10. CASE JobRelease
  BY <1>0, <1>10, ReleaseTypes DEF JobRelease
<1> QED BY <1>2, <1>3, <1>4, <1>5, <1>6, <1>7, <1>8, <1>9, <1>10 DEF JobStep

(* The requests of users.                                                   *)
LEMMA UserTypes ==
  ASSUME TypeOK, UserStep
  PROVE  /\ row' \in Row /\ tasks' \in [Op -> Task] /\ monitor' \in {"ACTIVE", "PAUSED", "DELETED"}
         /\ requests' \in 0 .. MaxRequests
<1>0. /\ row \in Row /\ tasks \in [Op -> Task] /\ monitor \in {"ACTIVE", "PAUSED", "DELETED"}
      /\ requests \in 0 .. MaxRequests /\ MaxRequests \in Nat
  BY QueueAssumption DEF TypeOK
<1>1. Request => requests' \in 0 .. MaxRequests
  BY <1>0 DEF Request
<1>2. \A ops : CancelPending(tasks, ops) \in [Op -> Task]
  BY <1>0, TaskTypes
<1>3. CASE CreateMonitor
  BY <1>0, <1>1, <1>3 DEF CreateMonitor
<1>4. CASE PauseMonitor
  BY <1>0, <1>1, <1>2, <1>4, RowTypes DEF PauseMonitor
<1>5. CASE ResumeMonitor
  <2>1. [row EXCEPT !.nextInv = TRUE, !.next = Op, !.spent = {}] \in Row
    <3>1. Op \in SUBSET Op /\ {} \in SUBSET Op
      OBVIOUS
    <3> QED BY <1>0, <3>1, Zenon DEF Row
  <2> QED BY <1>0, <1>1, <1>5, <2>1 DEF ResumeMonitor
<1>6. CASE DeleteMonitor
  <2> DEFINE ts == CancelPending(tasks, TasksOf("monitor"))
             gone(o) == [ts[o] EXCEPT !.owner = "deleted-monitor"]
  <2>1. ts \in [Op -> Task]
    BY <1>2
  <2>2. tasks' = [o \in Op |-> IF ts[o].owner = "monitor" THEN gone(o) ELSE ts[o]]
    BY <1>6, Zenon DEF DeleteMonitor
  <2> HIDE DEF ts
  <2>3. ASSUME NEW o \in Op PROVE gone(o) \in Task
    <3>1. ts[o] \in Task /\ "deleted-monitor" \in OwnerType
      BY <2>1 DEF OwnerType
    <3> QED BY <3>1, Zenon DEF Task
  <2> HIDE DEF gone
  <2>4. tasks' \in [Op -> Task]
    BY <2>1, <2>2, <2>3
  <2>5. [NoSchedule(row) EXCEPT !.owner = "deleted-monitor"] \in Row
    BY <1>0, RowTypes DEF OwnerType
  <2> QED BY <1>0, <1>1, <1>6, <2>4, <2>5 DEF DeleteMonitor
<1>7. CASE RequestInventoryRefresh
  BY <1>0, <1>1, <1>7, RowFields DEF RequestInventoryRefresh
<1> QED BY <1>3, <1>4, <1>5, <1>6, <1>7 DEF UserStep

(* One step keeps the types.                                                *)
LEMMA TypeStep == TypeOK /\ TodoOK /\ [Next]_vars => TypeOK' /\ TodoOK'
<1> SUFFICES ASSUME TypeOK, TodoOK, [Next]_vars PROVE TypeOK' /\ TodoOK'
  OBVIOUS
<1> USE DEF jobVars, boundVars
<1>1. CASE \E e \in Executor : ExecutorStep(e)
  <2>1. PICK e \in Executor : ExecutorStep(e)
    BY <1>1
  <2>2. /\ row' \in Row /\ tasks' \in [Op -> Task] /\ head' \in Snapshot
        /\ exec' \in [Executor -> Exec] /\ overran' \in SUBSET Executor
    BY <2>1, ExecutorTypes
  <2>3. UNCHANGED execWorld
    BY <2>1 DEF ExecutorStep, PickTask, ClaimCancels, ClaimTask, ClaimAborts, StartTask,
       RejectTask, StartFails, LoadTable, SaveActiveInventory, CommitMaintenance, StopWorking,
       RenewLease, FinishWork, FinishFails, LeaveTable, LeaseExpires
  <2> QED BY <2>2, <2>3 DEF TypeOK, TodoOK, execWorld
<1>2. CASE CoordinatorStep
  <2>1. /\ row' \in Row /\ tasks' \in [Op -> Task] /\ reserved' \in BOOLEAN
        /\ co' \in Coordinator /\ up' \in BOOLEAN /\ TodoOK'
    BY <1>2, CoordinatorTypes
  <2>2. UNCHANGED coWorld
    BY <1>2 DEF CoordinatorStep, ListJobs, SkipJobs, Reserve, Prune, SeedState, ListMonitors,
       ApplyMonitorDiscovery, RecoverLeases, ClaimInventory, SkipScan, LoadInventory,
       SaveInventory, FinishInventory, ScanFails, DueState, NotDue, EnqueueTask,
       AdvanceSchedule, InventoryLeaseExpires
  <2> QED BY <2>1, <2>2 DEF TypeOK, coWorld
<1>3. CASE JobStep
  <2>1. UNCHANGED jobWorld
    BY <1>3 DEF JobStep, JobStart, JobReserve, StartFailed, JobCommit, SnapshotComplete,
       PersistSignal, JobStop, JobDrained, JobRelease
  <2> QED BY <1>3, <2>1, JobTypes DEF TypeOK, TodoOK, jobWorld
<1>4. CASE UserStep
  <2>1. UNCHANGED userWorld
    BY <1>4 DEF UserStep, CreateMonitor, PauseMonitor, ResumeMonitor, DeleteMonitor,
       RequestInventoryRefresh
  <2> QED BY <1>4, <2>1, UserTypes DEF TypeOK, TodoOK, userWorld
<1>5. CASE Crash \/ Shutdown \/ Restart
  <2>1. exits < MaxExits /\ exits \in 0 .. MaxExits => exits + 1 \in 0 .. MaxExits
    BY QueueAssumption
  <2>2. [e \in Executor |-> Idle] \in [Executor -> Exec] /\ Asleep \in Coordinator
        /\ Asleep.pc = "sleep"
    BY ConstantTypes DEF Asleep
  <2> QED BY <1>5, <2>1, <2>2 DEF Crash, Shutdown, Restart, WorkerExits, exitWorld, TypeOK, TodoOK
<1>6. CASE UNCHANGED vars
  BY <1>6 DEF vars, TypeOK, TodoOK
<1> QED BY <1>1, <1>2, <1>3, <1>4, <1>5, <1>6 DEF Next

(* The state before anything runs.                                          *)
LEMMA InitTypes == Init => TypeOK /\ TodoOK
<1> SUFFICES ASSUME Init PROVE TypeOK /\ TodoOK
  OBVIOUS
<1>1. row \in Row
  <2>1. 0 \in Snapshot /\ "unmanaged" \in OwnerType
    BY ConstantTypes DEF OwnerType
  <2> QED BY <2>1 DEF Init, Row
<1>2. /\ tasks \in [Op -> Task] /\ exec \in [Executor -> Exec] /\ co \in Coordinator
      /\ co.pc = "sleep" /\ head \in Snapshot
  BY ConstantTypes DEF Init, Asleep
<1>3. signals \in Seq(Signal) /\ Len(signals) <= SignalLimit
  BY QueueAssumption DEF Init
<1>4. requests \in 0 .. MaxRequests /\ exits \in 0 .. MaxExits
  <2>1. MaxRequests \in Nat /\ MaxExits \in Nat /\ requests = 0 /\ exits = 0
    BY QueueAssumption DEF Init
  <2> QED BY <2>1
<1>5. TodoOK
  BY <1>2 DEF TodoOK
<1>6. /\ reserved \in BOOLEAN /\ done \in BOOLEAN /\ up \in BOOLEAN
      /\ monitor \in {"ACTIVE", "PAUSED", "DELETED"}
      /\ job \in {"off", "starting", "on", "stopping"}
      /\ release \in {"unbound", "none", "pending"} /\ overran \in SUBSET Executor
  BY DEF Init
<1> QED BY <1>1, <1>2, <1>3, <1>4, <1>5, <1>6, Zenon DEF TypeOK

(* TypeOK is an invariant: every field of the state row, of a task, of an   *)
(* executor and of the coordinator has the values that its column or        *)
(* variable can have in the code, and the signal channel keeps its          *)
(* capacity.                                                                *)
THEOREM TypeCorrect == Spec => []TypeOK
<1>1. TypeOK /\ TodoOK /\ [Next]_vars => TypeOK' /\ TodoOK'
  BY TypeStep
<1>2. Init => TypeOK /\ TodoOK
  BY InitTypes
<1> QED BY <1>1, <1>2, PTL DEF Spec

-----------------------------------------------------------------------------
(* What a statement on the row leaves alone *)

KeepsLeases(q, r) ==
  q.lease = r.lease /\ q.live = r.live /\ q.invLease = r.invLease
KeepsSnapshots(q, r) == q.inv = r.inv /\ q.last = r.last
Keeps(q, r) == KeepsLeases(q, r) /\ KeepsSnapshots(q, r) /\ q.owner = r.owner

(* The statements that write only schedules, the owner or the barrier.      *)
LEMMA RowFrames ==
  ASSUME NEW r \in Row
  PROVE  /\ Keeps(NoSchedule(r), r)
         /\ NoSchedule(r).nextInv = FALSE
         /\ \A t : /\ KeepsLeases([NoSchedule(r) EXCEPT !.owner = t], r)
                   /\ KeepsSnapshots([NoSchedule(r) EXCEPT !.owner = t], r)
                   /\ [NoSchedule(r) EXCEPT !.owner = t].owner = t
         /\ \A q \in PullCompaction(r) : Keeps(q, r) /\ q.nextInv = r.nextInv
         /\ \A ts : \A q \in ScheduleCompactionCheck(r, ts) :
              Keeps(q, r) /\ q.nextInv = r.nextInv
         /\ \A c \in BOOLEAN : \A q \in SetSnapshotCompleteForOwner(r, c) :
              Keeps(q, r) /\ q.nextInv = r.nextInv
         /\ \A c \in BOOLEAN :
              /\ KeepsLeases(UpsertState(r, c), r) /\ KeepsSnapshots(UpsertState(r, c), r)
              /\ UpsertState(r, c).owner = "job"
              /\ r.nextInv => UpsertState(r, c).nextInv
<1>1. ASSUME NEW q \in Row
      PROVE /\ Keeps(NoSchedule(q), q) /\ NoSchedule(q).nextInv = FALSE
            /\ NoSchedule(q) \in Row
  <2>1. NoSchedule(q) \in Row
    BY RowTypes
  <2>2. Keeps(NoSchedule(q), q) /\ NoSchedule(q).nextInv = FALSE
    BY Zenon DEF NoSchedule, Row, Keeps, KeepsLeases, KeepsSnapshots
  <2> QED BY <2>1, <2>2
<1>2. ASSUME NEW t
      PROVE  /\ KeepsLeases([NoSchedule(r) EXCEPT !.owner = t], r)
             /\ KeepsSnapshots([NoSchedule(r) EXCEPT !.owner = t], r)
             /\ [NoSchedule(r) EXCEPT !.owner = t].owner = t
  <2> DEFINE q == NoSchedule(r)
  <2>1. q \in Row /\ Keeps(q, r)
    BY <1>1
  <2> HIDE DEF q
  <2>2. KeepsLeases([q EXCEPT !.owner = t], q) /\ KeepsSnapshots([q EXCEPT !.owner = t], q)
        /\ [q EXCEPT !.owner = t].owner = t
    BY <2>1, Zenon DEF Row, KeepsLeases, KeepsSnapshots
  <2> QED BY <2>1, <2>2, Zenon DEF q, Keeps, KeepsLeases, KeepsSnapshots
<1>3. ASSUME NEW p \in Row, NEW q \in PullCompaction(p)
      PROVE  Keeps(q, p) /\ q.nextInv = p.nextInv
  <2>1. CASE q = p
    BY <2>1 DEF Keeps, KeepsLeases, KeepsSnapshots
  <2>2. CASE q = [p EXCEPT !.next = @ \cup {"compact"}, !.spent = @ \ {"compact"}]
    BY <2>2, Zenon DEF Row, Keeps, KeepsLeases, KeepsSnapshots
  <2> QED BY <2>1, <2>2 DEF PullCompaction
<1>4. ASSUME NEW ts, NEW q \in ScheduleCompactionCheck(r, ts)
      PROVE  Keeps(q, r) /\ q.nextInv = r.nextInv
  <2>1. q = r \/ q \in PullCompaction(r)
    BY <1>4 DEF ScheduleCompactionCheck
  <2> QED BY <1>3, <2>1 DEF Keeps, KeepsLeases, KeepsSnapshots
<1>5. ASSUME NEW c \in BOOLEAN, NEW q \in SetSnapshotCompleteForOwner(r, c)
      PROVE  Keeps(q, r) /\ q.nextInv = r.nextInv
  <2> DEFINE s == [r EXCEPT !.complete = c]
  <2>1. s \in Row
    BY RowFields
  <2>2. Keeps(s, r) /\ s.nextInv = r.nextInv
    BY Zenon DEF Row, Keeps, KeepsLeases, KeepsSnapshots
  <2> HIDE DEF s
  <2>3. \A p \in PullCompaction(s) : Keeps(p, s) /\ p.nextInv = s.nextInv
    BY <1>3, <2>1
  <2>4. q \in {r, s} \cup PullCompaction(s)
    BY DEF SetSnapshotCompleteForOwner, s
  <2> QED BY <2>2, <2>3, <2>4 DEF Keeps, KeepsLeases, KeepsSnapshots
<1>6. ASSUME NEW c \in BOOLEAN
      PROVE  /\ KeepsLeases(UpsertState(r, c), r) /\ KeepsSnapshots(UpsertState(r, c), r)
             /\ UpsertState(r, c).owner = "job"
             /\ r.nextInv => UpsertState(r, c).nextInv
  <2> DEFINE a == r.complete \/ c
             b == r.nextInv \/ r.inv = 0
             q == [r EXCEPT !.owner = "job", !.complete = a, !.nextInv = b, !.next = Op]
  <2>1. UpsertState(r, c) = q /\ (r.nextInv => b)
    BY Zenon DEF UpsertState, Row
  <2> HIDE DEF a, b
  <2>2. KeepsLeases(q, r) /\ KeepsSnapshots(q, r) /\ q.owner = "job" /\ q.nextInv = b
    BY Zenon DEF Row, KeepsLeases, KeepsSnapshots
  <2> QED BY <2>1, <2>2
<1> QED BY <1>1, <1>2, <1>3, <1>4, <1>5, <1>6

(* A commit's signal writes the last snapshot and may ask for an inventory. *)
LEMMA CoalesceFrames ==
  ASSUME NEW r \in Row, NEW s \in Signal, s.kind = "commit",
         NEW q \in CoalesceSignal(r, s)
  PROVE  /\ KeepsLeases(q, r) /\ q.inv = r.inv /\ q.owner = r.owner
         /\ q.last \in {r.last, s.snap}
         /\ r.nextInv => q.nextInv
<1> DEFINE changed == s.snap # 0 /\ s.snap # r.last
           complete == r.complete \/ s.complete
           last == IF changed THEN s.snap ELSE r.last
           next == r.nextInv \/ (changed /\ complete)
           seen == [r EXCEPT !.complete = complete, !.last = last, !.nextInv = next]
<1>1. seen \in Row
  <2>1. s.snap \in Snapshot /\ s.complete \in BOOLEAN
    BY DEF Signal
  <2>2. last \in Snapshot /\ complete \in BOOLEAN /\ next \in BOOLEAN
    BY <2>1, RowFields
  <2> HIDE DEF complete, last, next
  <2> QED BY <2>2, Zenon DEF Row
<1>2. q \in {seen} \cup PullCompaction(seen)
  <2>1. seen = [r EXCEPT !.complete = complete,
                         !.last = IF changed THEN s.snap ELSE @,
                         !.nextInv = @ \/ (changed /\ complete)]
    BY Zenon DEF Row
  <2> QED BY <2>1, Zenon DEF CoalesceSignal
<1>3. last \in {r.last, s.snap} /\ (r.nextInv => next)
  OBVIOUS
<1> HIDE DEF complete, last, next
<1>4. /\ KeepsLeases(seen, r) /\ seen.inv = r.inv /\ seen.owner = r.owner
      /\ seen.last = last /\ seen.nextInv = next
  BY Zenon DEF Row, KeepsLeases
<1> HIDE DEF seen
<1>5. Keeps(q, seen) /\ q.nextInv = seen.nextInv
  <2>1. CASE q = seen
    BY <2>1 DEF Keeps, KeepsLeases, KeepsSnapshots
  <2>2. CASE q \in PullCompaction(seen)
    BY <1>1, <2>2, RowFrames
  <2> QED BY <1>2, <2>1, <2>2
<1> QED BY <1>3, <1>4, <1>5 DEF Keeps, KeepsLeases, KeepsSnapshots

\* A request for an inventory stays as long as the owner stays.
KeepsRequest(q, r) ==
  r.nextInv /\ OwnerId(q.owner) = OwnerId(r.owner) => q.nextInv
Frame(q, r) == KeepsLeases(q, r) /\ KeepsSnapshots(q, r) /\ KeepsRequest(q, r)

(* The statements on the reservation and on the owner.                      *)
LEMMA StatementFrames ==
  ASSUME row \in Row
  PROVE  /\ SyncMaintenanceReservations =>
              /\ Frame(row', row)
              /\ row'.owner = IF row.owner \in {"monitor", "unmanaged"}
                              THEN "streaming" ELSE row.owner
         /\ \A c : FreeRow(c) =>
              Frame(row', row) /\ row'.owner \in {row.owner, "unmanaged"}
         /\ reconcileMonitorTargetOwnership =>
              /\ Frame(row', row)
              /\ row'.owner \in {row.owner, "monitor", "streaming"}
              /\ row'.owner = "streaming" /\ row.owner # "streaming" => ~row.live
         /\ \A c \in BOOLEAN : Frame(UpsertState(row, c), row)
         /\ \A t : t # OwnerId(row.owner) /\ t # "streaming" =>
              Frame([NoSchedule(row) EXCEPT !.owner = t], row)
<1> DEFINE freed(t) == [NoSchedule(row) EXCEPT !.owner = t]
<1>1. ASSUME NEW t
      PROVE  /\ KeepsLeases(freed(t), row) /\ KeepsSnapshots(freed(t), row)
             /\ freed(t).owner = t
             /\ OwnerId(t) # OwnerId(row.owner) => Frame(freed(t), row)
  BY RowFrames DEF Frame, KeepsRequest
<1>2. Frame(row, row)
  BY DEF Frame, KeepsLeases, KeepsSnapshots, KeepsRequest
<1>3. ASSUME SyncMaintenanceReservations
      PROVE  /\ Frame(row', row)
             /\ row'.owner = IF row.owner \in {"monitor", "unmanaged"}
                             THEN "streaming" ELSE row.owner
  <2>1. CASE row.owner \in {"monitor", "unmanaged"}
    <3> DEFINE q == freed("streaming")
               p == [NoSchedule(row) EXCEPT !.owner = "streaming", !.complete = FALSE]
    <3>1. row' = p
      BY <1>3, <2>1, Zenon DEF SyncMaintenanceReservations
    <3>2. /\ KeepsLeases(q, row) /\ KeepsSnapshots(q, row) /\ q.owner = "streaming"
      BY <1>1
    <3>3. NoSchedule(row) \in Row
      BY RowTypes
    <3>4. /\ p.lease = q.lease /\ p.live = q.live /\ p.invLease = q.invLease
          /\ p.inv = q.inv /\ p.last = q.last /\ p.owner = q.owner
      BY <3>3, Zenon DEF Row
    <3> HIDE DEF p, q
    <3>5. OwnerId("streaming") # OwnerId(row.owner)
      BY <2>1 DEF OwnerId
    <3>6. Frame(row', row) /\ row'.owner = "streaming"
      BY <3>1, <3>2, <3>4, <3>5 DEF Frame, KeepsLeases, KeepsSnapshots, KeepsRequest
    <3> QED BY <2>1, <3>6
  <2>2. CASE row.owner \notin {"monitor", "unmanaged"}
    <3>1. row' = row
      BY <1>3, <2>2 DEF SyncMaintenanceReservations
    <3> QED BY <1>2, <2>2, <3>1
  <2> QED BY <2>1, <2>2
<1>4. ASSUME NEW c, FreeRow(c)
      PROVE  Frame(row', row) /\ row'.owner \in {row.owner, "unmanaged"}
  <2>1. CASE OwnedBy("job")
    <3>1. row' = freed("unmanaged") /\ OwnerId("unmanaged") # OwnerId(row.owner)
      BY <1>4, <2>1, Zenon DEF FreeRow, OwnedBy, OwnerId
    <3> HIDE DEF freed
    <3> QED BY <1>1, <3>1
  <2>2. CASE ~OwnedBy("job")
    <3>1. row' = row
      BY <1>4, <2>2 DEF FreeRow
    <3> QED BY <1>2, <3>1
  <2> QED BY <2>1, <2>2
<1>5. ASSUME reconcileMonitorTargetOwnership
      PROVE  /\ Frame(row', row)
             /\ row'.owner \in {row.owner, "monitor", "streaming"}
             /\ row'.owner = "streaming" /\ row.owner # "streaming" => ~row.live
  <2> DEFINE gives == row.owner = "monitor" /\ ~row.live /\ reserved
             taken == [row EXCEPT !.owner = "monitor", !.complete = TRUE,
                                  !.nextInv = TRUE, !.next = Op]
  <2>1. row' = IF MonitorMayTake THEN taken
               ELSE IF gives THEN freed("streaming") ELSE row
    BY <1>5, Zenon DEF reconcileMonitorTargetOwnership
  <2>2. Frame(taken, row) /\ taken.owner = "monitor"
    <3>1. KeepsLeases(taken, row) /\ KeepsSnapshots(taken, row) /\ taken.nextInv = TRUE
          /\ taken.owner = "monitor"
      BY Zenon DEF Row, KeepsLeases, KeepsSnapshots
    <3> HIDE DEF taken
    <3> QED BY <3>1 DEF Frame, KeepsRequest
  <2>3. gives => /\ Frame(freed("streaming"), row)
                 /\ freed("streaming").owner = "streaming" /\ ~row.live
    <3>1. gives => OwnerId("streaming") # OwnerId(row.owner)
      BY DEF OwnerId
    <3> HIDE DEF freed
    <3> QED BY <1>1, <3>1
  <2> HIDE DEF taken, freed
  <2> QED BY <1>2, <2>1, <2>2, <2>3
<1>6. ASSUME NEW c \in BOOLEAN PROVE Frame(UpsertState(row, c), row)
  BY RowFrames, Zenon DEF Frame, KeepsRequest
<1>7. ASSUME NEW t, t # OwnerId(row.owner), t # "streaming"
      PROVE  Frame([NoSchedule(row) EXCEPT !.owner = t], row)
  <2>1. OwnerId(t) # OwnerId(row.owner)
    BY <1>7 DEF OwnerId
  <2> QED BY <1>1, <2>1
<1> QED BY <1>3, <1>4, <1>5, <1>6, <1>7

(* The job and its sink touch no lease and no inventory.                    *)
LEMMA JobFrames ==
  ASSUME TypeOK, JobStep
  PROVE  /\ KeepsLeases(row', row) /\ row'.inv = row.inv /\ KeepsRequest(row', row)
         /\ ~PersistSignal => row'.last = row.last
         /\ ~JobReserve => row'.owner \in {row.owner, "unmanaged"}
<1>0. row \in Row /\ signals \in Seq(Signal) /\ Len(signals) <= SignalLimit
  BY DEF TypeOK
<1>1. CASE row' = row
  BY <1>1 DEF KeepsLeases, KeepsRequest
<1>2. CASE JobReserve
  BY <1>0, <1>2, StatementFrames DEF JobReserve, Frame, KeepsSnapshots
<1>3. CASE JobRelease
  <2>1. row' = row \/ ReleaseMaintenanceReservations
    BY <1>3 DEF JobRelease
  <2> QED BY <1>0, <1>1, <2>1, StatementFrames
          DEF ReleaseMaintenanceReservations, Frame, KeepsSnapshots
<1>4. CASE PersistSignal
  <2> DEFINE s == Head(signals)
  <2>1. s \in Signal
    BY <1>0, <1>4, SignalTypes DEF PersistSignal
  <2>2. \/ row' = row
        \/ s.kind = "commit" /\ row' \in CoalesceSignal(row, s)
        \/ row' \in SetSnapshotCompleteForOwner(row, s.complete)
    BY <1>4 DEF PersistSignal
  <2>3. s.complete \in BOOLEAN
    BY <2>1 DEF Signal
  <2> HIDE DEF s
  <2>4. CASE s.kind = "commit" /\ row' \in CoalesceSignal(row, s)
    BY <1>0, <1>4, <2>1, <2>4, CoalesceFrames DEF KeepsRequest
  <2>5. CASE row' \in SetSnapshotCompleteForOwner(row, s.complete)
    <3>1. Keeps(row', row) /\ row'.nextInv = row.nextInv
      BY <1>0, <2>3, <2>5, RowFrames
    <3> QED BY <1>4, <3>1 DEF Keeps, KeepsSnapshots, KeepsRequest
  <2> QED BY <1>1, <2>2, <2>4, <2>5
<1>5. row' = row \/ JobReserve \/ JobRelease \/ PersistSignal
  BY DEF JobStep, JobStart, StartFailed, JobCommit, SnapshotComplete, JobStop, JobDrained
<1> QED BY <1>1, <1>2, <1>3, <1>4, <1>5

(* Nor do the requests of users.                                            *)
LEMMA UserFrames ==
  ASSUME TypeOK, UserStep
  PROVE  /\ KeepsLeases(row', row) /\ KeepsSnapshots(row', row)
         /\ monitor' = monitor => KeepsRequest(row', row)
         /\ row'.owner \in {row.owner, "deleted-monitor"}
<1>0. row \in Row
  BY DEF TypeOK
<1>1. CASE row' = row
  BY <1>1 DEF KeepsLeases, KeepsSnapshots, KeepsRequest
<1>2. CASE PauseMonitor
  <2>1. row' = row \/ row' = NoSchedule(row)
    BY <1>2 DEF PauseMonitor
  <2>2. Keeps(NoSchedule(row), row)
    BY <1>0, RowFrames
  <2> QED BY <1>1, <1>2, <2>1, <2>2 DEF PauseMonitor, Keeps
<1>3. CASE ResumeMonitor
  <2> DEFINE q == [row EXCEPT !.nextInv = TRUE, !.next = Op, !.spent = {}]
  <2>1. row' = row \/ row' = q
    BY <1>3 DEF ResumeMonitor
  <2>2. KeepsLeases(q, row) /\ KeepsSnapshots(q, row) /\ q.owner = row.owner
    BY <1>0, Zenon DEF Row, KeepsLeases, KeepsSnapshots
  <2> HIDE DEF q
  <2> QED BY <1>1, <1>3, <2>1, <2>2 DEF ResumeMonitor
<1>4. CASE DeleteMonitor
  <2> DEFINE q == [NoSchedule(row) EXCEPT !.owner = "deleted-monitor"]
  <2>1. row' = row \/ row' = q
    BY <1>4 DEF DeleteMonitor
  <2>2. KeepsLeases(q, row) /\ KeepsSnapshots(q, row) /\ q.owner = "deleted-monitor"
    BY <1>0, RowFrames
  <2> HIDE DEF q
  <2> QED BY <1>1, <1>4, <2>1, <2>2 DEF DeleteMonitor
<1>5. CASE RequestInventoryRefresh
  <2>1. row' = [row EXCEPT !.nextInv = TRUE]
    BY <1>5 DEF RequestInventoryRefresh
  <2> QED BY <1>0, <2>1 DEF Row, KeepsLeases, KeepsSnapshots, KeepsRequest
<1>6. row' = row \/ PauseMonitor \/ ResumeMonitor \/ DeleteMonitor \/ RequestInventoryRefresh
  BY DEF UserStep, CreateMonitor
<1> QED BY <1>1, <1>2, <1>3, <1>4, <1>5, <1>6

\* The coordinator's steps that write a lease or the inventory.
ScanStep ==
  ClaimInventory \/ SaveInventory \/ FinishInventory \/ ScanFails \/ InventoryLeaseExpires

(* The coordinator's other steps leave leases and inventory alone; only the *)
(* recovery of leases forgets the holder of one that has expired.           *)
LEMMA CoordinatorFrames ==
  ASSUME TypeOK, CoordinatorStep, ~ScanStep
  PROVE  /\ row'.live = row.live /\ row'.invLease = row.invLease
         /\ row.live => row'.lease = row.lease
         /\ KeepsSnapshots(row', row) /\ KeepsRequest(row', row)
         /\ co'.pc \notin ScanAt \/ LoadInventory
<1>0. row \in Row /\ co \in Coordinator /\ done \in BOOLEAN
  BY DEF TypeOK
<1> DEFINE Q == /\ row'.live = row.live /\ row'.invLease = row.invLease
                /\ row.live => row'.lease = row.lease
                /\ KeepsSnapshots(row', row) /\ KeepsRequest(row', row)
           P == co'.pc \notin ScanAt
<1>1. Frame(row', row) => Q
  BY DEF Frame, KeepsLeases
<1>2. row' = row => Q
  BY DEF KeepsSnapshots, KeepsRequest
<1>3. \A pc \in CoPc : CoGoto(pc) => co'.pc = pc
  BY <1>0, Zenon DEF CoGoto, Coordinator
<1>4. WorkerExits => P
  BY DEF WorkerExits, Asleep, ScanAt
<1>5. NextState => P
  <2> DEFINE pc == IF co.todo = {NextOp} THEN "sleep" ELSE "due"
  <2>1. NextState => co'.pc = pc
    BY <1>0, Zenon DEF NextState, Coordinator
  <2> QED BY <2>1 DEF ScanAt
<1> HIDE DEF Q
<1>6. CASE ListJobs
  <2>1. co'.pc = "reserve"
    BY <1>0, <1>6, Zenon DEF ListJobs, Coordinator
  <2> QED BY <1>2, <1>6, <2>1 DEF ListJobs, ScanAt, Q
<1>7. CASE SkipJobs
  BY <1>2, <1>3, <1>7 DEF SkipJobs, ScanAt, CoPc, Q
<1>8. CASE Reserve
  BY <1>0, <1>1, <1>2, <1>3, <1>4, <1>8, StatementFrames DEF Reserve, ScanAt, CoPc, Q
<1>9. CASE Prune
  <2>1. row' = row \/ \E c : FreeRow(c)
    BY <1>9 DEF Prune, ReleaseMaintenanceReservationsExcept
  <2> QED BY <1>0, <1>1, <1>2, <1>3, <1>9, <2>1, StatementFrames DEF Prune, ScanAt, CoPc, Q
<1>10. CASE SeedState
  BY <1>0, <1>1, <1>2, <1>3, <1>10, StatementFrames DEF SeedState, ScanAt, CoPc, Q
<1>11. CASE ListMonitors
  <2>1. PICK pc \in {"discover", "recover"} :
          co' = [co EXCEPT !.active = monitor = "ACTIVE", !.pc = pc,
                           !.started = @ \/ pc = "recover"]
    BY <1>11, Zenon DEF ListMonitors
  <2> DEFINE b == monitor = "ACTIVE"
             s == co.started \/ pc = "recover"
             x == [co EXCEPT !.active = b, !.pc = pc, !.started = s]
  <2>2. co' = x
    BY <1>0, <2>1, Zenon DEF Coordinator
  <2> HIDE DEF b, s
  <2>3. x.pc = pc
    BY <1>0, Zenon DEF Coordinator
  <2> QED BY <1>2, <1>11, <2>2, <2>3 DEF ListMonitors, ScanAt, Q
<1>12. CASE ApplyMonitorDiscovery
  <2>1. CASE reconcileMonitorTargetOwnership
             /\ co' = [co EXCEPT !.pc = "recover", !.started = TRUE]
    <3>1. co'.pc = "recover"
      BY <1>0, <2>1, Zenon DEF Coordinator
    <3> QED BY <1>0, <1>1, <2>1, <3>1, StatementFrames DEF ScanAt, Q
  <2> QED BY <1>2, <1>4, <1>12, <2>1 DEF ApplyMonitorDiscovery, Q
<1>13. CASE RecoverLeases
  <2>1. co'.pc = "scan"
    BY <1>3, <1>13 DEF RecoverLeases, CoPc
  <2>2. row' = IF row.live THEN row ELSE [row EXCEPT !.lease = NoOne]
    BY <1>13, Zenon DEF RecoverLeases, RecoverExpiredMaintenanceLeases
  <2>3. /\ row'.live = row.live /\ row'.invLease = row.invLease
        /\ row.live => row'.lease = row.lease
        /\ row'.inv = row.inv /\ row'.last = row.last /\ row'.nextInv = row.nextInv
    BY <1>0, <2>2 DEF Row
  <2> QED BY <2>1, <2>3 DEF ScanAt, KeepsSnapshots, KeepsRequest
<1>14. CASE SkipScan
  <2>1. co'.pc = "due"
    BY <1>0, <1>14, Zenon DEF SkipScan, Coordinator
  <2> QED BY <1>2, <1>14, <2>1 DEF SkipScan, ScanAt, Q
<1>15. CASE LoadInventory
  BY <1>2, <1>15 DEF LoadInventory, Q
<1>16. CASE DueState
  <2>1. co'.pc = "insert"
    BY <1>0, <1>16, Zenon DEF DueState, Coordinator
  <2> QED BY <1>2, <1>16, <2>1 DEF DueState, ScanAt, Q
<1>17. CASE NotDue
  BY <1>2, <1>5, <1>17 DEF NotDue, Q
<1>18. CASE EnqueueTask
  <2> DEFINE q == [row EXCEPT !.spent = @ \cup {NextOp}]
  <2>1. Frame(q, row)
    BY <1>0 DEF Row, Frame, KeepsLeases, KeepsSnapshots, KeepsRequest
  <2>2. row' \in {row, q}
    BY <1>18 DEF EnqueueTask
  <2> HIDE DEF q
  <2> QED BY <1>1, <1>2, <1>3, <1>18, <2>1, <2>2 DEF EnqueueTask, ScanAt, CoPc, Q
<1>19. CASE AdvanceSchedule
  <2> DEFINE q == [row EXCEPT !.next = @ \cup {NextOp}, !.spent = @ \ {NextOp}]
  <2>1. KeepsLeases(q, row) /\ KeepsSnapshots(q, row) /\ q.nextInv = row.nextInv
    BY <1>0, Zenon DEF Row, KeepsLeases, KeepsSnapshots
  <2>2. row' = q
    BY <1>19, Zenon DEF AdvanceSchedule
  <2> HIDE DEF q
  <2>3. Frame(q, row)
    BY <2>1 DEF Frame, KeepsRequest
  <2> QED BY <1>1, <1>5, <1>19, <2>2, <2>3 DEF AdvanceSchedule, Q
<1> QED BY <1>6, <1>7, <1>8, <1>9, <1>10, <1>11, <1>12, <1>13, <1>14, <1>15, <1>16, <1>17,
           <1>18, <1>19 DEF CoordinatorStep, ScanStep, Q

(* The steps of a scan.                                                     *)
LEMMA ScanFrames ==
  ASSUME TypeOK, ScanStep
  PROVE  /\ row'.lease = row.lease /\ row'.live = row.live /\ row'.owner = row.owner
         /\ row'.last = row.last
         /\ \/ /\ ClaimInventory /\ ~row.live /\ row'.inv = row.inv /\ row'.nextInv
               /\ row'.invLease = "live" /\ co'.pc = "load" /\ co'.claimed = row.last
            \/ /\ SaveInventory /\ row'.invLease = row.invLease /\ row'.inv = co.read
               /\ row'.nextInv = row.nextInv /\ co.pc = "save" /\ co'.pc = "finish"
               /\ co'.claimed = co.claimed
            \/ /\ FinishInventory /\ row'.inv = row.inv
               /\ row'.nextInv = (row.last # co.claimed)
               /\ co.pc = "finish" /\ co'.pc = "due"
            \/ /\ ScanFails /\ row'.inv = row.inv /\ (row.nextInv => row'.nextInv)
               /\ co'.pc = "due"
            \/ /\ InventoryLeaseExpires /\ row'.inv = row.inv
               /\ row'.nextInv = row.nextInv /\ co' = co
<1>0. row \in Row /\ co \in Coordinator
  BY DEF TypeOK
<1>1. CASE ClaimInventory
  <2>1. row' = [row EXCEPT !.invLease = "live", !.nextInv = TRUE]
        /\ co' = [co EXCEPT !.pc = "load", !.claimed = row.last] /\ ~row.live
    BY <1>1, Zenon DEF ClaimInventory
  <2>2. /\ row'.lease = row.lease /\ row'.live = row.live /\ row'.owner = row.owner
        /\ row'.last = row.last /\ row'.inv = row.inv /\ row'.nextInv = TRUE
        /\ row'.invLease = "live"
    BY <1>0, <2>1, Zenon DEF Row
  <2>3. co'.pc = "load" /\ co'.claimed = row.last
    BY <1>0, <2>1, Zenon DEF Coordinator
  <2> QED BY <1>1, <2>1, <2>2, <2>3
<1>2. CASE SaveInventory
  <2> DEFINE saved == [row EXCEPT !.inv = co.read]
  <2>1. row' \in {saved} \cup ScheduleCompactionCheck(saved, tasks)
        /\ co' = [co EXCEPT !.pc = "finish", !.read = 0] /\ co.pc = "save"
    BY <1>2, Zenon DEF SaveInventory, CoAt
  <2>2. saved \in Row
    BY <1>0, RowFields, CoFields
  <2>3. /\ KeepsLeases(saved, row) /\ saved.owner = row.owner /\ saved.last = row.last
        /\ saved.inv = co.read /\ saved.nextInv = row.nextInv
    BY <1>0, Zenon DEF Row, KeepsLeases
  <2> HIDE DEF saved
  <2>4. Keeps(row', saved) /\ row'.nextInv = saved.nextInv
    <3>1. CASE row' = saved
      BY <3>1 DEF Keeps, KeepsLeases, KeepsSnapshots
    <3>2. CASE row' \in ScheduleCompactionCheck(saved, tasks)
      <4>1. \A q \in ScheduleCompactionCheck(saved, tasks) :
              Keeps(q, saved) /\ q.nextInv = saved.nextInv
        BY <2>2, RowFrames, Zenon
      <4> QED BY <3>2, <4>1
    <3> QED BY <2>1, <3>1, <3>2
  <2>5. co'.pc = "finish" /\ co'.claimed = co.claimed
    BY <1>0, <2>1, Zenon DEF Coordinator
  <2> QED BY <1>2, <2>1, <2>3, <2>4, <2>5 DEF Keeps, KeepsLeases, KeepsSnapshots
<1>3. CASE FinishInventory
  <2>1. row' = FinishInventoryClaim(row, co.claimed) /\ co.pc = "finish"
        /\ co' = [co EXCEPT !.pc = "due", !.todo = Op, !.claimed = 0, !.read = 0]
    BY <1>3, Zenon DEF FinishInventory, CoAt
  <2> DEFINE b == row.last # co.claimed
             q == [row EXCEPT !.invLease = "none", !.nextInv = b]
  <2>2. row' = q
    BY <2>1, Zenon DEF FinishInventoryClaim
  <2> HIDE DEF b
  <2>3. /\ q.lease = row.lease /\ q.live = row.live /\ q.owner = row.owner
        /\ q.last = row.last /\ q.inv = row.inv /\ q.nextInv = b
    BY <1>0, Zenon DEF Row
  <2>4. co'.pc = "due"
    BY <1>0, <2>1, Zenon DEF Coordinator
  <2> HIDE DEF q
  <2> QED BY <1>3, <2>1, <2>2, <2>3, <2>4 DEF b
<1>4. CASE ScanFails
  <2> DEFINE q == RetryInventoryClaim(row)
  <2>1. row' \in {row, q}
        /\ co' = [co EXCEPT !.pc = "due", !.todo = Op, !.claimed = 0, !.read = 0]
    BY <1>4, Zenon DEF ScanFails
  <2>2. /\ q.lease = row.lease /\ q.live = row.live /\ q.owner = row.owner
        /\ q.last = row.last /\ q.inv = row.inv /\ q.nextInv = TRUE
    BY <1>0, Zenon DEF RetryInventoryClaim, Row
  <2>3. co'.pc = "due"
    BY <1>0, <2>1, Zenon DEF Coordinator
  <2> HIDE DEF q
  <2> QED BY <1>4, <2>1, <2>2, <2>3
<1>5. CASE InventoryLeaseExpires
  <2>1. row' = [row EXCEPT !.invLease = "expired"] /\ co' = co
    BY <1>5 DEF InventoryLeaseExpires
  <2>2. /\ row'.lease = row.lease /\ row'.live = row.live /\ row'.owner = row.owner
        /\ row'.last = row.last /\ row'.inv = row.inv /\ row'.nextInv = row.nextInv
    BY <1>0, <2>1 DEF Row
  <2> QED BY <1>5, <2>1, <2>2
<1> QED BY <1>1, <1>2, <1>3, <1>4, <1>5 DEF ScanStep

\* What a step of an executor other than a claim may do to the table's lease.
LeaseFrame(e) ==
  /\ \A f \in Executor \ {e} : row.lease = f => row'.lease = f /\ row'.live = row.live
  /\ Busy(e)' => Busy(e) /\ exec'[e].owner = exec[e].owner
  /\ Holding(e)' => /\ Holding(e)
                    /\ row.lease = e /\ row.live => row'.lease = e /\ row'.live
  /\ \A f \in Executor \ {e} : f \in overran' <=> f \in overran
  /\ e \in overran' => e \in overran \/ ~Timely

\* What a claim does to it.
ClaimFrame(e) ==
  /\ ~row.live /\ row.invLease # "live" /\ row'.lease = e /\ row'.live
  /\ exec[e].pc = "picked" /\ exec'[e].pc = "claimed"
  /\ exec'[e].owner = exec[e].owner /\ ~OwnerMismatch(e) /\ overran' = overran

\* What an executor may have picked, and read.
PickFrame(e) ==
  exec'[e].pc = "picked" =>
    \/ exec'[e] = exec[e]
    \/ /\ tasks[OpOf[e]].status \in Active /\ tasks[OpOf[e]].owner # "deleted-monitor"
       /\ exec'[e].owner = tasks[OpOf[e]].owner
ReadFrame(e) ==
  exec'[e].pc \in {"save", "resave"} => exec'[e] = exec[e] \/ exec'[e].snap = head

\* What it writes beside the lease.
WriteFrame(e) ==
  /\ row'.invLease = row.invLease /\ row'.owner = row.owner /\ row'.last = row.last
  /\ row'.nextInv = row.nextInv
  /\ \/ row'.inv = row.inv
     \/ row'.inv = exec[e].snap /\ exec[e].pc \in {"save", "resave"}
          /\ exec'[e].pc \notin {"save", "resave"}

(* The steps of an executor: one claims the table, the others leave the     *)
(* leases of everybody else alone.                                          *)
LEMMA ExecutorFrames ==
  ASSUME TypeOK, NEW e \in Executor, ExecutorStep(e)
  PROVE  /\ ClaimFrame(e) \/ LeaseFrame(e)
         /\ PickFrame(e) /\ ReadFrame(e) /\ WriteFrame(e)
         /\ \A f \in Executor \ {e} : exec'[f] = exec[f]
         /\ head' \in {head, head + 1}
         /\ UNCHANGED execWorld
<1>0. /\ row \in Row /\ exec \in [Executor -> Exec] /\ exec[e] \in Exec
      /\ tasks \in [Op -> Task] /\ OpOf[e] \in Op
  BY ConstantTypes DEF TypeOK
<1> DEFINE others == \A f \in Executor \ {e} : exec'[f] = exec[f]
           same == row' = row
           calm == overran' = overran
           wrote == /\ row'.invLease = row.invLease /\ row'.owner = row.owner
                    /\ row'.last = row.last /\ row'.nextInv = row.nextInv
                    /\ row'.inv = row.inv
           goal == /\ ClaimFrame(e) \/ LeaseFrame(e)
                   /\ PickFrame(e) /\ ReadFrame(e) /\ WriteFrame(e) /\ others
<1>a. head' \in {head, head + 1} /\ UNCHANGED execWorld
  BY DEF ExecutorStep, PickTask, ClaimCancels, ClaimTask, ClaimAborts, StartTask,
     RejectTask, StartFails, LoadTable, SaveActiveInventory, CommitMaintenance, StopWorking,
     RenewLease, FinishWork, FinishFails, LeaveTable, LeaseExpires
<1> SUFFICES goal
  BY <1>a
<1>1. \A x : Set(e, x) => exec'[e] = x /\ others
  BY <1>0 DEF Set
<1>2. \A pc : Goto(e, pc) => /\ exec'[e].pc = pc /\ exec'[e].owner = exec[e].owner
                             /\ others
  <2> TAKE pc
  <2> DEFINE x == [exec[e] EXCEPT !.pc = pc]
  <2>1. x.pc = pc /\ x.owner = exec[e].owner
    BY <1>0, Zenon DEF Exec
  <2> QED BY <1>1, <2>1 DEF Goto
<1>3. wrote => WriteFrame(e)
  BY DEF WriteFrame
<1>4. same => wrote
  OBVIOUS
<1>5. same /\ calm /\ ~Busy(e)' => LeaseFrame(e)
  BY DEF LeaseFrame, Holding
<1>6. same /\ calm /\ Busy(e) /\ exec'[e].owner = exec[e].owner => LeaseFrame(e)
  BY DEF LeaseFrame, Holding
<1>7. same /\ calm /\ exec'[e].pc \in {"idle", "picked", "leaving", "ended"} => LeaseFrame(e)
  BY <1>5 DEF Busy, OnTable, Working
<1>8. exec'[e].pc # "picked" => PickFrame(e)
  BY DEF PickFrame
<1>9. exec'[e].pc \notin {"save", "resave"} => ReadFrame(e)
  BY DEF ReadFrame
<1>10. ASSUME same, calm, others, exec'[e].pc \in {"idle", "leaving", "ended"}
       PROVE  goal
  BY <1>3, <1>4, <1>7, <1>8, <1>9, <1>10
<1>11. ASSUME same, calm, others, exec'[e].pc \in {"read", "commit", "reread"}, Busy(e),
              exec'[e].owner = exec[e].owner
       PROVE  goal
  BY <1>3, <1>4, <1>6, <1>8, <1>9, <1>11
<1> HIDE DEF wrote
<1>12. CASE PickTask(e)
  <2> DEFINE task == tasks[OpOf[e]]
             x == [Idle EXCEPT !.pc = "picked", !.owner = task.owner]
  <2>1. /\ Set(e, x) /\ same /\ calm /\ task.status \in Pending
        /\ task.owner # "deleted-monitor"
    BY <1>12, Zenon DEF PickTask
  <2>2. x.pc = "picked" /\ x.owner = task.owner
    BY DEF Idle
  <2>3. PickFrame(e)
    BY <1>1, <2>1, <2>2 DEF PickFrame, Active
  <2>4. exec'[e].pc = "picked" /\ others
    BY <1>1, <2>1, <2>2
  <2> QED BY <1>3, <1>4, <1>7, <1>9, <2>1, <2>3, <2>4
<1>13. Idle.pc = "idle"
  BY DEF Idle
<1>14. CASE ClaimCancels(e) \/ ClaimAborts(e)
  <2>1. Set(e, Idle) /\ same /\ calm
    BY <1>14 DEF ClaimCancels, ClaimAborts
  <2> QED BY <1>1, <1>10, <1>13, <2>1
<1>15. CASE ClaimTask(e)
  <2>1. /\ row' = [row EXCEPT !.lease = e, !.live = TRUE] /\ Goto(e, "claimed") /\ calm
        /\ exec[e].pc = "picked" /\ TableFree /\ ~OwnerMismatch(e)
    BY <1>15, Zenon DEF ClaimTask, StillPicked
  <2>2. wrote /\ row'.lease = e /\ row'.live
    BY <1>0, <2>1, Zenon DEF Row, wrote
  <2>3. ClaimFrame(e)
    BY <1>2, <2>1, <2>2 DEF ClaimFrame, TableFree
  <2> QED BY <1>2, <1>3, <1>8, <1>9, <2>1, <2>2, <2>3
<1>16. CASE StartTask(e)
  BY <1>2, <1>11, <1>16 DEF StartTask, Busy
<1>17. CASE RejectTask(e) \/ StartFails(e)
  BY <1>2, <1>10, <1>17 DEF RejectTask, StartFails
<1>18. CASE LoadTable(e)
  <2> DEFINE pc == IF exec[e].pc = "read" THEN "save" ELSE "resave"
             x == [exec[e] EXCEPT !.snap = head, !.pc = pc]
  <2>1. Set(e, x) /\ same /\ calm /\ exec[e].pc \in {"read", "reread"}
    BY <1>0, <1>18, Zenon DEF LoadTable, Exec
  <2>2. pc # "picked"
    OBVIOUS
  <2> HIDE DEF pc
  <2>3. x.snap = head /\ x.pc = pc /\ x.owner = exec[e].owner
    BY <1>0, Zenon DEF Exec
  <2> HIDE DEF x
  <2>4. exec'[e] = x /\ others
    BY <1>1, <2>1
  <2>5. Busy(e)
    BY <2>1 DEF Busy, OnTable, Working
  <2>6. ReadFrame(e)
    BY <2>3, <2>4 DEF ReadFrame
  <2> QED BY <1>3, <1>4, <1>6, <1>8, <2>1, <2>2, <2>3, <2>4, <2>5, <2>6
<1>19. CASE SaveActiveInventory(e)
  <2> DEFINE pc == IF exec[e].pc = "save" THEN "commit" ELSE "ended"
             x == [exec[e] EXCEPT !.pc = pc, !.snap = 0]
  <2>1. /\ row' = [row EXCEPT !.inv = exec[e].snap] /\ Set(e, x) /\ calm
        /\ exec[e].pc \in {"save", "resave"}
    BY <1>0, <1>19, Zenon DEF SaveActiveInventory, Exec
  <2>2. pc \in {"commit", "ended"}
    OBVIOUS
  <2> HIDE DEF pc
  <2>3. x.pc = pc /\ x.owner = exec[e].owner
    BY <1>0, Zenon DEF Exec
  <2> HIDE DEF x
  <2>4. exec'[e].pc = pc /\ exec'[e].owner = exec[e].owner /\ others
    BY <1>1, <2>1, <2>3
  <2>5. /\ row'.invLease = row.invLease /\ row'.owner = row.owner /\ row'.last = row.last
        /\ row'.nextInv = row.nextInv /\ row'.lease = row.lease /\ row'.live = row.live
        /\ row'.inv = exec[e].snap
    BY <1>0, <2>1 DEF Row
  <2>6. Busy(e)
    BY <2>1 DEF Busy, OnTable, Working
  <2>7. LeaseFrame(e)
    BY <2>1, <2>4, <2>5, <2>6 DEF LeaseFrame, Holding
  <2>8. WriteFrame(e)
    BY <2>1, <2>2, <2>4, <2>5 DEF WriteFrame
  <2> QED BY <1>8, <1>9, <2>2, <2>4, <2>7, <2>8
<1>20. CASE CommitMaintenance(e)
  <2> DEFINE pc == IF OpOf[e] = "compact" THEN "reread" ELSE "ended"
             x == [exec[e] EXCEPT !.outcome = "succeeded", !.pc = pc]
  <2>1. Set(e, x) /\ same /\ calm /\ exec[e].pc = "commit"
    BY <1>20, Zenon DEF CommitMaintenance
  <2>2. pc \in {"reread", "ended"}
    OBVIOUS
  <2> HIDE DEF pc
  <2>3. x.pc = pc /\ x.owner = exec[e].owner
    BY <1>0, Zenon DEF Exec
  <2> HIDE DEF x
  <2>4. exec'[e].pc = pc /\ exec'[e].owner = exec[e].owner /\ others
    BY <1>1, <2>1, <2>3
  <2>5. Busy(e)
    BY <2>1 DEF Busy, OnTable, Working
  <2> QED BY <1>10, <1>11, <2>1, <2>2, <2>4, <2>5
<1>21. \A o : Set(e, Ended(e, o)) => exec'[e].pc = "ended" /\ others
  <2> TAKE o
  <2> DEFINE out == IF exec[e].outcome = "succeeded" THEN "succeeded" ELSE o
             x == [exec[e] EXCEPT !.pc = "ended", !.snap = 0, !.outcome = out]
  <2>1. Ended(e, o) = x
    BY <1>0, Zenon DEF Ended, Exec
  <2> HIDE DEF out
  <2>2. x.pc = "ended"
    BY <1>0, Zenon DEF Exec
  <2> QED BY <1>1, <2>1, <2>2
<1>22. CASE StopWorking(e)
  BY <1>10, <1>21, <1>22 DEF StopWorking
<1>23. CASE RenewLease(e)
  <2>1. CASE Holds(e) /\ row.lease = e
    <3>1. row' = [row EXCEPT !.live = TRUE] /\ exec' = exec /\ calm
      BY <1>23, <2>1 DEF RenewLease
    <3>2. wrote /\ row'.lease = row.lease /\ row'.live = TRUE
      BY <1>0, <3>1 DEF Row, wrote
    <3>3. LeaseFrame(e)
      BY <2>1, <3>1, <3>2 DEF LeaseFrame, Holding, Busy, OnTable
    <3>4. PickFrame(e) /\ ReadFrame(e) /\ others
      BY <3>1 DEF PickFrame, ReadFrame
    <3> QED BY <1>3, <3>2, <3>3, <3>4
  <2>2. CASE ~(Holds(e) /\ row.lease = e)
    BY <1>10, <1>21, <1>23, <2>2 DEF RenewLease
  <2> QED BY <2>1, <2>2
<1>24. CASE FinishFails(e)
  <2>1. [Idle EXCEPT !.pc = "leaving"].pc = "leaving"
    BY DEF Idle
  <2> QED BY <1>1, <1>10, <1>24, <2>1 DEF FinishFails
<1>25. CASE FinishWork(e)
  <2>1. [Idle EXCEPT !.pc = "leaving"].pc = "leaving"
    BY DEF Idle
  <2>2. Set(e, [Idle EXCEPT !.pc = "leaving"]) /\ calm
        /\ (same \/ row' \in ScheduleCompactionCheck(row, tasks'))
    BY <1>25 DEF FinishWork
  <2>3. CASE row' \in ScheduleCompactionCheck(row, tasks')
    <3>1. \A ts : \A q \in ScheduleCompactionCheck(row, ts) :
            Keeps(q, row) /\ q.nextInv = row.nextInv
      BY <1>0, RowFrames, Zenon
    <3>2. Keeps(row', row) /\ row'.nextInv = row.nextInv
      BY <2>3, <3>1
    <3>3. exec'[e].pc = "leaving" /\ others
      BY <1>1, <2>1, <2>2
    <3>4. ~Busy(e)'
      BY <3>3 DEF Busy, OnTable, Working
    <3>5. LeaseFrame(e)
      BY <2>2, <3>2, <3>4 DEF LeaseFrame, Holding, Keeps, KeepsLeases
    <3> QED BY <1>3, <1>8, <1>9, <3>2, <3>3, <3>5 DEF Keeps, KeepsLeases, KeepsSnapshots, wrote
  <2> QED BY <1>1, <1>10, <2>1, <2>2, <2>3
<1>26. CASE LeaveTable(e)
  <2>1. /\ Set(e, Idle) /\ overran' = overran \ {e}
        /\ row' = row \/ (row.lease = e /\ row' = [row EXCEPT !.lease = NoOne, !.live = FALSE])
    BY <1>26, Zenon DEF LeaveTable, ReleaseMaintenanceTableLease
  <2>2. wrote /\ (row.lease # e => row' = row)
    <3>1. CASE row' = row
      BY <1>4, <3>1
    <3>2. CASE row.lease = e /\ row' = [row EXCEPT !.lease = NoOne, !.live = FALSE]
      BY <1>0, <3>2, Zenon DEF Row, wrote
    <3> QED BY <2>1, <3>1, <3>2
  <2>3. exec'[e].pc = "idle" /\ others
    BY <1>1, <1>13, <2>1
  <2>4. ~Busy(e)'
    BY <2>3 DEF Busy, OnTable, Working
  <2>5. LeaseFrame(e)
    BY <2>1, <2>2, <2>4 DEF LeaseFrame, Holding
  <2> QED BY <1>3, <1>8, <1>9, <2>2, <2>3, <2>5
<1>27. CASE LeaseExpires(e)
  <2>1. /\ row' = IF row.lease = e THEN [row EXCEPT !.live = FALSE] ELSE row
        /\ overran' = IF Busy(e) THEN overran \cup {e} ELSE overran
        /\ exec' = exec /\ (Busy(e) => ~Timely)
    BY <1>27 DEF LeaseExpires
  <2>2. wrote /\ (row.lease # e => row' = row)
    BY <1>0, <2>1 DEF Row, wrote
  <2>3. Busy(e)' => Busy(e) /\ exec'[e].owner = exec[e].owner
    BY <2>1 DEF Busy, OnTable
  <2>4. ~Holding(e)'
    BY <2>1, <2>3 DEF Holding
  <2>5. LeaseFrame(e)
    BY <2>1, <2>2, <2>3, <2>4 DEF LeaseFrame
  <2>6. PickFrame(e) /\ ReadFrame(e) /\ others
    BY <2>1 DEF PickFrame, ReadFrame
  <2> QED BY <1>3, <2>2, <2>5, <2>6
<1> QED
  BY <1>12, <1>14, <1>15, <1>16, <1>17, <1>18, <1>19, <1>20, <1>22, <1>23, <1>24, <1>25,
     <1>26, <1>27 DEF ExecutorStep

-----------------------------------------------------------------------------
(* Leases *)

(* A crash, a shutdown and a restart: nobody works on after a crash.        *)
LEMMA ExitFrames ==
  ASSUME TypeOK, Crash \/ Shutdown \/ Restart
  PROVE  /\ row' = row /\ head' = head /\ tasks' = tasks /\ UNCHANGED <<reserved, jobVars>>
         /\ co'.pc = "sleep" \/ co' = co
         /\ \/ exec' = exec /\ overran' = overran
            \/ \A e \in Executor : exec'[e].pc = "idle" /\ overran' = {}
<1>1. Idle.pc = "idle" /\ Asleep.pc = "sleep"
  BY DEF Idle, Asleep
<1> QED BY <1>1 DEF Crash, Shutdown, Restart, WorkerExits, exitWorld, jobVars

(* A step whose statements keep the leases keeps what they exclude.         *)
LEMMA LeaseStep == TypeOK /\ LeaseInv /\ [Next]_vars => LeaseInv'
<1> SUFFICES ASSUME TypeOK, LeaseInv, [Next]_vars PROVE LeaseInv'
  OBVIOUS
<1>1. HolderOK /\ (~LongLoops => ScanOK)
  BY DEF LeaseInv
<1>2. exec' = exec /\ overran' = overran => \A e \in Executor : Holding(e)' <=> Holding(e)
  BY DEF Holding, Busy, OnTable
<1>3. ASSUME KeepsLeases(row', row), UNCHANGED <<exec, overran, co>>
      PROVE  LeaseInv'
  <2>1. HolderOK'
    BY <1>1, <1>2, <1>3 DEF HolderOK, KeepsLeases
  <2>2. ScanOK => ScanOK'
    BY <1>2, <1>3 DEF ScanOK, KeepsLeases
  <2> QED BY <1>1, <2>1, <2>2 DEF LeaseInv
<1>4. CASE \E e \in Executor : ExecutorStep(e)
  <2>1. PICK e \in Executor : ExecutorStep(e)
    BY <1>4
  <2>2. /\ ClaimFrame(e) \/ LeaseFrame(e)
        /\ WriteFrame(e) /\ co' = co
        /\ \A f \in Executor \ {e} : exec'[f] = exec[f]
    BY <2>1, ExecutorFrames DEF execWorld
  <2>3. CASE ClaimFrame(e)
    <3>1. \A f \in Executor : ~Holding(f)
      BY <1>1, <2>3 DEF HolderOK, ClaimFrame
    <3>2. \A f \in Executor \ {e} : ~Holding(f)'
      BY <2>2, <2>3, <3>1 DEF Holding, Busy, OnTable, ClaimFrame
    <3>3. HolderOK'
      BY <2>3, <3>2 DEF HolderOK, ClaimFrame
    <3>4. ScanOK => ScanOK'
      BY <2>2, <2>3 DEF ScanOK, ClaimFrame
    <3> QED BY <1>1, <3>3, <3>4 DEF LeaseInv
  <2>4. CASE LeaseFrame(e)
    <3>1. \A f \in Executor : Holding(f)' => Holding(f)
      BY <2>2, <2>4 DEF LeaseFrame, Holding, Busy, OnTable
    <3>2. HolderOK'
      BY <1>1, <2>4, <3>1 DEF HolderOK, LeaseFrame
    <3>3. ScanOK => ScanOK'
      BY <2>2, <3>1 DEF ScanOK, WriteFrame
    <3> QED BY <1>1, <3>2, <3>3 DEF LeaseInv
  <2> QED BY <2>2, <2>3, <2>4
<1>5. CASE CoordinatorStep
  <2>0. exec' = exec /\ overran' = overran
    BY <1>5 DEF CoordinatorStep, ListJobs, SkipJobs, Reserve, Prune, SeedState, ListMonitors,
       ApplyMonitorDiscovery, RecoverLeases, ClaimInventory, SkipScan, LoadInventory,
       SaveInventory, FinishInventory, ScanFails, DueState, NotDue, EnqueueTask,
       AdvanceSchedule, InventoryLeaseExpires, coWorld
  <2>1. CASE ~ScanStep
    <3>1. /\ row'.live = row.live /\ row'.invLease = row.invLease
          /\ row.live => row'.lease = row.lease
          /\ co'.pc \notin ScanAt \/ LoadInventory
      BY <1>5, <2>1, CoordinatorFrames
    <3>2. LoadInventory => co.pc \in ScanAt
      BY DEF LoadInventory, CoAt, ScanAt
    <3>3. HolderOK'
      BY <1>1, <1>2, <2>0, <3>1 DEF HolderOK
    <3>4. ScanOK => ScanOK'
      BY <1>2, <2>0, <3>1, <3>2 DEF ScanOK
    <3> QED BY <1>1, <3>3, <3>4 DEF LeaseInv
  <2>2. CASE ScanStep
    <3>1. /\ row'.lease = row.lease /\ row'.live = row.live
          /\ \/ ClaimInventory /\ ~row.live /\ row'.invLease = "live"
             \/ SaveInventory /\ row'.invLease = row.invLease /\ co.pc = "save"
             \/ co'.pc = "due"
             \/ InventoryLeaseExpires /\ co' = co
      BY <2>2, ScanFrames
    <3>2. HolderOK'
      BY <1>1, <1>2, <2>0, <3>1 DEF HolderOK
    <3>3. ~LongLoops => ScanOK'
      <4>1. CASE ClaimInventory /\ ~row.live /\ row'.invLease = "live"
        BY <1>1, <1>2, <2>0, <4>1 DEF ScanOK, HolderOK
      <4>2. CASE SaveInventory /\ row'.invLease = row.invLease /\ co.pc = "save"
        BY <1>1, <1>2, <2>0, <4>2 DEF ScanOK, ScanAt
      <4>3. CASE co'.pc = "due"
        BY <4>3 DEF ScanOK, ScanAt
      <4>4. CASE InventoryLeaseExpires /\ co' = co
        BY <4>4 DEF ScanOK, ScanAt, InventoryLeaseExpires
      <4> QED BY <3>1, <4>1, <4>2, <4>3, <4>4
    <3> QED BY <3>2, <3>3 DEF LeaseInv
  <2> QED BY <2>1, <2>2
<1>6. CASE JobStep
  <2>1. UNCHANGED <<exec, overran, co>>
    BY <1>6 DEF JobStep, JobStart, JobReserve, StartFailed, JobCommit, SnapshotComplete,
       PersistSignal, JobStop, JobDrained, JobRelease, jobWorld
  <2> QED BY <1>3, <1>6, <2>1, JobFrames
<1>7. CASE UserStep
  <2>1. UNCHANGED <<exec, overran, co>>
    BY <1>7 DEF UserStep, CreateMonitor, PauseMonitor, ResumeMonitor, DeleteMonitor,
       RequestInventoryRefresh, userWorld
  <2> QED BY <1>3, <1>7, <2>1, UserFrames
<1>8. CASE Crash \/ Shutdown \/ Restart
  <2>1. /\ row' = row
        /\ co'.pc = "sleep" \/ co' = co
        /\ \A e \in Executor : Holding(e)' => Holding(e)
    BY <1>2, <1>8, ExitFrames DEF Holding, Busy, OnTable, Working
  <2>2. HolderOK'
    BY <1>1, <2>1 DEF HolderOK
  <2>3. ScanOK => ScanOK'
    BY <2>1 DEF ScanOK, ScanAt
  <2> QED BY <1>1, <2>2, <2>3 DEF LeaseInv
<1>9. CASE UNCHANGED vars
  BY <1>3, <1>9 DEF vars, KeepsLeases
<1> QED BY <1>4, <1>5, <1>6, <1>7, <1>8, <1>9 DEF Next

(* Who excludes whom: two holders would both be the table's lease.          *)
LEMMA LeaseExcludes == ~LongLoops /\ LeaseInv => NoOverlap
<1> SUFFICES ASSUME ~LongLoops, HolderOK, ScanOK, AtWork \cap overran = {}
             PROVE  Cardinality(AtWork) + (IF Scanning THEN 1 ELSE 0) <= 1
  BY DEF LeaseInv, NoOverlap
<1>1. \A e \in AtWork : e \in Executor /\ Holding(e) /\ row.lease = e
  BY DEF AtWork, HolderOK, Holding, Busy
<1>2. CASE AtWork = {}
  <2>1. Cardinality(AtWork) = 0
    BY <1>2, FS_EmptySet
  <2> QED BY <2>1
<1>3. CASE AtWork # {}
  <2>1. AtWork = {row.lease}
    BY <1>1, <1>3
  <2>2. Cardinality(AtWork) = 1
    BY <2>1, FS_Singleton
  <2>3. ~Scanning
    BY <1>1, <1>3 DEF ScanOK, ScanAt, Scanning
  <2> QED BY <2>2, <2>3
<1> QED BY <1>2, <1>3

(* Nobody has a lease yet.                                                  *)
LEMMA InitLease == Init => LeaseInv
<1>1. Idle.pc = "idle" /\ Asleep.pc = "sleep"
  BY DEF Idle, Asleep
<1> QED BY <1>1 DEF Init, LeaseInv, HolderOK, ScanOK, ScanAt, Holding, Busy, OnTable, Working

(* LeaseInv is an invariant: an operation that has not overrun its lease is *)
(* the holder of the table's live lease, and a scan has the inventory lease *)
(* with no such operation beside it.                                        *)
THEOREM LeaseInductive == Spec => []LeaseInv
<1>1. Init => (TypeOK /\ TodoOK) /\ LeaseInv
  BY InitTypes, InitLease
<1>2. (TypeOK /\ TodoOK) /\ LeaseInv /\ [Next]_vars => (TypeOK /\ TodoOK)' /\ LeaseInv'
  BY TypeStep, LeaseStep
<1> QED BY <1>1, <1>2, PTL DEF Spec

(* NoOverlap, for any number of executors: while a loop of the coordinator  *)
(* does not outlast an inventory lease, the claims of                       *)
(* claimTaskForMaintenance and claimPendingInventoryState exclude each      *)
(* other; two of compaction, expiration and scan are at work together only  *)
(* when the lease of one has expired under it.                              *)
THEOREM TableExclusion == ASSUME ~LongLoops PROVE Spec => []NoOverlap
<1>1. LeaseInv => NoOverlap
  BY LeaseExcludes
<1> QED BY <1>1, LeaseInductive, PTL

-----------------------------------------------------------------------------
(* Owners *)

\* A task that is active was so before, for the same owner or one deleted.
KeepsTasks(q, ts) ==
  \A o \in Op : q[o].status \in Active =>
    ts[o].status \in Active /\ q[o].owner \in {ts[o].owner, "deleted-monitor"}

(* Cancelling, ending and repeating tasks make none.                        *)
LEMMA CancelFrames ==
  ASSUME tasks \in [Op -> Task]
  PROVE  /\ \A ops : \A ts \in [Op -> Task] :
              KeepsTasks(ts, tasks) => KeepsTasks(CancelPending(ts, ops), tasks)
         /\ KeepsTasks(tasks, tasks)
         /\ \A e \in Executor : KeepsTasks(EndTask(e), tasks)
         /\ \A e \in Executor : Holds(e) => KeepsTasks(RetryTask(e), tasks)
         /\ \A e \in Executor : KeepsTasks([tasks EXCEPT ![OpOf[e]].live = TRUE], tasks)
         /\ \A e \in Executor : KeepsTasks([tasks EXCEPT ![OpOf[e]].live = FALSE], tasks)
<1>1. NoTask.status \notin Active /\ "retry" \in Active /\ "leased" \in Active
  BY DEF NoTask, Active, Pending
<1>2. ASSUME NEW ops, NEW ts \in [Op -> Task], KeepsTasks(ts, tasks)
      PROVE  KeepsTasks(CancelPending(ts, ops), tasks)
  BY <1>1, <1>2 DEF KeepsTasks, CancelPending
<1>3. KeepsTasks(tasks, tasks)
  BY DEF KeepsTasks
<1>4. \A e \in Executor : KeepsTasks(EndTask(e), tasks)
  BY <1>1 DEF KeepsTasks, EndTask
<1>5. ASSUME NEW e \in Executor, NEW t \in Task, tasks[OpOf[e]].status \in Active,
             t.owner = tasks[OpOf[e]].owner
      PROVE  KeepsTasks([tasks EXCEPT ![OpOf[e]] = t], tasks)
  BY <1>5 DEF KeepsTasks
<1>6. ASSUME NEW e \in Executor, Holds(e)
      PROVE  KeepsTasks(RetryTask(e), tasks)
  <2> DEFINE t == tasks[OpOf[e]]
             u == [t EXCEPT !.status = "retry", !.by = NoOne, !.live = FALSE]
  <2>1. t \in Task /\ t.status \in Active
    BY <1>1, <1>6, ConstantTypes DEF Holds
  <2> HIDE DEF t
  <2>2. u.owner = t.owner /\ u \in Task
    BY <1>1, <2>1, Zenon DEF Task
  <2> HIDE DEF u
  <2>3. KeepsTasks([tasks EXCEPT ![OpOf[e]] = u], tasks)
    BY <1>5, <2>1, <2>2 DEF t
  <2> QED BY <2>3, Zenon DEF RetryTask, u, t
<1>7. ASSUME NEW e \in Executor, NEW b \in BOOLEAN
      PROVE  KeepsTasks([tasks EXCEPT ![OpOf[e]].live = b], tasks)
  <2>1. tasks[OpOf[e]] \in Task
    BY ConstantTypes
  <2>2. \A o \in Op : /\ [tasks EXCEPT ![OpOf[e]].live = b][o].status = tasks[o].status
                      /\ [tasks EXCEPT ![OpOf[e]].live = b][o].owner = tasks[o].owner
    BY <2>1 DEF Task
  <2> QED BY <2>2 DEF KeepsTasks
<1> QED BY <1>2, <1>3, <1>4, <1>6, <1>7

(* Only the coordinator makes tasks, for the owner that it found due.       *)
LEMMA TaskFrames ==
  ASSUME TypeOK
  PROVE  /\ \A e \in Executor : ExecutorStep(e) => KeepsTasks(tasks', tasks)
         /\ JobStep => KeepsTasks(tasks', tasks)
         /\ UserStep => KeepsTasks(tasks', tasks)
         /\ CoordinatorStep /\ ~EnqueueTask => KeepsTasks(tasks', tasks)
<1>0. tasks \in [Op -> Task] /\ row \in Row /\ KeepsTasks(tasks, tasks)
  BY CancelFrames DEF TypeOK
<1>1. tasks' = tasks => KeepsTasks(tasks', tasks)
  BY <1>0
<1>2. \A ops : KeepsTasks(CancelPending(tasks, ops), tasks)
  BY <1>0, CancelFrames
<1>3. ASSUME NEW e \in Executor, ExecutorStep(e)
      PROVE  KeepsTasks(tasks', tasks)
  <2>1. CASE ClaimTask(e)
    <3> DEFINE t == tasks[OpOf[e]]
               u == [t EXCEPT !.status = "leased", !.by = e, !.live = TRUE]
    <3>1. t \in Task /\ t.status \in Active /\ tasks' = [tasks EXCEPT ![OpOf[e]] = u]
      BY <1>0, <2>1, ConstantTypes DEF ClaimTask, StillPicked, Active
    <3> HIDE DEF t
    <3>2. u.owner = t.owner
      BY <3>1, Zenon DEF Task
    <3> HIDE DEF u
    <3> QED BY <1>0, <3>1, <3>2 DEF KeepsTasks, t
  <2>2. CASE RejectTask(e)
    BY <1>0, <1>1, <2>2, CancelFrames DEF RejectTask
  <2>3. CASE RenewLease(e)
    BY <1>0, <1>1, <2>3, CancelFrames DEF RenewLease
  <2>4. CASE FinishWork(e)
    <3>1. tasks' \in {EndTask(e), RetryTask(e)} /\ Holds(e)
      BY <2>4 DEF FinishWork, Outcomes
    <3> QED BY <1>0, <3>1, CancelFrames
  <2>5. CASE LeaveTable(e)
    <3>1. tasks' = tasks \/ (tasks' = RetryTask(e) /\ Holds(e))
      BY <2>5 DEF LeaveTable
    <3> QED BY <1>0, <1>1, <3>1, CancelFrames
  <2>6. CASE LeaseExpires(e)
    BY <1>0, <1>1, <2>6, CancelFrames DEF LeaseExpires
  <2>7. CASE ClaimCancels(e)
    BY <1>2, <2>7 DEF ClaimCancels
  <2> QED BY <1>1, <1>3, <2>1, <2>2, <2>3, <2>4, <2>5, <2>6, <2>7
          DEF ExecutorStep, PickTask, ClaimAborts, StartTask, StartFails, LoadTable,
              SaveActiveInventory, CommitMaintenance, StopWorking, FinishFails
<1>4. SyncMaintenanceReservations => KeepsTasks(tasks', tasks)
  BY <1>0, <1>2 DEF SyncMaintenanceReservations
<1>5. \A c : FreeRow(c) => KeepsTasks(tasks', tasks)
  BY <1>2 DEF FreeRow
<1>6. JobStep => KeepsTasks(tasks', tasks)
  BY <1>1, <1>4, <1>5 DEF JobStep, JobStart, JobReserve, StartFailed, JobCommit, SnapshotComplete,
     PersistSignal, JobStop, JobDrained, JobRelease, ReleaseMaintenanceReservations
<1>7. UserStep => KeepsTasks(tasks', tasks)
  <2>1. ASSUME DeleteMonitor PROVE KeepsTasks(tasks', tasks)
    <3> DEFINE ts == CancelPending(tasks, TasksOf("monitor"))
               gone(o) == [ts[o] EXCEPT !.owner = "deleted-monitor"]
    <3>1. ts \in [Op -> Task] /\ KeepsTasks(ts, tasks)
      BY <1>0, <1>2, TaskTypes
    <3>2. tasks' = [o \in Op |-> IF ts[o].owner = "monitor" THEN gone(o) ELSE ts[o]]
      BY <2>1, Zenon DEF DeleteMonitor
    <3> HIDE DEF ts
    <3>3. \A o \in Op : gone(o).owner = "deleted-monitor" /\ gone(o).status = ts[o].status
      BY <3>1 DEF Task
    <3> HIDE DEF gone
    <3> QED BY <3>1, <3>2, <3>3 DEF KeepsTasks
  <2> QED BY <1>1, <1>2, <2>1 DEF UserStep, CreateMonitor, PauseMonitor, ResumeMonitor,
             RequestInventoryRefresh, userWorld
<1>8. RecoverExpiredMaintenanceLeases => KeepsTasks(tasks', tasks)
  <2> DEFINE again(o) == [tasks[o] EXCEPT !.status = "retry", !.by = NoOne]
             back == [o \in Op |-> IF tasks[o].status = "leased" /\ ~tasks[o].live
                                   THEN again(o) ELSE tasks[o]]
             dead == {o \in Op : \/ tasks[o].owner = "deleted-monitor"
                                 \/ tasks[o].owner = "monitor" /\ monitor # "ACTIVE"}
  <2>1. ASSUME NEW o \in Op PROVE again(o) \in Task /\ again(o).owner = tasks[o].owner
    <3>1. tasks[o] \in Task /\ "retry" \in {"none"} \cup Active
      BY <1>0 DEF Active, Pending
    <3> QED BY <3>1, Zenon DEF Task
  <2>2. RecoverExpiredMaintenanceLeases => tasks' = CancelPending(back, dead)
    BY Zenon DEF RecoverExpiredMaintenanceLeases
  <2> HIDE DEF again
  <2>3. back \in [Op -> Task] /\ KeepsTasks(back, tasks)
    BY <1>0, <2>1 DEF KeepsTasks, Active
  <2> HIDE DEF back, dead
  <2> QED BY <1>0, <2>2, <2>3, CancelFrames
<1>9. reconcileMonitorTargetOwnership => KeepsTasks(tasks', tasks)
  BY <1>1, <1>2 DEF reconcileMonitorTargetOwnership
<1>10. CoordinatorStep /\ ~EnqueueTask => KeepsTasks(tasks', tasks)
  BY <1>1, <1>4, <1>5, <1>8, <1>9 DEF CoordinatorStep, ListJobs, SkipJobs, Reserve, Prune,
     SeedState, ListMonitors, ApplyMonitorDiscovery, RecoverLeases, ClaimInventory, SkipScan,
     LoadInventory, SaveInventory, FinishInventory, ScanFails, DueState, NotDue,
     AdvanceSchedule, InventoryLeaseExpires, ReleaseMaintenanceReservationsExcept
<1> QED BY <1>3, <1>6, <1>7, <1>10

(* What the coordinator does to the owner, to its own place and to the      *)
(* reservation.                                                             *)
LEMMA CoordinatorOwners ==
  ASSUME TypeOK, CoordinatorStep
  PROVE  /\ \/ row'.owner = row.owner
            \/ row'.owner = "unmanaged"
            \/ Reserve /\ SyncMaintenanceReservations
            \/ SeedState /\ co.run /\ row'.owner = "job"
            \/ row'.owner = "monitor" /\ co'.pc = "recover"
            \/ row'.owner = "streaming" /\ ~row.live /\ co'.pc = "recover"
         /\ co'.pc \in {"prune", "seed"} =>
              /\ co'.run = co.run
              /\ \/ co' = co
                 \/ Reserve /\ (co.run => SyncMaintenanceReservations)
                 \/ Prune
         /\ co'.pc \in {"insert", "advance"} =>
              \/ co' = co
              \/ co'.owner = OwnerId(row.owner) /\ InJobMap
              \/ co.pc = "insert" /\ co'.owner = co.owner
         /\ Prune => row'.owner \in {row.owner, "unmanaged"}
         /\ reserved' = reserved \/ reserved' \/ job = "off"
         /\ UNCHANGED coWorld
<1>0. row \in Row /\ co \in Coordinator /\ done \in BOOLEAN
  BY DEF TypeOK
<1>a. UNCHANGED coWorld
  BY DEF CoordinatorStep, ListJobs, SkipJobs, Reserve, Prune, SeedState, ListMonitors,
     ApplyMonitorDiscovery, RecoverLeases, ClaimInventory, SkipScan, LoadInventory,
     SaveInventory, FinishInventory, ScanFails, DueState, NotDue, EnqueueTask,
     AdvanceSchedule, InventoryLeaseExpires
<1>b. reserved' = reserved \/ reserved' \/ job = "off"
  BY DEF CoordinatorStep, ListJobs, SkipJobs, Reserve, Prune, SeedState, ListMonitors,
     ApplyMonitorDiscovery, RecoverLeases, ClaimInventory, SkipScan, LoadInventory,
     SaveInventory, FinishInventory, ScanFails, DueState, NotDue, EnqueueTask,
     AdvanceSchedule, InventoryLeaseExpires, SyncMaintenanceReservations,
     ReleaseMaintenanceReservationsExcept
<1>c. Prune => row'.owner \in {row.owner, "unmanaged"}
  <2>1. Prune => row' = row \/ \E c : FreeRow(c)
    BY DEF Prune, ReleaseMaintenanceReservationsExcept
  <2> QED BY <1>0, <2>1, StatementFrames
<1> DEFINE early == {"prune", "seed"}
           late == {"insert", "advance"}
           owns == \/ row'.owner = row.owner
                   \/ row'.owner = "unmanaged"
                   \/ Reserve /\ SyncMaintenanceReservations
                   \/ SeedState /\ co.run /\ row'.owner = "job"
                   \/ row'.owner = "monitor" /\ co'.pc = "recover"
                   \/ row'.owner = "streaming" /\ ~row.live /\ co'.pc = "recover"
           seeds == co'.pc \in early =>
                      /\ co'.run = co.run
                      /\ \/ co' = co
                         \/ Reserve /\ (co.run => SyncMaintenanceReservations)
                         \/ Prune
           inserts == co'.pc \in late =>
                        \/ co' = co
                        \/ co'.owner = OwnerId(row.owner) /\ InJobMap
                        \/ co.pc = "insert" /\ co'.owner = co.owner
<1> SUFFICES owns /\ seeds /\ inserts
  BY <1>a, <1>b, <1>c
<1>1. \A pc \in CoPc : CoGoto(pc) => /\ co'.pc = pc /\ co'.run = co.run
                                     /\ co'.owner = co.owner
  BY <1>0, Zenon DEF CoGoto, Coordinator
<1>2. row' = row => owns
  OBVIOUS
<1>3. co'.pc \notin early \cup late => seeds /\ inserts
  OBVIOUS
<1>4. WorkerExits => seeds /\ inserts
  BY DEF WorkerExits, Asleep
<1>5. NextState => seeds /\ inserts
  <2> DEFINE pc == IF co.todo = {NextOp} THEN "sleep" ELSE "due"
  <2>1. NextState => co'.pc = pc
    BY <1>0, Zenon DEF NextState, Coordinator
  <2>2. pc \notin early \cup late
    OBVIOUS
  <2> HIDE DEF pc, seeds, inserts
  <2> QED BY <1>3, <2>1, <2>2
<1>6. co' = co => seeds /\ inserts
  OBVIOUS
<1> HIDE DEF owns, seeds, inserts
<1>7. CASE ListJobs
  <2>1. co'.pc = "reserve"
    BY <1>0, <1>7, Zenon DEF ListJobs, Coordinator
  <2> QED BY <1>2, <1>3, <1>7, <2>1 DEF ListJobs
<1>8. CASE SkipJobs
  BY <1>1, <1>2, <1>3, <1>8 DEF SkipJobs, CoPc
<1>9. CASE Reserve
  <2>1. CASE co.run /\ SyncMaintenanceReservations /\ CoGoto("prune")
    BY <1>1, <1>9, <2>1 DEF CoPc, owns, seeds, inserts
  <2>2. CASE WorkerExits /\ row' = row
    BY <1>2, <1>4, <2>2
  <2>3. CASE ~co.run /\ CoGoto("prune") /\ row' = row
    BY <1>1, <1>2, <1>9, <2>3 DEF CoPc, seeds, inserts
  <2> QED BY <1>9, <2>1, <2>2, <2>3 DEF Reserve
<1>10. CASE Prune
  <2>1. CoGoto("seed")
    BY <1>10 DEF Prune
  <2> QED BY <1>1, <1>10, <1>c, <2>1 DEF CoPc, owns, seeds, inserts
<1>11. CASE SeedState
  <2>1. co'.pc = "monitors"
    BY <1>1, <1>11 DEF SeedState, CoPc
  <2>2. owns
    BY <1>0, <1>11, RowFrames DEF SeedState, owns
  <2> QED BY <1>3, <2>1, <2>2
<1>12. CASE ListMonitors
  <2>1. PICK pc \in {"discover", "recover"} :
          co' = [co EXCEPT !.active = monitor = "ACTIVE", !.pc = pc,
                           !.started = @ \/ pc = "recover"]
    BY <1>12, Zenon DEF ListMonitors
  <2> DEFINE b == monitor = "ACTIVE"
             s == co.started \/ pc = "recover"
             x == [co EXCEPT !.active = b, !.pc = pc, !.started = s]
  <2>2. co' = x
    BY <1>0, <2>1, Zenon DEF Coordinator
  <2> HIDE DEF b, s
  <2>3. x.pc = pc
    BY <1>0, Zenon DEF Coordinator
  <2> QED BY <1>2, <1>3, <1>12, <2>2, <2>3 DEF ListMonitors
<1>13. CASE ApplyMonitorDiscovery
  <2>1. CASE reconcileMonitorTargetOwnership
             /\ co' = [co EXCEPT !.pc = "recover", !.started = TRUE]
    <3>1. co'.pc = "recover"
      BY <1>0, <2>1, Zenon DEF Coordinator
    <3>2. owns
      BY <1>0, <2>1, <3>1, StatementFrames DEF owns
    <3> QED BY <1>3, <3>1, <3>2
  <2> QED BY <1>2, <1>4, <1>13, <2>1 DEF ApplyMonitorDiscovery
<1>14. CASE RecoverLeases
  <2>1. co'.pc = "scan"
    BY <1>1, <1>14 DEF RecoverLeases, CoPc
  <2>2. row' = row \/ row' = [row EXCEPT !.lease = NoOne]
    BY <1>14, Zenon DEF RecoverLeases, RecoverExpiredMaintenanceLeases
  <2>3. row'.owner = row.owner
    BY <1>0, <2>2 DEF Row
  <2> QED BY <1>3, <2>1, <2>3 DEF owns
<1>15. CASE ScanStep
  <2>1. row'.owner = row.owner /\ (co'.pc \in {"load", "finish", "due"} \/ co' = co)
    BY <1>15, ScanFrames
  <2> QED BY <1>3, <1>6, <2>1 DEF owns
<1>16. CASE SkipScan
  <2>1. co'.pc = "due"
    BY <1>0, <1>16, Zenon DEF SkipScan, Coordinator
  <2> QED BY <1>2, <1>3, <1>16, <2>1 DEF SkipScan
<1>17. CASE LoadInventory
  <2>1. co'.pc = "save"
    BY <1>0, <1>17, Zenon DEF LoadInventory, Coordinator
  <2> QED BY <1>2, <1>3, <1>17, <2>1 DEF LoadInventory
<1>18. CASE DueState
  <2>1. co'.pc = "insert" /\ co'.owner = OwnerId(row.owner)
    BY <1>0, <1>18, Zenon DEF DueState, Coordinator
  <2> QED BY <1>2, <1>18, <2>1 DEF DueState, seeds, inserts
<1>19. CASE NotDue
  BY <1>2, <1>5, <1>19 DEF NotDue
<1>20. CASE EnqueueTask
  <2>1. co.pc = "insert" /\ CoGoto("advance")
    BY <1>20 DEF EnqueueTask, CoAt
  <2>2. row'.owner = row.owner
    BY <1>0, <1>20 DEF EnqueueTask, Row
  <2> QED BY <1>1, <2>1, <2>2 DEF CoPc, owns, seeds, inserts
<1>21. CASE AdvanceSchedule
  <2>1. row' = [row EXCEPT !.next = @ \cup {NextOp}, !.spent = @ \ {NextOp}]
    BY <1>21, Zenon DEF AdvanceSchedule
  <2>2. row'.owner = row.owner
    BY <1>0, <2>1, Zenon DEF Row
  <2> QED BY <1>5, <1>21, <2>2 DEF AdvanceSchedule, owns
<1> QED BY <1>7, <1>8, <1>9, <1>10, <1>11, <1>12, <1>13, <1>14, <1>15, <1>16, <1>17,
           <1>18, <1>19, <1>20, <1>21 DEF CoordinatorStep, ScanStep

(* A reservation succeeds only if no monitor's operation holds the table.   *)
LEMMA ReservingExcludes ==
  ASSUME row \in Row, HolderOK, OwnedOK, SyncMaintenanceReservations
  PROVE  ForJob /\ row'.owner \notin {"monitor", "unmanaged"} /\ reserved'
<1>1. ~row.live \/ OwnedBy("job")
  BY DEF SyncMaintenanceReservations, OwnershipBusy
<1>2. ~row.live => ForJob
  BY DEF ForJob, HolderOK
<1>3. row'.owner = IF row.owner \in {"monitor", "unmanaged"} THEN "streaming" ELSE row.owner
  BY StatementFrames
<1> QED BY <1>1, <1>2, <1>3 DEF OwnedOK, SyncMaintenanceReservations

(* A step of an executor keeps the owners apart.                            *)
LEMMA OwnerExecutor ==
  ASSUME TypeOK, HolderOK, OwnerInv, NEW e \in Executor, ExecutorStep(e)
  PROVE  OwnerInv'
<1>0. /\ ClaimFrame(e) \/ LeaseFrame(e)
      /\ PickFrame(e) /\ row'.owner = row.owner
      /\ \A f \in Executor \ {e} : exec'[f] = exec[f]
      /\ UNCHANGED <<reserved, monitor, job, release, co>>
  BY ExecutorFrames DEF execWorld, jobVars, WriteFrame
<1>1. ReservedOK' /\ DueOwnerOK'
  BY <1>0 DEF OwnerInv, ReservedOK, DueOwnerOK, Writing
<1>2. TaskOwnerOK'
  BY TaskFrames DEF KeepsTasks, TaskOwnerOK, OwnerInv
<1>3. OpOf[e] \in Op
  BY ConstantTypes
<1>4. ExecOwnerOK'
  <2>1. ASSUME NEW f \in Executor \ {e}, exec'[f].pc = "picked" \/ Busy(f)'
        PROVE  exec'[f].owner \in {"job", "monitor"}
    BY <1>0, <2>1 DEF OwnerInv, ExecOwnerOK, Busy, OnTable
  <2>2. ASSUME exec'[e].pc = "picked"
        PROVE  exec'[e].owner \in {"job", "monitor"}
    BY <1>0, <1>3, <2>2 DEF PickFrame, OwnerInv, ExecOwnerOK, TaskOwnerOK
  <2>3. ASSUME Busy(e)'
        PROVE  exec'[e].owner \in {"job", "monitor"}
    BY <1>0, <2>3 DEF ClaimFrame, LeaseFrame, OwnerInv, ExecOwnerOK
  <2> QED BY <2>1, <2>2, <2>3 DEF ExecOwnerOK
<1>5. CASE LeaseFrame(e)
  <2>1. \A f \in Executor : Holding(f)' => Holding(f) /\ exec'[f].owner = exec[f].owner
    BY <1>0, <1>5 DEF LeaseFrame, Holding, Busy, OnTable
  <2>2. ForJob => ForJob'
    BY <2>1 DEF ForJob
  <2>3. OwnedOK' /\ SeedOK' /\ (Writing' => ForJob')
    BY <1>0, <2>2 DEF OwnerInv, OwnedOK, OwnedBy, SeedOK, Writing
  <2> QED BY <1>1, <1>2, <1>4, <2>3 DEF OwnerInv
<1>6. CASE ClaimFrame(e)
  <2>1. \A f \in Executor : ~Holding(f)
    BY <1>6 DEF HolderOK, ClaimFrame
  <2>2. \A f \in Executor \ {e} : ~Holding(f)'
    BY <1>0, <1>6, <2>1 DEF Holding, Busy, OnTable, ClaimFrame
  <2>3. /\ exec'[e].owner \in {"job", "monitor"} /\ OwnerId(row.owner) = exec'[e].owner
        /\ reserved => exec'[e].owner = "job"
    BY <1>6 DEF ClaimFrame, OwnerMismatch, OwnedBy, OwnerInv, ExecOwnerOK
  <2>4. exec'[e].owner = "job" => ForJob'
    BY <2>2 DEF ForJob
  <2>5. OwnedOK'
    BY <1>0, <2>3, <2>4 DEF OwnedOK, OwnedBy
  <2>6. SeedOK'
    BY <1>0, <2>3, <2>4 DEF OwnerInv, SeedOK, OwnerId
  <2>7. Writing' => ForJob'
    BY <1>0, <2>3, <2>4 DEF OwnerInv, ReservedOK, Writing
  <2> QED BY <1>1, <1>2, <1>4, <2>5, <2>6, <2>7 DEF OwnerInv
<1> QED BY <1>0, <1>5, <1>6

(* So does a step of the coordinator.                                       *)
LEMMA OwnerCoordinator ==
  ASSUME TypeOK, HolderOK, OwnerInv, CoordinatorStep
  PROVE  OwnerInv'
<1>0. UNCHANGED <<job, release, exec, overran>> /\ row \in Row /\ tasks \in [Op -> Task]
  BY CoordinatorOwners DEF coWorld, jobVars, TypeOK
<1>1. (ForJob => ForJob') /\ (Writing' <=> Writing)
  BY <1>0 DEF ForJob, Holding, Busy, OnTable, Writing
<1>2. ReservedOK'
  BY <1>0, CoordinatorOwners DEF OwnerInv, ReservedOK, Writing
<1>3. ExecOwnerOK'
  BY <1>0 DEF OwnerInv, ExecOwnerOK, Busy, OnTable
<1>4. TaskOwnerOK'
  <2>1. CASE ~EnqueueTask
    BY <2>1, TaskFrames DEF KeepsTasks, TaskOwnerOK, OwnerInv
  <2>2. CASE EnqueueTask
    <3> DEFINE t == [NoTask EXCEPT !.owner = co.owner, !.status = "queued"]
    <3>1. co.owner \in {"job", "monitor"}
      BY <2>2 DEF EnqueueTask, CoAt, OwnerInv, DueOwnerOK
    <3>2. t.owner = co.owner
      BY DEF NoTask
    <3>3. tasks' = tasks \/ tasks' = [tasks EXCEPT ![NextOp] = t]
      BY <2>2, Zenon DEF EnqueueTask
    <3> HIDE DEF t
    <3> QED BY <1>0, <3>1, <3>2, <3>3 DEF OwnerInv, TaskOwnerOK
  <2> QED BY <2>1, <2>2
<1>5. DueOwnerOK'
  <2>1. InJobMap => OwnerId(row.owner) \in {"job", "monitor"}
    BY DEF InJobMap, OwnedBy
  <2> QED BY <2>1, CoordinatorOwners DEF OwnerInv, DueOwnerOK
<1>6. OwnedOK'
  <2>1. CASE row'.owner = row.owner
    BY <1>1, <2>1 DEF OwnerInv, OwnedOK, OwnedBy
  <2>2. CASE row'.owner \in {"unmanaged", "monitor"}
    BY <2>2 DEF OwnedOK, OwnedBy, OwnerId
  <2>3. CASE Reserve /\ SyncMaintenanceReservations
    BY <1>0, <1>1, <2>3, ReservingExcludes DEF OwnerInv, OwnedOK
  <2>4. CASE SeedState /\ co.run
    BY <1>1, <2>4 DEF OwnerInv, SeedOK, OwnedOK, SeedState, CoAt
  <2>5. CASE ~row.live
    BY <1>1, <2>5 DEF OwnedOK, ForJob, HolderOK
  <2> QED BY <2>1, <2>2, <2>3, <2>4, <2>5, CoordinatorOwners
<1>7. SeedOK'
  <2> SUFFICES ASSUME co'.pc \in {"prune", "seed"}, co'.run
               PROVE  row'.owner # "monitor" /\ ForJob'
    BY DEF SeedOK
  <2>1. co.run /\ (co' = co \/ (Reserve /\ SyncMaintenanceReservations) \/ Prune)
    BY CoordinatorOwners
  <2>2. CASE Reserve /\ SyncMaintenanceReservations
    BY <1>0, <1>1, <2>2, ReservingExcludes DEF OwnerInv
  <2>3. CASE Prune
    <3>1. co.pc = "prune" /\ row'.owner \in {row.owner, "unmanaged"}
      BY <2>3, CoordinatorOwners DEF Prune, CoAt
    <3> QED BY <1>1, <2>1, <3>1 DEF OwnerInv, SeedOK
  <2>4. CASE co' = co /\ ~Prune /\ ~(Reserve /\ SyncMaintenanceReservations)
    <3>1. row.owner # "monitor" /\ ForJob
      BY <2>1, <2>4 DEF OwnerInv, SeedOK
    <3>2. row'.owner # "monitor"
      BY <2>4, <3>1, CoordinatorOwners
    <3> QED BY <1>1, <3>1, <3>2
  <2> QED BY <2>1, <2>2, <2>3, <2>4
<1>8. Writing' => ForJob'
  BY <1>1 DEF OwnerInv
<1> QED BY <1>2, <1>3, <1>4, <1>5, <1>6, <1>7, <1>8 DEF OwnerInv

(* So does a step of the job, when its table is released before it is       *)
(* submitted again.                                                         *)
LEMMA OwnerJob ==
  ASSUME PromptRelease, TypeOK, HolderOK, OwnerInv, JobStep
  PROVE  OwnerInv'
<1>0. UNCHANGED <<exec, overran, co>> /\ row \in Row
  BY DEF JobStep, JobStart, JobReserve, StartFailed, JobCommit, SnapshotComplete,
     PersistSignal, JobStop, JobDrained, JobRelease, jobWorld, TypeOK
<1>1. ForJob => ForJob'
  BY <1>0 DEF ForJob, Holding, Busy, OnTable
<1>2. ReservedOK'
  <2>1. ReservedOK
    BY DEF OwnerInv
  <2>2. CASE JobReserve
    <3>1. release' # "pending" /\ reserved' /\ job' = "on"
      BY <2>1, <2>2 DEF JobReserve, SyncMaintenanceReservations, ReservedOK
    <3> QED BY <3>1 DEF ReservedOK, Writing
  <2>3. CASE JobRelease
    <3>1. job' = job /\ job \notin {"starting", "on", "stopping"}
      BY <2>1, <2>3 DEF JobRelease, ReservedOK
    <3> QED BY <3>1 DEF ReservedOK, Writing
  <2>4. CASE ~JobReserve /\ ~JobRelease
    BY <2>1, <2>4 DEF JobStep, JobStart, StartFailed, JobCommit, SnapshotComplete,
       PersistSignal, JobStop, JobDrained, ReservedOK, Writing
  <2> QED BY <2>2, <2>3, <2>4
<1>3. TaskOwnerOK'
  BY TaskFrames DEF KeepsTasks, TaskOwnerOK, OwnerInv
<1>4. DueOwnerOK' /\ ExecOwnerOK'
  BY <1>0 DEF OwnerInv, DueOwnerOK, ExecOwnerOK, Busy, OnTable
<1>5. CASE JobReserve
  <2>1. ForJob /\ row'.owner # "monitor"
    BY <1>0, <1>5, ReservingExcludes DEF JobReserve, OwnerInv
  <2> QED BY <1>1, <1>2, <1>3, <1>4, <2>1 DEF OwnerInv, OwnedOK, SeedOK
<1>6. CASE ~JobReserve
  <2>1. row'.owner \in {row.owner, "unmanaged"}
    BY <1>6, JobFrames
  <2>2. Writing' => Writing
    BY <1>6 DEF JobStep, JobStart, StartFailed, JobCommit, SnapshotComplete,
       PersistSignal, JobStop, JobDrained, JobRelease, Writing
  <2>3. OwnedOK'
    BY <1>1, <2>1 DEF OwnerInv, OwnedOK, OwnedBy, OwnerId
  <2>4. SeedOK'
    BY <1>0, <1>1, <2>1 DEF OwnerInv, SeedOK
  <2> QED BY <1>1, <1>2, <1>3, <1>4, <2>2, <2>3, <2>4 DEF OwnerInv
<1> QED BY <1>5, <1>6

(* So do the requests of users, and the exits of the worker.                *)
LEMMA OwnerRest ==
  ASSUME TypeOK, OwnerInv, UserStep \/ Crash \/ Shutdown \/ Restart \/ UNCHANGED vars
  PROVE  OwnerInv'
<1>1. CASE UserStep
  <2>1. UNCHANGED <<exec, overran, co, job, release, reserved>>
    BY <1>1 DEF UserStep, CreateMonitor, PauseMonitor, ResumeMonitor, DeleteMonitor,
       RequestInventoryRefresh, userWorld, jobVars
  <2>2. (ForJob => ForJob') /\ (Writing' <=> Writing)
    BY <2>1 DEF ForJob, Holding, Busy, OnTable, Writing
  <2>3. row'.owner \in {row.owner, "deleted-monitor"}
    BY <1>1, UserFrames
  <2>4. TaskOwnerOK'
    BY <1>1, TaskFrames DEF KeepsTasks, TaskOwnerOK, OwnerInv
  <2>5. ReservedOK' /\ DueOwnerOK' /\ ExecOwnerOK'
    BY <2>1 DEF OwnerInv, ReservedOK, Writing, DueOwnerOK, ExecOwnerOK, Busy, OnTable
  <2>6. OwnedOK'
    BY <2>2, <2>3 DEF OwnerInv, OwnedOK, OwnedBy, OwnerId
  <2>7. SeedOK'
    BY <2>1, <2>2, <2>3 DEF OwnerInv, SeedOK
  <2> QED BY <2>2, <2>4, <2>5, <2>6, <2>7 DEF OwnerInv
<1>2. CASE Crash \/ Shutdown \/ Restart
  <2>1. /\ UNCHANGED <<row, tasks, reserved, job, release>>
        /\ co'.pc = "sleep" \/ co' = co
        /\ \/ exec' = exec /\ overran' = overran
           \/ \A e \in Executor : exec'[e].pc = "idle"
    BY <1>2, ExitFrames DEF jobVars
  <2>2. (ForJob => ForJob') /\ (Writing' <=> Writing)
    BY <2>1 DEF ForJob, Holding, Busy, OnTable, Working, Writing
  <2>3. ReservedOK' /\ TaskOwnerOK' /\ DueOwnerOK'
    BY <2>1 DEF OwnerInv, ReservedOK, Writing, TaskOwnerOK, DueOwnerOK
  <2>4. ExecOwnerOK'
    BY <2>1 DEF OwnerInv, ExecOwnerOK, Busy, OnTable, Working
  <2>5. OwnedOK' /\ SeedOK'
    BY <2>1, <2>2 DEF OwnerInv, OwnedOK, OwnedBy, SeedOK
  <2> QED BY <2>2, <2>3, <2>4, <2>5 DEF OwnerInv
<1>3. CASE UNCHANGED vars
  BY <1>3 DEF vars, OwnerInv, ReservedOK, TaskOwnerOK, DueOwnerOK, ExecOwnerOK, OwnedOK, SeedOK,
     ForJob, Writing, OwnedBy, Holding, Busy, OnTable
<1> QED BY <1>1, <1>2, <1>3

(* The table has no owner yet.                                              *)
LEMMA InitOwner == Init => OwnerInv
<1>1. /\ Idle.pc = "idle" /\ Asleep.pc = "sleep"
      /\ NoTask.status \notin Active
  BY DEF Idle, Asleep, NoTask, Active, Pending
<1>2. Init => ForJob /\ ~Writing /\ co.pc = "sleep"
  BY <1>1 DEF Init, ForJob, Holding, Busy, OnTable, Working, Writing
<1>3. Init => ReservedOK /\ TaskOwnerOK /\ DueOwnerOK /\ ExecOwnerOK
  BY <1>1 DEF Init, ReservedOK, Writing, TaskOwnerOK, DueOwnerOK, ExecOwnerOK, Busy, OnTable,
     Working
<1> QED BY <1>2, <1>3 DEF OwnerInv, OwnedOK, SeedOK

(* OwnerInv is an invariant when a stopped job releases its table before it *)
(* is submitted again: the running job's reservation is active, and what    *)
(* works on a table that is the job's, or that the coordinator is about to  *)
(* give to the job, works for the job or has lost its lease.                *)
THEOREM OwnerInductive == ASSUME PromptRelease PROVE Spec => []OwnerInv
<1>1. Init => (TypeOK /\ TodoOK) /\ LeaseInv /\ OwnerInv
  BY InitTypes, InitLease, InitOwner
<1>2. TypeOK /\ LeaseInv /\ OwnerInv /\ [Next]_vars => OwnerInv'
  <2> SUFFICES ASSUME TypeOK, HolderOK, OwnerInv, [Next]_vars PROVE OwnerInv'
    BY DEF LeaseInv
  <2> QED BY OwnerExecutor, OwnerCoordinator, OwnerJob, OwnerRest DEF Next
<1>3. (TypeOK /\ TodoOK) /\ LeaseInv /\ OwnerInv /\ [Next]_vars
        => (TypeOK /\ TodoOK)' /\ LeaseInv' /\ OwnerInv'
  BY <1>2, TypeStep, LeaseStep
<1> QED BY <1>1, <1>3, PTL DEF Spec

(* StreamProtected, for any number of executors: the reservation of         *)
(* Job.start, the claim of claimTaskForMaintenance, discovery and the       *)
(* seeding from an old job list never let a monitor's task work on the      *)
(* table while the job writes it, unless that task has lost its lease.      *)
THEOREM JobProtected == ASSUME PromptRelease PROVE Spec => []StreamProtected
<1>1. OwnerInv => StreamProtected
  BY DEF OwnerInv, StreamProtected, Writing, ForJob, Holding, Busy, AtWork
<1> QED BY <1>1, OwnerInductive, PTL

-----------------------------------------------------------------------------
(* Snapshots *)

\* A signal of a commit tells of a snapshot up to h.
Tells(s, h) == s.kind = "commit" => s.snap <= h
KnownSignals(q, h) == \A i \in DOMAIN q : Tells(q[i], h)

(* The channel of the sink: one signal more, one less, or none.             *)
LEMMA SignalFrames ==
  ASSUME signals \in Seq(Signal), NEW h \in Nat, NEW k \in Nat, h <= k,
         KnownSignals(signals, h)
  PROVE  /\ KnownSignals(signals, k) /\ KnownSignals(<<>>, k)
         /\ \A s \in Signal : Tells(s, k) => KnownSignals(enqueue(s), k)
         /\ signals # <<>> =>
              Tells(Head(signals), h) /\ KnownSignals(Tail(signals), h)
<1>1. \A s \in Signal : s.kind = "commit" => s.snap \in Nat
  BY QueueAssumption DEF Signal, Snapshot
<1>2. \A i \in DOMAIN signals : signals[i] \in Signal
  OBVIOUS
<1>3. KnownSignals(signals, k)
  <2>1. ASSUME NEW i \in DOMAIN signals PROVE Tells(signals[i], k)
    <3>1. Tells(signals[i], h) /\ signals[i] \in Signal
      BY <1>2 DEF KnownSignals
    <3> DEFINE s == signals[i]
    <3> HIDE DEF s
    <3>2. s.kind = "commit" => s.snap \in Nat
      BY <1>1, <3>1 DEF s
    <3> QED BY <3>1, <3>2 DEF Tells, s
  <2> QED BY <2>1 DEF KnownSignals
<1>4. KnownSignals(<<>>, k)
  BY DEF KnownSignals
<1>5. ASSUME NEW s \in Signal, Tells(s, k) PROVE KnownSignals(enqueue(s), k)
  <2>1. /\ DOMAIN Append(signals, s) = 1 .. Len(signals) + 1
        /\ DOMAIN signals = 1 .. Len(signals) /\ Len(signals) \in Nat
    OBVIOUS
  <2>2. \A i \in DOMAIN Append(signals, s) :
          Append(signals, s)[i] = IF i = Len(signals) + 1 THEN s ELSE signals[i]
    BY <2>1
  <2>3. \A i \in DOMAIN Append(signals, s) : i # Len(signals) + 1 => i \in DOMAIN signals
    BY <2>1
  <2>4. KnownSignals(Append(signals, s), k)
    BY <1>3, <1>5, <2>2, <2>3 DEF KnownSignals
  <2> QED BY <1>3, <2>4 DEF enqueue
<1>6. ASSUME signals # <<>>
      PROVE  Tells(Head(signals), h) /\ KnownSignals(Tail(signals), h)
  <2>1. Len(signals) \in Nat \ {0} /\ DOMAIN signals = 1 .. Len(signals)
        /\ Head(signals) = signals[1]
    BY <1>6
  <2>2. Tells(Head(signals), h)
    BY <2>1 DEF KnownSignals
  <2>3. \A i \in DOMAIN Tail(signals) :
          Tail(signals)[i] = signals[i + 1] /\ i + 1 \in DOMAIN signals
    BY <1>6, <2>1
  <2>4. KnownSignals(Tail(signals), h)
    BY <2>3 DEF KnownSignals
  <2> QED BY <2>2, <2>4
<1> QED BY <1>3, <1>4, <1>5, <1>6

(* Snapshots are numbers.                                                   *)
LEMMA SnapshotNat == Snapshot \subseteq Nat
BY QueueAssumption DEF Snapshot

(* A commit raises the table's snapshot and signals it; a persisted signal  *)
(* makes no snapshot known that the table does not have.                    *)
LEMMA SnapshotJob ==
  ASSUME TypeOK, KnownOK, JobStep
  PROVE  KnownOK' /\ head <= head'
<1>0. /\ row \in Row /\ signals \in Seq(Signal) /\ head \in Nat
      /\ row.inv \in Nat /\ row.last \in Nat /\ done \in BOOLEAN
      /\ Len(signals) <= SignalLimit
  <2>1. /\ row \in Row /\ signals \in Seq(Signal) /\ head \in Snapshot /\ done \in BOOLEAN
        /\ Len(signals) <= SignalLimit
    BY DEF TypeOK
  <2>2. row.inv \in Snapshot /\ row.last \in Snapshot
    BY <2>1, RowFields
  <2> QED BY <2>1, <2>2, SnapshotNat
<1>1. KnownOK <=> row.inv <= head /\ row.last <= head /\ KnownSignals(signals, head)
  BY DEF KnownOK, KnownSignals, Tells
<1>2. KnownOK' <=> row'.inv <= head' /\ row'.last <= head' /\ KnownSignals(signals', head')
  BY DEF KnownOK, KnownSignals, Tells
<1>3. row'.inv = row.inv /\ (~PersistSignal => row'.last = row.last)
  BY JobFrames
<1>4. CASE JobCommit
  <2> DEFINE s == [kind |-> "commit", snap |-> head + 1, complete |-> done]
  <2>1. head' = head + 1 /\ signals' = enqueue(s) /\ ~PersistSignal
    <3>1. head' # head
      BY <1>0, <1>4 DEF JobCommit
    <3> QED BY <1>4, <3>1 DEF JobCommit, PersistSignal
  <2>2. s \in Signal /\ Tells(s, head + 1)
    <3>1. head + 1 \in Snapshot
      BY <1>0, <1>4, QueueAssumption DEF JobCommit, Snapshot
    <3> QED BY <1>0, <3>1 DEF Signal, Tells
  <2> HIDE DEF s
  <2>3. KnownSignals(signals', head + 1)
    BY <1>0, <1>1, <2>1, <2>2, SignalFrames
  <2> QED BY <1>0, <1>1, <1>2, <1>3, <2>1, <2>3
<1>5. CASE PersistSignal
  <2> DEFINE s == Head(signals)
  <2>1. signals # <<>> /\ signals' = Tail(signals) /\ head' = head
        /\ row' \in {row} \cup (IF s.kind = "commit" THEN CoalesceSignal(row, s)
                                ELSE SetSnapshotCompleteForOwner(row, s.complete))
    BY <1>5, Zenon DEF PersistSignal
  <2>2. s \in Signal /\ Tells(s, head) /\ KnownSignals(signals', head)
    BY <1>0, <1>1, <2>1, SignalFrames, SignalTypes
  <2>3. s.complete \in BOOLEAN
    BY <2>2 DEF Signal
  <2> HIDE DEF s
  <2>4. row'.last <= head
    <3>1. CASE row' = row
      BY <1>1, <3>1
    <3>2. CASE s.kind = "commit" /\ row' \in CoalesceSignal(row, s)
      <4>1. row'.last \in {row.last, s.snap}
        BY <1>0, <2>2, <3>2, CoalesceFrames
      <4> QED BY <1>1, <2>2, <3>2, <4>1 DEF Tells
    <3>3. CASE row' \in SetSnapshotCompleteForOwner(row, s.complete)
      <4>1. Keeps(row', row)
        BY <1>0, <2>3, <3>3, RowFrames
      <4> QED BY <1>1, <4>1 DEF Keeps, KeepsSnapshots
    <3> QED BY <2>1, <3>1, <3>2, <3>3
  <2> QED BY <1>0, <1>1, <1>2, <1>3, <2>1, <2>2, <2>4
<1>6. CASE ~JobCommit /\ ~PersistSignal
  <2>1. head' = head
    BY <1>6 DEF JobStep, JobStart, JobReserve, StartFailed, SnapshotComplete, JobStop, JobDrained,
       JobRelease
  <2>2. \/ signals' \in {signals, <<>>}
        \/ \E b \in BOOLEAN : signals' = enqueue([kind |-> "barrier", complete |-> b])
    BY <1>6 DEF JobStep, JobStart, JobReserve, StartFailed, SnapshotComplete, JobStop, JobDrained,
       JobRelease
  <2>3. \A b \in BOOLEAN : /\ [kind |-> "barrier", complete |-> b] \in Signal
                           /\ Tells([kind |-> "barrier", complete |-> b], head)
    BY DEF Signal, Tells
  <2>4. /\ KnownSignals(signals, head) /\ KnownSignals(<<>>, head)
        /\ \A s \in Signal : Tells(s, head) => KnownSignals(enqueue(s), head)
    <3>1. KnownSignals(signals, head) /\ head <= head
      BY <1>0, <1>1
    <3> QED BY <1>0, <3>1, SignalFrames
  <2>5. KnownSignals(signals', head)
    BY <2>2, <2>3, <2>4
  <2> QED BY <1>0, <1>1, <1>2, <1>3, <1>6, <2>1, <2>5
<1> QED BY <1>4, <1>5, <1>6

(* What a step does to the inventory: it stays, or what replaces it is not  *)
(* older, and whoever else has read the table will not be older either.     *)
LEMMA SnapshotExecutor ==
  ASSUME Timely, TypeOK, LeaseInv, ScanOK, SnapshotInv, NEW e \in Executor, ExecutorStep(e),
         TypeOK'
  PROVE  SnapshotInv' /\ row.inv <= row'.inv
<1>0. /\ ClaimFrame(e) \/ LeaseFrame(e)
      /\ ReadFrame(e) /\ WriteFrame(e) /\ exec[e] \in Exec
      /\ \A f \in Executor \ {e} : exec'[f] = exec[f]
      /\ head' \in {head, head + 1} /\ UNCHANGED <<co, signals>>
  BY ExecutorFrames DEF execWorld, jobVars, TypeOK
<1>1. /\ row.inv \in Nat /\ row.last \in Nat /\ head \in Nat /\ co.claimed \in Nat
      /\ co.read \in Nat /\ \A f \in Executor : exec[f].snap \in Nat
  <2>1. /\ row \in Row /\ co \in Coordinator /\ head \in Snapshot
        /\ \A f \in Executor : exec[f] \in Exec
    BY DEF TypeOK
  <2> QED BY <2>1, RowFields, CoFields, ExecFields, SnapshotNat
<1>2. head <= head' /\ head' \in Nat
  BY <1>0, <1>1
<1>3. overran = {} /\ KnownOK /\ ScanReadOK /\ ExecReadOK
  BY DEF SnapshotInv
<1>4. overran' = {}
  <2>1. overran' \in SUBSET Executor
    BY DEF TypeOK
  <2>2. \A f \in Executor : f \notin overran'
    BY <1>0, <1>3 DEF ClaimFrame, LeaseFrame
  <2> QED BY <2>1, <2>2
<1>5. \A f \in Executor : exec[f].pc \in {"save", "resave"} => Holding(f)
  BY <1>3 DEF Holding, Busy, OnTable, Working
<1>6. /\ row.inv <= row'.inv /\ row'.inv <= head
      /\ row'.inv \in Nat /\ row'.last = row.last
  <2>1. CASE row'.inv = row.inv
    BY <1>0, <1>1, <1>3, <2>1 DEF WriteFrame, KnownOK
  <2>2. CASE row'.inv = exec[e].snap /\ exec[e].pc \in {"save", "resave"}
    <3>1. exec[e].snap \in row.inv .. head
      BY <1>3, <2>2 DEF ExecReadOK
    <3> QED BY <1>0, <1>1, <2>2, <3>1 DEF WriteFrame
  <2> QED BY <1>0, <2>1, <2>2 DEF WriteFrame
<1>7. KnownOK'
  <2>1. row.last <= head'
    BY <1>1, <1>2, <1>3 DEF KnownOK
  <2>2. KnownSignals(signals, head)
    BY <1>3 DEF KnownOK, KnownSignals, Tells
  <2>3. KnownSignals(signals, head')
    <3>1. signals \in Seq(Signal)
      BY DEF TypeOK
    <3> QED BY <1>1, <1>2, <2>2, <3>1, SignalFrames
  <2> QED BY <1>0, <1>1, <1>2, <1>6, <2>1, <2>3 DEF KnownOK, KnownSignals, Tells
<1>8. co.pc \in ScanAt => row'.inv = row.inv
  <2>1. exec[e].pc \in {"save", "resave"} => co.pc \notin ScanAt
    BY <1>5 DEF ScanOK
  <2> QED BY <1>0, <2>1 DEF WriteFrame
<1>9. ScanReadOK'
  BY <1>0, <1>1, <1>2, <1>3, <1>8 DEF ScanReadOK, ScanAt
<1>10. ExecReadOK'
  <2>1. ASSUME NEW f \in Executor \ {e}, exec'[f].pc \in {"save", "resave"}
        PROVE  exec'[f].snap \in row'.inv .. head'
    <3>1. exec'[f] = exec[f] /\ exec[f].snap \in row.inv .. head
      BY <1>0, <1>3, <2>1 DEF ExecReadOK
    <3>2. row.lease = f
      BY <1>0, <1>5, <2>1, <3>1 DEF LeaseInv, HolderOK
    <3>3. exec[e].pc \notin {"save", "resave"}
      BY <1>5, <3>2 DEF LeaseInv, HolderOK
    <3>4. row'.inv = row.inv
      BY <1>0, <3>3 DEF WriteFrame
    <3> QED BY <1>1, <1>2, <3>1, <3>4
  <2>2. ASSUME exec'[e].pc \in {"save", "resave"}
        PROVE  exec'[e].snap \in row'.inv .. head'
    <3>1. row'.inv = row.inv
      BY <1>0, <2>2 DEF WriteFrame
    <3>2. CASE exec'[e].snap = head
      BY <1>1, <1>2, <1>6, <3>2
    <3>3. CASE exec'[e] = exec[e]
      <4>1. exec[e].snap \in row.inv .. head
        BY <1>3, <2>2, <3>3 DEF ExecReadOK
      <4> QED BY <1>1, <1>2, <3>1, <3>3, <4>1
    <3> QED BY <1>0, <2>2, <3>2, <3>3 DEF ReadFrame
  <2> QED BY <2>1, <2>2 DEF ExecReadOK
<1> QED BY <1>4, <1>6, <1>7, <1>9, <1>10 DEF SnapshotInv

(* A request is dropped only by a scan that finds no commit since it began. *)
LEMMA SnapshotCoordinator ==
  ASSUME TypeOK, LeaseInv, ScanOK, SnapshotInv, CoordinatorStep
  PROVE  /\ SnapshotInv' /\ row.inv <= row'.inv
         /\ KeepsRequest(row', row) \/ row'.last <= row'.inv
<1>0. UNCHANGED <<signals, head, exec, overran>>
  BY CoordinatorOwners DEF coWorld, jobVars
<1>1. /\ row.inv \in Nat /\ row.last \in Nat /\ head \in Nat /\ co.claimed \in Nat
      /\ co.read \in Nat /\ co \in Coordinator
  <2>1. row \in Row /\ co \in Coordinator /\ head \in Snapshot
    BY DEF TypeOK
  <2> QED BY <2>1, RowFields, CoFields, SnapshotNat
<1>2. overran = {} /\ KnownOK /\ ScanReadOK /\ ExecReadOK
  BY DEF SnapshotInv
<1>3. ASSUME row'.last = row.last, row'.inv = row.inv, ScanReadOK'
      PROVE  SnapshotInv' /\ row.inv <= row'.inv
  BY <1>0, <1>1, <1>2, <1>3 DEF SnapshotInv, KnownOK, ExecReadOK
<1>4. co'.pc \notin ScanAt => ScanReadOK'
  BY DEF ScanReadOK, ScanAt
<1>5. CASE ~ScanStep
  <2>1. /\ row'.last = row.last /\ row'.inv = row.inv /\ KeepsRequest(row', row)
        /\ co'.pc \notin ScanAt \/ LoadInventory
    BY <1>5, CoordinatorFrames DEF KeepsSnapshots
  <2>2. ASSUME LoadInventory PROVE ScanReadOK'
    <3>1. co.pc = "load" /\ co'.pc = "save" /\ co'.read = head /\ co'.claimed = co.claimed
      BY <1>1, <2>2, Zenon DEF LoadInventory, CoAt, Coordinator
    <3>2. co.claimed <= head /\ row.inv <= head
      BY <1>2, <3>1 DEF ScanReadOK, KnownOK
    <3> QED BY <1>0, <1>1, <2>1, <3>1, <3>2 DEF ScanReadOK
  <2> QED BY <1>3, <1>4, <2>1, <2>2
<1>6. CASE ScanStep
  <2>1. /\ row'.last = row.last
        /\ \/ /\ ClaimInventory /\ row'.inv = row.inv /\ row'.nextInv
              /\ co'.pc = "load" /\ co'.claimed = row.last
           \/ /\ row'.inv = co.read /\ row'.nextInv = row.nextInv
              /\ co.pc = "save" /\ co'.pc = "finish" /\ co'.claimed = co.claimed
           \/ /\ row'.inv = row.inv /\ row'.nextInv = (row.last # co.claimed)
              /\ co.pc = "finish" /\ co'.pc = "due"
           \/ row'.inv = row.inv /\ (row.nextInv => row'.nextInv) /\ co'.pc = "due"
           \/ row'.inv = row.inv /\ row'.nextInv = row.nextInv /\ co' = co
    BY <1>6, ScanFrames
  <2>2. CASE row'.inv = row.inv /\ row'.nextInv /\ co'.pc = "load" /\ co'.claimed = row.last
    <3>1. ScanReadOK'
      BY <1>0, <1>1, <1>2, <2>2 DEF ScanReadOK, KnownOK
    <3> QED BY <1>3, <2>1, <2>2, <3>1 DEF KeepsRequest
  <2>3. CASE /\ row'.inv = co.read /\ row'.nextInv = row.nextInv
             /\ co.pc = "save" /\ co'.pc = "finish" /\ co'.claimed = co.claimed
    <3>1. co.read \in row.inv .. head /\ co.claimed <= co.read
      BY <1>2, <2>3 DEF ScanReadOK
    <3>2. row.inv <= row'.inv /\ row'.inv <= head
      BY <1>1, <2>3, <3>1
    <3>3. ScanReadOK'
      BY <1>1, <2>3, <3>1 DEF ScanReadOK
    <3>4. \A f \in Executor : exec[f].pc \notin {"save", "resave"}
      BY <1>2, <2>3 DEF ScanOK, ScanAt, Holding, Busy, OnTable, Working
    <3>5. ExecReadOK'
      BY <1>0, <3>4 DEF ExecReadOK
    <3>6. KnownOK'
      BY <1>0, <1>2, <2>1, <3>2 DEF KnownOK
    <3> QED BY <1>0, <1>2, <2>3, <3>2, <3>3, <3>5, <3>6 DEF SnapshotInv, KeepsRequest
  <2>4. CASE /\ row'.inv = row.inv /\ row'.nextInv = (row.last # co.claimed)
             /\ co.pc = "finish" /\ co'.pc = "due"
    <3>1. ScanReadOK'
      BY <1>4, <2>4 DEF ScanAt
    <3>2. row'.nextInv \/ row'.last <= row'.inv
      BY <1>2, <2>1, <2>4 DEF ScanReadOK
    <3> QED BY <1>3, <2>1, <2>4, <3>1, <3>2 DEF KeepsRequest
  <2>5. CASE row'.inv = row.inv /\ (row.nextInv => row'.nextInv) /\ co'.pc = "due"
    <3>1. ScanReadOK'
      BY <1>4, <2>5 DEF ScanAt
    <3> QED BY <1>3, <2>1, <2>5, <3>1 DEF KeepsRequest
  <2>6. CASE row'.inv = row.inv /\ row'.nextInv = row.nextInv /\ co' = co
    <3>1. ScanReadOK'
      BY <1>0, <1>2, <2>6 DEF ScanReadOK
    <3> QED BY <1>3, <2>1, <2>6, <3>1 DEF KeepsRequest
  <2> QED BY <2>1, <2>2, <2>3, <2>4, <2>5, <2>6
<1> QED BY <1>5, <1>6

(* A step of anybody.                                                       *)
LEMMA SnapshotStep ==
  ASSUME ~LongLoops, Timely, TypeOK, TypeOK', LeaseInv, SnapshotInv, [Next]_vars
  PROVE  /\ SnapshotInv' /\ row.inv <= row'.inv
         /\ monitor' = monitor => KeepsRequest(row', row) \/ row'.last <= row'.inv
<1>0. ScanOK /\ overran = {} /\ KnownOK /\ ScanReadOK /\ ExecReadOK
  BY DEF LeaseInv, SnapshotInv
<1>1. row.inv \in Nat /\ head \in Nat /\ head' \in Nat /\ co.claimed \in Nat
      /\ \A f \in Executor : exec[f].snap \in Nat
  <2>1. /\ row \in Row /\ co \in Coordinator /\ head \in Snapshot /\ head' \in Snapshot
        /\ \A f \in Executor : exec[f] \in Exec
    BY DEF TypeOK, Snapshot
  <2> QED BY <2>1, RowFields, CoFields, ExecFields, SnapshotNat
<1>2. ASSUME UNCHANGED <<exec, overran, co>>, row'.inv = row.inv, head <= head', KnownOK'
      PROVE  SnapshotInv' /\ row.inv <= row'.inv
  <2>1. ScanReadOK'
    BY <1>0, <1>1, <1>2 DEF ScanReadOK
  <2>2. ExecReadOK'
    BY <1>0, <1>1, <1>2 DEF ExecReadOK
  <2> QED BY <1>0, <1>1, <1>2, <2>1, <2>2 DEF SnapshotInv
<1>3. CASE \E e \in Executor : ExecutorStep(e)
  <2>1. PICK e \in Executor : ExecutorStep(e)
    BY <1>3
  <2>2. KeepsRequest(row', row)
    BY <2>1, ExecutorFrames DEF WriteFrame, KeepsRequest
  <2> QED BY <1>0, <2>1, <2>2, SnapshotExecutor
<1>4. CASE CoordinatorStep
  BY <1>0, <1>4, SnapshotCoordinator
<1>5. CASE JobStep
  <2>1. UNCHANGED <<exec, overran, co>>
    BY <1>5 DEF JobStep, JobStart, JobReserve, StartFailed, JobCommit, SnapshotComplete,
       PersistSignal, JobStop, JobDrained, JobRelease, jobWorld
  <2> QED BY <1>0, <1>2, <1>5, <2>1, JobFrames, SnapshotJob
<1>6. CASE UserStep
  <2>1. UNCHANGED <<exec, overran, co, head, signals>>
    BY <1>6 DEF UserStep, CreateMonitor, PauseMonitor, ResumeMonitor, DeleteMonitor,
       RequestInventoryRefresh, userWorld, jobVars
  <2>2. KeepsSnapshots(row', row) /\ (monitor' = monitor => KeepsRequest(row', row))
    BY <1>6, UserFrames
  <2>3. KnownOK' /\ head <= head'
    BY <1>0, <1>1, <2>1, <2>2 DEF KnownOK, KeepsSnapshots
  <2> QED BY <1>2, <2>1, <2>2, <2>3 DEF KeepsSnapshots
<1>7. CASE Crash \/ Shutdown \/ Restart
  <2>1. /\ UNCHANGED <<row, head, signals>>
        /\ co'.pc = "sleep" \/ co' = co
        /\ \/ exec' = exec /\ overran' = overran
           \/ \A e \in Executor : exec'[e].pc = "idle" /\ overran' = {}
    BY <1>7, ExitFrames DEF jobVars
  <2>2. overran' = {}
    <3>1. Executor # {}
      BY QueueAssumption DEF Op
    <3> QED BY <1>0, <2>1, <3>1
  <2>3. KnownOK' /\ ScanReadOK' /\ ExecReadOK' /\ KeepsRequest(row', row)
    BY <1>0, <2>1 DEF KnownOK, ScanReadOK, ExecReadOK, KeepsRequest
  <2> QED BY <1>1, <2>1, <2>2, <2>3 DEF SnapshotInv
<1>8. CASE UNCHANGED vars
  <2>1. UNCHANGED <<exec, overran, co, row, head, signals>>
    BY <1>8 DEF vars
  <2>2. KnownOK' /\ ScanReadOK' /\ ExecReadOK' /\ KeepsRequest(row', row)
    BY <1>0, <2>1 DEF KnownOK, ScanReadOK, ExecReadOK, KeepsRequest
  <2> QED BY <1>0, <1>1, <2>1, <2>2 DEF SnapshotInv
<1> QED BY <1>3, <1>4, <1>5, <1>6, <1>7, <1>8 DEF Next

(* Nothing has been read, and no commit is signalled.                       *)
LEMMA InitSnapshot == Init => SnapshotInv
<1>1. Idle.pc = "idle" /\ Asleep.pc = "sleep"
  BY DEF Idle, Asleep
<1>2. Init => KnownOK
  BY DEF Init, KnownOK
<1> QED BY <1>1, <1>2 DEF Init, SnapshotInv, ScanReadOK, ExecReadOK

(* SnapshotInv is an invariant when executors renew in time and loops end   *)
(* in time: what a scan or an executor has read of the table is not older   *)
(* than the stored inventory, and the scan knows every commit that was      *)
(* signalled before its claim.                                              *)
THEOREM SnapshotInductive ==
  ASSUME ~LongLoops, Timely
  PROVE  Spec => [](TypeOK /\ LeaseInv /\ SnapshotInv)
<1>1. Init => (TypeOK /\ TodoOK) /\ LeaseInv /\ SnapshotInv
  BY InitTypes, InitLease, InitSnapshot
<1>2. (TypeOK /\ TodoOK) /\ LeaseInv /\ SnapshotInv /\ [Next]_vars
        => (TypeOK /\ TodoOK)' /\ LeaseInv' /\ SnapshotInv'
  <2>1. (TypeOK /\ TodoOK) /\ LeaseInv /\ [Next]_vars => (TypeOK /\ TodoOK)' /\ LeaseInv'
    BY TypeStep, LeaseStep
  <2> QED BY <2>1, SnapshotStep
<1> QED BY <1>1, <1>2, PTL DEF Spec

(* InventoryNewest, for any number of executors and any capacity of the     *)
(* signals: only the leases order the writers of inventory_snapshot_id, and *)
(* they suffice while the coordinator's loop ends before an inventory lease *)
(* does.                                                                    *)
THEOREM InventoryOrdered == ASSUME ~LongLoops PROVE Spec => InventoryNewest
<1>1. CASE Timely
  <2>1. /\ (TypeOK /\ LeaseInv /\ SnapshotInv) /\ (TypeOK /\ LeaseInv /\ SnapshotInv)'
        /\ [Next]_vars
        => [Timely => row'.inv >= row.inv]_vars
    <3> SUFFICES ASSUME TypeOK, TypeOK', LeaseInv, SnapshotInv, [Next]_vars
                 PROVE  row'.inv >= row.inv
      OBVIOUS
    <3>1. row.inv <= row'.inv
      BY <1>1, SnapshotStep
    <3> QED BY <3>1
  <2>2. Spec => [](TypeOK /\ LeaseInv /\ SnapshotInv)
    BY <1>1, SnapshotInductive
  <2> QED BY <2>1, <2>2, PTL DEF Spec, InventoryNewest
<1>2. CASE ~Timely
  <2>1. [Next]_vars => [Timely => row'.inv >= row.inv]_vars
    BY <1>2
  <2> QED BY <2>1, PTL DEF Spec, InventoryNewest
<1> QED BY <1>1, <1>2

(* RequestKept: FinishInventoryClaim drops the request of an inventory only *)
(* when no commit was signalled since the claim, and the inventory is then  *)
(* at least as new as the last one that was; every other statement that     *)
(* clears the schedule changes the owner or pauses the monitor.             *)
THEOREM RequestsKept == ASSUME ~LongLoops PROVE Spec => RequestKept
<1> DEFINE A == Timely /\ row.nextInv /\ ~row'.nextInv
                  /\ OwnerId(row'.owner) = OwnerId(row.owner) /\ monitor' = monitor
                => row'.inv >= row'.last
<1>1. CASE Timely
  <2>1. /\ (TypeOK /\ LeaseInv /\ SnapshotInv) /\ (TypeOK /\ LeaseInv /\ SnapshotInv)'
        /\ [Next]_vars
        => [A]_vars
    <3> SUFFICES ASSUME TypeOK, TypeOK', LeaseInv, SnapshotInv, [Next]_vars,
                        row.nextInv, ~row'.nextInv, monitor' = monitor,
                        OwnerId(row'.owner) = OwnerId(row.owner)
                 PROVE  row'.inv >= row'.last
      OBVIOUS
    <3>1. KeepsRequest(row', row) \/ row'.last <= row'.inv
      BY <1>1, SnapshotStep
    <3> QED BY <3>1 DEF KeepsRequest
  <2>2. Spec => [](TypeOK /\ LeaseInv /\ SnapshotInv)
    BY <1>1, SnapshotInductive
  <2> QED BY <2>1, <2>2, PTL DEF Spec, RequestKept
<1>2. CASE ~Timely
  <2>1. [Next]_vars => [A]_vars
    BY <1>2
  <2> QED BY <2>1, PTL DEF Spec, RequestKept
<1> QED BY <1>1, <1>2

=============================================================================
