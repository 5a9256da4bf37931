# Rivus in TLA+

Rivus copies MySQL tables into Apache Iceberg or Doris: a snapshot of the rows,
then the binlog from the position captured before the snapshot. It runs as four
kinds of process (`master`, `streaming-worker`, `snapshot-worker`,
`maintenance-worker`) that never talk to each other. They share one metadata
MySQL: a registry row per job, checkpoints, commit intents, maintenance tasks.
Everything hard about Rivus happens between those processes and that database,
and between the goroutines of one process. This project models that part, checks
it with TLC and proves its core with TLAPS.

## 1. Inventory

| component | state it keeps | operations | who it meets |
|---|---|---|---|
| **job registry and leases** (`meta/job_store.go`, `meta/job_control.go`, `core/manager.go`, `core/control_plane.go`) | `job_registry`: submission, desired state, role, `resume_requested`, last status, `lease_owner`, `lease_until`; per worker `jobs`, `workerLeases`, `executionRoles`, `restartResumeJobs` | submit, claim, start, renew, release, guarded save, stop, pause, resubmit, delete, shutdown | every process |
| **worker fence** (`meta/worker_fence.go`) | none of its own: a transaction that locks the registry row | check, write, recheck, commit | checkpoint store, Iceberg sink |
| **job pipeline** (`core/job.go`) | status, run contexts, pause flag, listeners, progress, errors | start, preflight, source and sink goroutines, pause, stop, drain | the manager, through status and progress callbacks |
| **fresh snapshot and rebuild** (`core/fresh_snapshot_recovery.go`, `meta/job_rebuild.go`, ...) | archives of intents and checkpoints | inspect a purged position, request a fresh snapshot, archive and rebuild | registry, checkpoint store |
| **checkpoint store** (`meta/store.go`) | `job_snapshots`, `job_snapshot_progress`, `job_offsets` | save start, progress, offset; mark done; delete | source, sink, delete |
| **snapshot gate** (`core/manager.go`) | queue, starting set, limit | queue or start, start the queued | poll loop, terminal callbacks |
| **Iceberg commit intents** (`connectors/iceberg/commit_guard.go`, `commit_outcome.go`, `reconciliation.go`, `meta/iceberg_commit_store.go`) | `iceberg_commit_intents`: PREPARED / COMMITTED, range, fingerprint | begin, catalog commit, mark, prove, recover, clean up | the catalog, the checkpoint store |
| **Iceberg sink** | batches, spools, pending acknowledgements | buffer, flush, barrier, checkpoint | source, commit guard |
| **MySQL source** | snapshot cursor, binlog position | capture start, read rows, stream binlog | sink, checkpoint store |
| **Doris sink and source** | batches, the remembered checkpoint, column bindings | stream load, DDL | source, checkpoint store |
| **maintenance queue, ownership, worker, monitors** | tasks with leases, table states, reservations | enqueue, claim, renew, retry, finish, reserve, release | Iceberg tables that jobs write at the same time |
| **failure notifications** | a durable outbox and the deliveries under way | enqueue, deliver, retry, mark | status callbacks, Telegram |
| **health alerts** | the incident announced, the cooldown | merge progress, alert, rearm | progress callbacks, Telegram |
| HTTP API, UI, configuration, metrics, logging | | translation and presentation | the control plane |

`PROJECT.json` lists each of them with its sources and its status.

What is hard, and why tests hardly reach it:

- *Everything about a job is a race for one row.* The worker's poll loop, its
  renewal loop, its control observer, the source and sink goroutines, their
  status callbacks, the progress goroutine and the goroutine that waits for a
  drain all write it. So do the master's requests and every other worker.
- *Callbacks are late.* A callback knows the job, sometimes the submission,
  never the run it belongs to. It may arrive after the next run has started.
- *Leases expire on the clock of the server.* A worker that has lost its lease
  goes on until it notices.
- *Crash and shutdown* can come between any two of the steps
  "commit, mark, checkpoint, status, handoff, release".
- *Catalog answers get lost*, and a blind retry would duplicate rows.

The hazards, each at its line, are in `PROJECT.json`.

Properties that make the components correct:

- registry: one owner writes at a time; a stop or a delete sticks; an
  interrupted snapshot resumes where it was; streaming starts after the
  snapshot; a job that is meant to run does run; a pause is carried out;
- intents: every source event reaches the table exactly once, whatever is lost;
- source: the stream starts at the position captured before the snapshot, and
  `done` is set only when every snapshot row is durable;
- maintenance: at most one executor per table, no task lost, none repeated after
  it finished;
- snapshot: a confirmed snapshot has every row the stream will not deliver, once;
  a scoped rebuild leaves exactly the rows of its source queries in its scope;
- Doris: replaying the log from the saved checkpoint repairs every table;
- snapshot gate: no slot is given twice, none stays free while a job waits;
- notifications: every failure is told, and told once; a lasting incident is
  alerted.

## 2. Plan

1. **`JobLease`** (done, with `MCJobLease` and `JobLeaseProofs`): registry, lease,
   fence, callbacks, control plane, shutdown and crash.
2. **`IcebergCommit`** (done, with `SourceLog`, `ReplicationContract`,
   `MCIcebergCommit` and `IcebergCommitProofs`): intents, an unreliable catalog,
   checkpoints, recovery; it implements the abstract specification
   `ReplicationContract` by a refinement mapping. Its safety properties and the
   refinement are proved.
3. **`SnapshotCopy`** (done, with `MCSnapshotCopy` and `SnapshotCopyProofs`, in which
   all but `RowsOnce` is proved): the initial snapshot from the captured position to
   the confirmation, its intents, receipts, write modes and retries.
4. **`ScopedRebuild`** (done, with `MCScopedRebuild` and `ScopedRebuildProofs`, in
   which all its properties are proved): the reset and the copy by Trino statements
   that cannot be fenced.
5. **`DorisSink`** (done, with `MCDorisSink` and `DorisSinkProofs`): batches, Stream
   Loads, the remembered checkpoint, schema changes.
6. **`MaintenanceQueue`** (done, with `MCMaintenanceQueue` and
   `MaintenanceQueueProofs`): task and table leases, inventory scans, retries, the
   reservation of a table between a job and a monitor.
7. **`SnapshotGate`**, **`FailureOutbox`**, **`HealthAlerts`** (done; the first checked
   beside `SnapshotCopy` in `MCSnapshots`, the others beside `DorisSink` in
   `MCComponents`; the first two proved in `SnapshotGateProofs` and
   `FailureOutboxProofs`): the slots of a process, the durable notifications, the
   alerts.
8. Orphan cleanup, layered monitors, the one-shot maintenance mode.

Modules to be proved about use no RECURSIVE operator, declare their bounds as
constants with named assumptions, and state each invariant as its own definition.

## 3. `JobLease`: the model and the code

One job is modelled: every SQL statement of `pkg/meta/job_store.go` and
`job_control.go` names one `job_id`. Other jobs reach this one through a single
door, `ClaimJobs`, which returns *all* rows its owner holds whenever it claims
any; `ClaimOther` is that door. Statement by statement:

| code | model |
|---|---|
| `job_registry` row | `row` (`live`: `lease_until` is not past) |
| `job_snapshots`, `job_offsets` | `ckpt`: there is a checkpoint, the snapshot is done, and (ghost) the claim whose run wrote it |
| row lock of a fenced transaction | `lock`, `checked` |
| `m.workerLeases`, `m.restartResumeJobs`, `m.jobs[id]` of a worker | `lease`, `restart`, `job` |
| the poll loop between the claim and the start | `rec` |
| goroutines that are going to save or release | `cbs` |
| the master: managed, deleting, its `executionRoles` entry, a resubmit under way | `master`, `mrole`, `opread` |
| `Shutdown` | `shut`: begun, draining |

Each SQL transaction is one step, except those that the code spreads over several
calls. `ClaimJobs` is a claiming transaction (`Claim`) and a query
(`LoadClaimed`). A fenced write is `FenceBegin`, `FenceRecheck` and a commit,
and the row stays locked in between: a statement of another process on the row
waits (`RowFree`). `resubmitDurableJob` reads (`ResubmitRead`), looks at the
source for seconds, and writes (`RequestJobResume`, `RequestJobFreshSnapshot` or
`RequestJobRebuild`). `Delete` is four steps in the background.

A status change and its save are different steps, because the listener runs
outside `job.mu`. `Pipeline` changes the status and puts a callback into `cbs`;
`SaveStatus` is that callback's save, under `persistenceMu`, of the values
the listener computed; it leaves a "release" or, if the run has still to
drain, a "drain" callback, which turns "final" when the run has drained. A
callback remembers the goroutine it runs in (`at`): the poll loop does not poll,
and a pipeline does not drain, before its own callback returned.

What is abstracted: payloads and errors; time (a lease may expire at any
moment); the progress report (it may come at any moment, as the connectors report
all the time; throttling is ignored). `TimelyRenewal = TRUE` says that a worker
that renews, or is about to act on the job, does so within the lease: half the
properties are about that normal case. `fresh`, `stopped`, `tenure` and `job.by`
are ghosts.

Not in this module: the snapshot gate (`max_concurrent_snapshot_jobs` is 0, see
section 9), the role `all`, snapshot-only jobs (they finish with DONE and hand nothing over),
config upgrades in place, errors of the metadata database other than a lost
lease, a worker's memory of jobs restored at boot (`RestorePersistedJobs` loads
them for display).

## 4. Runs of `JobLease`

The bounds are constants: `MaxSub` submissions, `MaxTenure` successful claims,
`MaxRequests` requests of the control plane, `MaxExits` crashes and shutdowns.
All runs say `CHECK_DEADLOCK FALSE`: a job that is stopped and drained, or whose
bounds are used up, is at rest.

| run | instance | checks |
|---|---|---|
| `lease_takeover` | two streaming workers, leases expire at any moment, stop, pause, resubmit, delete; 2 claims, 2 requests | `TypeOK`, `FenceHolds`, `DeletedStaysDeleted` |
| `lease_snapshot` | a snapshot job, either on one worker (two submissions, purges, rebuilds, deletes, polls for other jobs; 2 claims, 3 requests), or handed to a streaming worker (pauses, purges, a crash or a shutdown; 3 claims, 2 requests) | `StopSticks`, `StreamingAfterSnapshot`, `ResumesFromCheckpoint` |
| `lease_live` | one streaming worker that crashes or shuts down, fairness; 3 claims, 3 requests | `PauseSettles`, `StoppedRunEnds`, `DesiredJobRuns` |

`lease_snapshot` is two instances in one: `SnapshotSpec` starts with part of the
bounds used up (`Unsubmitted`), which tells the two apart, and the constraints
`Scope` and `OtherJobsOfStaying` keep each to its own bounds. Their product is
beyond TLC. `StreamingAfterSnapshot` speaks of a job that nobody deletes: `Delete`
removes the checkpoint while the handoff of the last run may still be on its way.

Why the bounds are enough for what they are about: two claims are the least that
give a takeover (one worker's run with its late callbacks, the other's claim),
three give the handoff after an interrupted snapshot; two submissions let the
callbacks of the first meet the second; after `submit`, two requests make a stop
and a resubmit. The proofs of section 10 remove the bounds from the safety
invariants that carry the protocol.

Liveness is stated with `OutOfClaims` as an escape: when the instance's last
claim is used there is nobody left to reclaim a row, which is the bound's doing
and not the code's.

Fairness (`WorkerFairness`): the goroutines of a live worker make progress,
since each is a loop on a ticker or runs to its end: the poll loop, the renewal
loop, the control observer, the start of a claimed job, preflight and the end
of a cancelled run. A statement that has to wait for the row lock gets it
although transactions keep coming (InnoDB queues waiters): strong fairness.
A worker that exits is started again, as the compose file's restart policy
does. A lease that nobody renews expires. Nothing is assumed of the source, the
sink, the user or of failures. `FinishPause` is fair because a source that is
cancelled closes the channel and the sink then returns.

### Disagreements with the documents

The finding in `PROJECT.json` quotes the sentence of the run's property;
`handoff_late.cfg` is not among the runs (start it with
`tlc -config handoff_late.cfg MCJobLease`).

`handoff_race` (`HandoffKept`): the progress goroutine saves DONE after the listener
has saved the handoff and before the lease is released. The row ends as role
STREAMING, status DONE, desired STOPPED, and no streaming worker takes it.

`handoff_late` (`StreamingAfterSnapshot`) has two snapshot workers, three claims and
three requests; `Undisturbed` leaves out failing runs and progress saves, which the
trace does not need. The first worker's save of DONE is delayed. Meanwhile the job
is stopped and resubmitted, its binlog is found purged, and the second worker starts
the fresh snapshot. Its lease expires, the first worker claims the job again, and
now the delayed save matches in status, submission and owner: it offers the job to
the streaming workers while the new snapshot has only begun. With one snapshot worker
the property is proved (section 10), so the second one is what it takes.

Four more traces came up while the module was checked with other invariants and
instances. They are hazards in `PROJECT.json`; the runs above state what does hold.

- A snapshot completes while its worker drains for a shutdown. `Shutdown` saves
  DONE with desired RUNNING; `startWithMode` refuses that record at each claim
  ("job already DONE").
- Worker 1 loses the lease to worker 2 and gets it back before its renewal loop
  notices. It keeps its old run, and the fence token (job, submission, worker id)
  is valid again: the old run writes an older position over the newer checkpoint
  (`ckpt.by` goes back).
- `Delete` saves STOPPING and leaves the lease. The worker's next save puts
  RUNNING back, and the fence lets it write a checkpoint after `CleanupMeta`
  removed it (`master = "none"` with `ckpt.has`).
- The deferred release of a failed run names job and submission, not the run.
  After a resubmit it removes the next run's lease entry, the renewal loop no
  longer looks at that job, and a later cancel is not noticed by the pipeline:
  `StoppedRunEnds` fails when `lease_live` is given resubmits.

## 5. `IcebergCommit`: exactly once into Iceberg

The CDC path of one job's Iceberg sink, with the source in front of it and the
catalog behind it. `SourceLog` is the binlog as the source hands it over: rows,
schema changes and checkpoints with their offsets. `ReplicationContract` says what
the job promises: every change is written once, each Iceberg table sees its
changes in the order of the log, and the saved checkpoint moves forward, over
written changes only. `IcebergCommit` is the code.

| code | model |
|---|---|
| `job_offsets` | `ckpt` |
| `iceberg_commit_intents`, one row per operation id | `status`, `batch` (its events, which give range and replay manifest), `nextOp` |
| requests under way, accepted operations, operations still provable from the table's snapshots | `inflight`, `landed`, `evidence` (external) |
| the sink's run loop: `reconcileAutomatically`, the `select`, the catalog call, `recoverUnknownCommit` | `pc`: recover, stream, call, prove; down between runs |
| what the handler at work has still to call | `calls` |
| `state.pending`, `pendingOffset`, `pendingCheckpointCleanup` | `pending`, `pendingOffset`, `cleanupOffset` |
| `recoveryEvents`, `recoveryLoaded` and `recoveryIntents` | `receipts`, `loaded` |
| the stream's position, and where this run started it | `cursor`, `started` |

The run loop is single threaded, so a handler is a sequence of calls: a row flushes
the other source tables of its Iceberg table, is appended and, if the batch is
full, flushes its own; a schema change flushes both and then commits;
a flush that commits saves the checkpoint. `calls` keeps that sequence, and
the run may end (`RunFails`: crash, lost lease, a call that fails for good) before
each of them, and between the request to the catalog and each thing
done with its answer. A write of metadata that fails may have happened
(`BeginFails`, `MarkFails`, `RejectedDeleteFails`, `RecoverWriteFails`,
`OffsetSaveFails`).

The catalog accepts a request at any time after it was sent, in a later run
too, or never. Only a rejection is a proof that it was not accepted; a
lost answer leaves the run in `prove` until the operation is found in the table's
ancestry or the attempts are used up. Snapshot expiration may remove that
evidence. Metadata writes are fenced, so one run at a time makes them; that this
is so is the matter of `JobLease`.

Abstracted: row contents and the reduction of a batch to deletes and appends
(one catalog transaction, equality deletes); clocks (a batch is due, the bytes
limit is reached, a save interval is over whenever they like); the payload part of
a replay identity (the source delivers the same row again). Not in this module:
the Trino executors, `create_table`, snapshot and rebuild intents (section 7),
receipts of the first format, `mode=latest` before its first checkpoint.

| run | instance | checks |
|---|---|---|
| `commit_recovery` | two source tables into one Iceberg table; a rows event of two rows, a batch that a checkpoint cuts in two, a schema change; 3 runs, 4 operations, expiring evidence | `TypeOK`, `AppliedOnce`, `CheckpointCovers`, `WritesHaveIntents`, `OneOpenOutcome`, `ReplayNeverBlocks`, `Contract` |
| `commit_live` | two Iceberg tables held by one checkpoint, a stream that fails and is started again, fairness; 2 runs, 3 operations | `CatchesUp` |

Three runs let a run that recovered an intent fail again and a third one recover
what both left; four operations are one more than that log needs, so that one can
be rejected or lost. The logs are the smallest with a batch on both sides of
a checkpoint, a barrier of two tables and a schema change behind rows.
`CHECK_DEADLOCK FALSE`: the system rests when runs and operations are used up. The
proofs of section 10 remove the bounds and the logs from all properties of
`commit_recovery`.

Fairness (`Fairness`): `select` serves a ready channel and the ticker in turn, so
neither starves; a batch gets due, as `flush_seconds` passes; calls return; the
recovery loop makes `MaxAttempts` attempts; a checkpoint save that fails is
repeated on every tick and in the end succeeds; the catalog decides. A
run that stays up, and that the bound on operations does not stop, then brings the
checkpoint to the end. Lost requests are not excluded: they end the run.

### A source that restarts its stream

`runBinlogCanal` retries a stream that failed inside the run, from the position
this run started at and into the same sink. `MaxReconnects` bounds how often.

`reconnect_duplicates` (`AppliedOnce`): rows that this run has committed arrive
again and are committed again. The sink keeps no receipts for its own commits,
since "live batches have already consumed their source events". A consequence,
found with the same instance, two runs and `ReplayNeverBlocks`: after a restart
such a row has two receipts, the source delivers it once, and
`checkRecoveryReplayComplete` refuses the checkpoint in that and every later run.
Nothing is lost: `CheckpointCovers` holds under `commit_live.cfg` as well, with its
reconnect.

## 6. `MaintenanceQueue`: who may touch a table

Compaction, snapshot expiration and inventory scans of one Iceberg table, in the
maintenance worker's queue mode, beside a streaming job that writes the table and
a monitor that would maintain it.

| code | model |
|---|---|
| `iceberg_maintenance_state` | `row`: owner, snapshot barrier, last signalled and inventoried snapshot, which checks are set, the table lease and the inventory lease |
| `iceberg_maintenance_tasks` | `tasks`: the active task of each operation; an ended one is never read again |
| `iceberg_maintenance_reservations`, `iceberg_maintenance_monitors` | `reserved`, `monitor` |
| a goroutine of `runMaintenanceOperationWorker` | `exec[e]`: idle, picked (after the SELECT that locks nothing), claimed, at work (read, save, commit, reread, resave), ended, leaving |
| the loop of `RunMaintenanceWorkerBounded`, with the job list and the monitors it has read | `co` |
| the sink's `nativeMaintenanceSignaler` | `signals`, at most `SignalLimit` |
| the job in the registry, and the release its manager has deferred until the run drained | `job`, `release` |
| the current snapshot of the table | `head` |

Each SQL transaction is a step. A claim is two: the SELECT (`PickTask`) and what
follows under the catalog guard (`ClaimTask`, `ClaimCancels`); in between the
task, the owner and both leases may change. An operation is split at its reads of
the table, its writes of the inventory and its commit. A coordinator loop is
split at each statement, because it works with lists it read earlier. The worker
ends on the errors that the code does not swallow (`WorkerExits`): a table that is
busy with a monitor's task when a job's reservation is synchronised, a monitor
that is no longer ACTIVE when its discovery is applied. An action whose statement
may fail has an action for the failure, or the outcome "unchanged" among its
outcomes where the code only logs.

Abstracted: time (a check that is set may be due, a lease may expire); the rows of
other tables, hence page limits, priorities and order; attempt counts; what a
commit does. `PullCompaction` is nondeterministic where the code compares clocks.

When a lease can expire under its holder is a matter of three constants:

- `Timely`: executors renew each third of the lease, so a lease does not expire
  under one at work;
- `LongLoops`: the coordinator never renews, and counts its leases from the start
  of its loop; TRUE lets one expire during the scan;
- `PromptRelease`: a stopped job has made its deferred release before a user
  submits it again.

| run | instance | checks |
|---|---|---|
| `queue_exclusion` | a compactor, an expirer and the coordinator; leases expire under the work, a crash or a shutdown | `NoOverlap` |
| `queue_table` | a compactor and the coordinator, a job that starts, commits and stops, a monitor that is paused, resumed, deleted and created; renewal in time | `TypeOK`, `InventoryNewest`, `RequestKept`, `StreamProtected` |

`queue_table` has the constraint `FewEvents`: a second request of a user meets
neither a commit nor an exit. So every pair of requests is covered, and so is a
request beside commits, scans and a crash or shutdown; their product is not.

The bounds: `MaxSnapshots` (the table has one snapshot at the start; with a
second one, of a job or a compaction, there is an older and a newer inventory),
`MaxRequests`, `MaxExits`, `SignalLimit`. Two executors of different operations
are what one table can have at most of each kind at work besides a scan; a third
would compete for the same lease. Two requests give "job starts, monitor paused"
in either order and "job starts, job stops". Deadlock is checked: the
coordinator always has a next step.

What they show: `NoOverlap` allows two at work only if the lease of one of them has
expired under it; a late holder that comes back to release, renew or finish does
not open the table for a third. `InventoryNewest` and `RequestKept` rest on the
leases alone, since `UpdateInventory` compares no snapshot ids and a commit may be
signalled while the scan that has missed it is about to finish. `StreamProtected`
is the promise to the user of a monitor. All four properties of safety are proved for
any number of executors and any bounds (section 10); `FewEvents` is the runs' alone.

### A disagreement with the code's comment

`inventory_overlap.cfg` violates `NoOverlap` (it is not among the runs of
`PROJECT.json`; start it with
`tlc -config inventory_overlap.cfg MCMaintenanceQueue`): the comment on
`ClaimTasksForOperation` says that inventory scanning and the operations "never overlap on the same table". An
inventory lease of 15 minutes counts from the start of the loop and is not renewed;
a loop makes up to nine rounds of scans, each of up to 10 minutes. With
`LongLoops` TLC lets a lease end during the scan, and an executor claims the table.

Two more traces, with other constants:

- `PromptRelease = FALSE` and three requests (start, stop, start) violate
  `StreamProtected`: the deferred release names owner and submission, the new run
  has the same, and so it loses its reservation; the next discovery gives the
  table to the monitor, until the ten-minute sync takes it back.
- `syncMaintenanceStates` writes the owner from a list it read before. If the job
  stopped and released its table in between, the table is the stopped job's again,
  without a reservation, and no monitor may take it.

## 7. The snapshot: `SnapshotCopy` and `ScopedRebuild`

### `SnapshotCopy`

The initial snapshot of one job, from the captured position to the confirmation:
the MySQL source that reads its tables chunk by chunk, the sink that commits the
chunks, and what both leave in the metadata database.

| code | model |
|---|---|
| `job_snapshots`, `job_snapshot_progress` | `snap`, `progress` |
| `iceberg_commit_intents` and the catalog's operations | `ops`: the intent, what the catalog has made of the request |
| the Iceberg tables | `target`: how often each row is there |
| the source tables and its REPEATABLE READ transaction | `src`, `view`; `touched` are the rows the stream will repair |
| `rowsEmitted`, the cursor, `rollingTable` | `emitted`, `cursor`, `rolling` |
| the sink: the batch, its pieces, `snapshotSpool`, `snapshotTruncateApplied`, `snapshotAppendSafe`, `recoveryIntents` | `chunk`, `todo`, `spool`, `truncated`, `safe`, `receipts` |
| the token of an archived rebuild | `rebuild` |

A run goes through recovery, the check and reset of its tables, the start
barrier, the plan (a fresh one or the saved one), the chunks with their commits
and progress, and the completion barrier; `EndRun` can come between any two
steps, and so can a late answer of the catalog. `SourceRetry` is the retry inside
a run. `Rebuild` is the archived rebuild of a purged job. `Conf` is the
configuration: `append`, `auto` or `truncate`, deletes by Trino or natively,
rolling spools, the rows of a commit, and a target with an old row.

`weak` is a ghost for the four ways in which the code relies on what it does not
ensure; the properties name the ones they cannot bear:

- `shifted`: a receipt counts rows of a table read. If rows before its end came
  or went before the next run reads the table, that run takes other rows for
  covered and skips them. `receipt_shift.cfg` violates `ReceiptsExact`, which is
  the sentence of `docs/iceberg-checkpoint-recovery.md` that the receipt skips
  "exact committed events" (`connectors/iceberg/reconciliation.go:264-294`).
- `appended`: after a failed save of the progress the source sends the chunk
  again into the same sink, which has no receipts for its own commits; rows are
  appended twice unless the write mode deletes them first.
- `deleted`: with Trino deletes such a repeated chunk is deleted first, and if it
  is covered by receipts in part it is not written again in full.
- `wiped`: a truncate by Trino leaves no intent, and no truncate takes back the
  receipts of the rows it removes. `truncate_receipt.cfg` (`SkippedRowsThere`) shows
  what follows: a spool that a receipt covers in part is written again as a whole, so
  the table is truncated again; the run ends, and when the row behind the receipt is
  gone by then, the next run skips the rest, which nobody has written again. With the
  native executor it takes a retry within the run instead. It takes three runs and
  two changes, more than `snapshot` has; the attempt to prove `RowsComplete` found
  it.

Two more things seen on the way: intents of `truncate` are not recoverable and
block a job; a table that is empty at the source is never truncated in
`truncate` mode.

### `ScopedRebuild`

A scoped rebuild empties its targets within the scope of the source filters by
DELETE statements of Trino and copies them again, by MERGE statements of Trino
(jobs of an earlier release) or by native commits. Nobody can fence a
statement, and no answer means nothing: the code keeps an intent with the query's
identity for each, never repeats one, and lets nothing go on before it is
settled.

`ops` are the statements and commits: what the engine has made of each
(`unsent`, `sent`, done or refused) and its intent; a process that has lost the
fence may still send what it had an intent for (`Send`). `mode` changes with
`UpgradeJobNativeRebuild` while the job is inactive, also in the middle of a
table; `epoch` with `RequestJobRebuild`. A target row knows the epoch and the
version of the source row it shows, which is what `RowsForward` compares. The
ghost `again` marks the case `appended` above.

Over-approximated: MERGE jobs may start at any time, not only after an upgrade of
the program. Abstracted: a receipt covers a chunk or nothing of it, since every
run reads the same chunks of an ordered source query; the change of a target's
UUID; queries that Trino has forgotten (the job then stays blocked, as it does for
good when the process died before the identity of the query was stored).

| run | instance | checks |
|---|---|---|
| `snapshot` | two tables (three rows in two chunks, one row), eight configurations; 2 runs, 5 operations, 1 change of the source, 1 retry. Beside it the slots of `SnapshotGate` (section 9): two jobs, one slot, 3 requests, 1 ending | `RowsComplete`, `RowsOnce`, `ProgressCovers`, `NoLateWrite`, `ProgressAdvances`; `QueueServed`, `WithinLimit` |
| `rebuild` | an unfiltered and a filtered table, whose target has a row that left the scope, one within it and one outside; 3 runs, 10 statements and commits, 1 update, 2 submissions, 1 retry | `CompletionExact`, `NothingActsUnseen`, `ScopeEmptied`, `RowsForward` |

Two chunks are the least with a saved progress in the middle of a table; the second
table makes "the tables before" mean something. Two runs let the second one
meet everything the first can leave; the rebuild needs a third for what a
recovery leaves, or for a run after an upgrade. The copy and the slots share no
state: `MCSnapshots` puts both into one instance, `focus` is chosen in the initial
state and says which of them runs, and the states explored are the sum. The
properties of `snapshot` but `RowsOnce` and all those of `rebuild` are proved for all bounds (section 10), and so is
the rebuild's own `ProgressCovers`, which holds under `rebuild.cfg` when it is added.

## 8. `DorisSink`: the checkpoint behind the batches

The Doris sink has no intents. It buffers rows per table and writes them by Stream
Load under a label, a timestamp taken once for all the attempts of a `sendBatch`; it
remembers a checkpoint and saves it when no table has a buffered row. Replaying from
there repairs Doris, because a row is an upsert by key. Whether the checkpoint is
ever ahead of a table, and whether it gets to the end, is what this module is about.

`log` is what the source delivers (snapshot chunks, rows, deletes, schema
changes, checkpoints); a row of Doris (`table`) is the place of the event
that decided it last. `batches` are the buffered events of each table in the order
in which they came; `prepareBatch` keeps of each key the one appended last. `load` is
the request at work: it lands, or its answer is lost and the same label is sent
again; `late` are the loads of ended runs, which nothing fences, and `stale` (ghost)
the rows such a load has set back. `EnsureTables` takes over columns the source has
by then (`schema_reconcile.go`), and `applyDDL` flushes every table before it changes
one.

The source retries a stream that fails inside the run (`runBinlogCanal`, section 5).
`SourceReconnect` is this for Doris: the stream begins again at `started`, where the
run began it, `reached` is how far it had come, and the sink keeps its batches, its
remembered checkpoint and its bindings. Events that have been loaded and
checkpointed are delivered again and set rows back to older events, until the stream
has come past the newest of them. `again` is the ghost for this: for each row the
newest event it had had when it was delivered again. `SetBack` says that Doris does
not have that one, or not any more.

The fairness is that of the run's loop and ticker; a load that is sent ends; a
failed job is started again while the bound on runs lasts. A stream need not fail.

- `CheckpointCovers`: the rows that no event behind the saved checkpoint decides are
  what the last event before it has left, apart from the rows in `stale` and those
  that are set back.
- `ReplayInOrder`: while the run is idle, a table without a buffered row has what
  the stream has handed over of it, or something newer. For a row that is set back
  this is what came since the stream started: the stream brings the row forward
  again, and nothing brings it back behind the stream.
- `SchemaInOrder`: the same when a schema change is executed, for all tables.
- `CatchesUp`: the checkpoint reaches the end of the log, for good.

They are checked by `components` (section 9) with two runs, one reconnection, one
repeated request and one failed save, on two logs: two tables behind one checkpoint
with a row whose key changes and a table that is emptied, and a snapshot in two
pieces followed by an added column. Seven and eight events are the least with these:
a checkpoint between the rows of two tables, and a last one that an idle run has to
save. The first three are checked by `doris_load.cfg` with three runs, together with
`TypeOK` (2,001,801 states, ten minutes), and are proved for all logs and bounds
(section 10). What does not hold:

- A checkpoint is not safe while a stream catches up. With the last checkpoint of the
  first log saved, the stream starts again and event 2 is loaded over the truncation
  at 6; a run that ends there leaves the old row under the saved checkpoint, and
  nothing repairs it before the row's next change. `CheckpointCovers` without
  `~SetBack(t, k)` has the trace. The remembered checkpoint is kept across the
  reconnection too, so that one of the failed stream may be saved while the new one is
  still before it.
- `ColumnForwarded` (`doris_column.cfg`): the bindings of a run are those of the
  source's schema when it ensured its tables, and neither `applyDDL` nor a row changes
  them. Rows that follow an ADD COLUMN in the run that executes it are written without
  the column; README.md:89 and `docs/compatibility.md:13` speak of DDL forwarding.
- An ADD COLUMN that has been carried out already, by an earlier run, by
  `EnsureTables`, by an attempt whose answer was lost or before the stream delivered it
  again, is refused by Doris, and the job fails at each start. `CatchesUp` names it
  (`Refused`).
- A load of an ended run may land late and set rows back until their next event.
  The properties leave such rows out.

## 9. Small components: `SnapshotGate`, `FailureOutbox`, `HealthAlerts`

These share no state with each other, and none needs a large instance for its
question. `MCComponents` puts the outbox, the alerts and `DorisSink` into one
instance, `MCSnapshots` (section 7) the gate and `SnapshotCopy`: `focus` is chosen in
the initial state and says which one runs; the others are in an initial state in which
fairness asks nothing of them. The states explored are the sum, not the product.

| run | instance | checks |
|---|---|---|
| `components` | Doris: two logs, two tables, 2 runs, 1 reconnection. Outbox: a master and two workers, one failure, 2 submissions, 1 fault, 1 crash. Alerts: one incident, 4 changes, 2 refusals, 1 stop | `CheckpointCovers`, `ReplayInOrder`, `SchemaInOrder`, `CatchesUp`; `ToldOnce`, `FailureTold`; `IncidentTold` |
| `snapshot` (section 7) | Gate: two jobs, one slot, 3 requests, 1 ending | `QueueServed`, `WithinLimit` |

Two jobs and one slot are the least with a job that waits; the third request lets
one come back. One failure is followed; the second submission lets the callbacks
and deliveries of the first meet it, the second worker lets the job go on while the
first still has its Job and its deliveries. Four changes let an incident end and come
back. `QueueServed`, `WithinLimit` and `ToldOnce` are proved for any number of jobs,
slots, workers and failures (section 10).

**`SnapshotGate`** (`core/manager.go`: `queueOrStart`, `startQueuedSnapshotJobs`,
the callbacks that start it). There is no counter of slots: they are counted under
the manager's lock from `startingSnapshotJobs` and the jobs' statuses, which change
outside of it. So a request, a drain goroutine, a callback and a stop interleave.
`QueueServed` leaves out two lost wake-ups of the code by ghosts: a deletion or a
lost lease frees a slot with the listener detached (`silent`), and a job taken
from the queue before its own request has set QUEUED (`dropped`). `WithinLimit`
leaves out a slot decided on under one lock and marked under a later one
(`crowded`). `StopHeld`, "a stopped job does not run", does not hold:
`gate_stop.cfg` has the trace, in which a cancel reaches a job that has been admitted
and has not started; `startWithMode` looks at DONE and at active runs, not at STOPPED.

**`FailureOutbox`** (`core/job_failure_notifier.go`, `core/manager.go`,
`meta/job_store.go`). Each process restores the PENDING rows of the outbox, the
master as well as the workers. In split roles the job goes from worker to worker
(`Claim`), also within a submission, as leases do; a worker keeps the Job it has run
in its memory and its deliveries go on. The workers have the same Telegram settings. A
claim waits for the callback of a failure: a lease that expires between the status
FAILED and its callback is not followed. `ToldOnce` and `FailureTold` name what they
excuse, each of them a trace of the code:

- "unanswered", "refused": Telegram's doing;
- "restored": two processes restore the same row and both send it;
- "deleted": `DeleteJob` removes the rows while a delivery is in flight, whose save
  writes the row again;
- "unset": a process without the Telegram settings restores a row and marks it
  FAILED, although `docs/runtime-roles.md` says that the settings belong to the
  workers too;
- "crash": the process dies between the status FAILED and the row;
- "rejected": `Submit` returns the failure to its caller.

Fairness: goroutines of a live process run, requests that have begun end, a
process that crashed is started again.

**`HealthAlerts`** (`core/job_health_notifier.go`, `core/manager.go`). The listener
gets a copy of the progress and saves it before it looks for alerts, so copies are
looked at out of order (`repeats` is the ghost for that). `announced` is the incident
the operator has an alert of, until a report that is looked at while the job runs
shows another one or none. `IncidentTold`: an incident that lasts while the job runs
is in the end active and announced, for good, although sends are refused, the cooldown
runs, and an earlier incident of the kind was announced and is over.

Two cases are the same incident to the code, and no new alert comes: one that ends and
comes back between two probes, and one that ends while the job does not run, since a
stop leaves the memory of the process alone (`healthAlertActive`). `OccurrenceTold`
asks for an alert each time the condition comes back; it does not hold, and
`health_reopened.cfg` has the trace.

`AlertedOnce` (a continuing incident is alerted once unless `repeats`) holds under
`components.cfg` too. With two incidents of one kind, such as two purged files,
`Announced` fails (`health_two_incidents.cfg`): a late report of the first starts the
cooldown that suppresses the second.

## 10. Proofs

All theorems hold for every value of the constants that satisfies the
assumptions their modules name; the assumptions are those the code justifies, and
TLC evaluates them on each run. A theorem that needs more says so in an ASSUME of
its own, and section 10 names the run that shows why. Each inductive invariant
was checked by TLC, as an invariant of the run's instance, before it was proved.

The proof modules are laid out alike: the invariant in named parts, each with
its comment; lemmas about sequences, sets and records; one lemma for each part
of the state and each action (what the action keeps, what it changes); one lemma
for each part of the invariant, with a step for each action; the theorems.

### `JobLeaseProofs`

From the four assumptions `JobLease` states, for all sets of workers, all roles,
switches and bounds:

- `TypeCorrect`: `Spec => []TypeOK`;
- `Inductive`: `Spec => []IInv`;
- `FenceSafe`: `Spec => []FenceHolds`: a fenced transaction that holds the row
  belongs to the owner of the submission it runs, however leases expire;
- `StopSafe`: `Spec => []StopSticks`: no late callback, renewal, release, claim
  or shutdown undoes a stop;
- `DeleteSafe`: `Spec => []DeletedStaysDeleted`.

For at most one snapshot worker, any number of streaming workers and a job that
nobody deletes (`HandoffAssumption`; `handoff_late` shows that a second snapshot
worker breaks it, and section 4 what a delete does):

- `HandoffInductive`: `Spec => []HandoffInv`, for a job that starts with a snapshot;
- `HandoffSafe`: `Spec => []StreamingAfterSnapshot`.

`IInv` is `TypeOK`, the three properties and `LocalInv`. None of the three is
inductive alone:

- `StopSticks` breaks if a worker without a lease could use the unguarded save.
  `UnguardedSave` asks for a CREATED or QUEUED status, and `LocalInv` says
  that a worker's Job and the callbacks in flight never carry one: claimed
  records are restored as STOPPED and started as PENDING.
- With that, a save changes the row only if the worker owns it, and a stopped
  row has no owner. The same fact gives `DeletedStaysDeleted`: a save that needs
  an owner cannot create a row.
- `FenceHolds` needs the lock. While a transaction of `w` holds the row no
  other statement writes it; `w`'s own run can change only by steps that keep
  submission and activity until the lock is gone (`Drained` waits for it), which
  is what `LocalInv` and `RunKept` say.

`HandoffInv` follows a handoff to the end of the snapshot worker's part in it. Only
`CommitSnapshotStart` makes a complete checkpoint incomplete, and only for a run that
owns the row, so after the handoff no run of the snapshot worker may own the row
without being over (`RunOver`): it is the run that was DONE, or nothing is left of it.
What could break that is old knowledge. A poll may hold a record read before
(`WorkerCalm`, `RunOver`: adopting it changes nothing, starting it needs a run that
has ended). A resubmit may have read the role STREAMING and write it back later, over
a row that is SNAPSHOT again (`HandedOver` counts what it has read, `OwnerOver` says
that no DONE callback is then left). The lease of a handed run is not renewed, so
`HandedRun` says that its closing callback is still to come (`Closing`). `HandoffInv`
was checked by TLC with one snapshot worker alone (3,322,425 states), and with a
streaming worker beside it to depth 39 (6,353,966 states, not exhausted).

### `IcebergCommitProofs`

From `SourceAssumption` (finitely many source tables, which are numbers),
`LogAssumption` (offsets never decrease, and what follows a checkpoint lies strictly
beyond it) and `CommitAssumption` (the bounds are numbers), for every log,
every assignment of source tables to Iceberg tables, every batch size, any number
of runs and of catalog operations, with or without evidence that expires.

Whatever happens:

- `TypeCorrect`: `Spec => []TypeOK`;
- `BaseInductive`: `Spec => []BaseInv`;
- `NothingLeftOut`: `Spec => []CheckpointCovers`;
- `OneOutcomeOpen`: `Spec => []OneOpenOutcome`.

If the source delivers each entry once a run (`MaxReconnects = 0`):

- `ExactInductive`: `Spec => []ExactInv`;
- `RowsAppliedOnce`, `WritesKeepIntents`, `ReplayIsComplete`: `AppliedOnce`,
  `WritesHaveIntents` and `ReplayNeverBlocks` are invariants;
- `ImplementsContract`: `Spec => Contract!Spec`, every step is a step of
  `ReplicationContract` or a stutter under the mapping of section 5.

The second group is false without its assumption: `reconnect_duplicates` is
TLC's counterexample. That the first group survives a reconnection is what
the two theorems add to the runs: rows may come twice, none is left out.

Why `CheckpointCovers` is not inductive: that a checkpoint is saved only over
applied changes depends on where each change between the last checkpoint and the
cursor is. `CoverInv` says that it is in its table, in a batch, or in a call of the
handler at work, and that what an unsaved checkpoint waits for is not in a call
any more. To clear a batch when its operation is accepted, `BusyInv` says that
the batch has not changed since the operation began; to skip a row with a
receipt, `CoverInv` says that it is in its table; to know that a `COMMITTED` intent may
be believed, `StatusInv` ties intents to what the catalog may still accept;
and `RestInv` makes a run start with nothing in hand.

Why `AppliedOnce` is not inductive: `OnceInv` adds that a row in a batch, or in a
request under way, is not in an accepted operation as well, with one exception
between acceptance and the clearing of the batch. A restart keeps that only because
`ReceiptInv` counts the receipts: for a row beyond the cursor one receipt if it is in
its table and none if not, so that each row that is delivered again is skipped exactly
when it was written. That is also `ReplayNeverBlocks`. `WritesHaveIntents`
is what keeps the receipts of a later run complete. For the order of the contract
`TurnInv` says that two source tables never have batches for one
Iceberg table unless the flush of the other one is still among the calls.

### `MaintenanceQueueProofs`

From `QueueAssumption` (the pool has an executor of compactions, as
`maintenance_executor_pool.go` makes sure, and no operations but compaction and
expiration), for any number of executors and snapshots, requests and exits, and any
capacity of the signals:

- `TypeCorrect`: `Spec => []TypeOK`;
- `LeaseInductive`: `Spec => []LeaseInv`;
- `TableExclusion`, if no loop outlasts an inventory lease: `Spec => []NoOverlap`;
- `OwnerInductive` and `JobProtected`, if a stopped job releases its table before
  it is submitted again: `Spec => []OwnerInv`, `Spec => []StreamProtected`;
- `SnapshotInductive`, `InventoryOrdered` and `RequestsKept`, if no loop outlasts
  a lease and executors renew in time: `Spec => []SnapshotInv`,
  `Spec => InventoryNewest`, `Spec => RequestKept`.

The switches are the ones of section 6, which has the trace for each of them when it
is the other way.

- `NoOverlap` is about who is at work; what stops a claim is the lease in the row.
  `LeaseInv` ties the two: an operation that has not overrun its lease is the
  holder of a live table lease (`HolderOK`), so two of them are the same one; a
  scan has the live inventory lease and no holder beside it (`ScanOK`). A late
  holder's release, renewal and finish name the holder, so they leave the lease
  of another alone.
- `StreamProtected` is a matter of owners that travel: from the row to the
  coordinator's list, into a task, into an executor. `OwnerInv` says what each
  of these can be, that a table which is the job's has only holders for the job
  (`OwnedOK`), and that from the moment the coordinator has seen the reservation
  until it writes the owner no monitor's task gets in (`SeedOK`).
- `InventoryNewest` and `RequestKept` compare no snapshot ids in the code.
  `SnapshotInv` says that what a scan or an executor has read is not older than
  what is stored, which holds because the leases keep readers from overlapping.

### `SnapshotGateProofs`

From `GateAssumption` (finitely many jobs, a limit of at least one), for any number
of requests, cancellations, deletions and lost leases:

- `GateInductive`: `Spec => []GateInv`;
- `NoLostWakeUp`: `Spec => []QueueServed`;
- `LimitKept`: `Spec => []WithinLimit`.

TLC checked `GateInv` with three jobs, one slot, four requests and one ending
(4,827,685 states). `QueueServed` is two facts, neither inductive:

- A free slot beside a waiting job has somebody on the way to look (`SlotServed`).
  The step to worry about is the one that frees a slot. `ListeningOK` says that a
  job that can occupy one still has its listener, whose callback will look, and
  `MarkedOK` that a job about to be started is marked, so that the mark that
  disappears is followed by a status that counts or by a callback.
- A job with status QUEUED is in the queue (`QueuedOK`). The status is set after
  the job has entered the queue, outside of the lock. `EnqueuedOK` says that it is
  still there when that happens, and `StarterOK` that a job has one starter, its
  request or a drain goroutine.

`WithinLimit` counts statuses and marks; `SlotsOK` counts the slots decided on and
not yet marked as well, and is inductive.

### `FailureOutboxProofs`

From `OutboxAssumption` (a master and at least one worker, at least one submission), for
any number of workers, failures, submissions, faults and crashes, the job going from
worker to worker:

- `OutboxInductive`: `Spec => []OutboxInv`;
- `OneMessage`: `Spec => []ToldOnce`.

TLC checked `OutboxInv` with two workers and two failures (18,972,916 states).
`ToldOnce` says how many messages there have been; what prevents the second is who may
still send. For a failure without an excuse, `CarriedOK` says that one goroutine of all
processes carries it, or that its message is on record: once Telegram has it, the
goroutine is on its way to save SENT or has been completed, a saved SENT stays, and no
process restores it as PENDING. `FreshOK` and `NumberedOK` say that nothing in a process
or in the outbox is of a failure that has not happened, `RolesOK` which process may have
goroutines, and `FirstOK` that in split roles nobody knows of a failure before its own
callback.

### `SnapshotCopyProofs`

From `CopyAssumption` and `ConfAssumption` (explicit append only onto empty
targets), for any number of tables, rows, runs, requests, changes and retries and
every configuration:

- `LateWritesBlocked`: `Spec => []NoLateWrite`;
- `TypesKept`: `Spec => []TypeOK`;
- `ProgressNeverBack`: `Spec => ProgressAdvances`;
- `ProgressCovered`: `Spec => []ProgressCovers`;
- `RowsKept`: `Spec => []RowsComplete`.

The inductive invariants build on each other: `LateInv`, `PlaceInv`, then
`CopyInv == LateInv /\ PlaceInv /\ Books` and
`FullInv == CopyInv /\ RowsInv /\ RowsComplete`. TLC checked `PlaceInv` and `RowsInv`
under `snapshot.cfg` (1,613,496 states).

- `NoLateWrite`: `LateInv` says that a request which may still land has an open
  intent (`InFlightOpen`), that while the snapshot is confirmed the run is in a place
  where it writes nothing and nothing may land (`ConfirmedQuiet`), and that a reset of
  the targets follows an archived snapshot, never a confirmed one
  (`ResetsArchived`). Completion needs all intents settled, which `InFlightOpen` turns
  into "nothing may land".
- `ProgressAdvances`: a run saves the place to which it has copied, so `Ahead` says
  that this place is never behind the saved one. That holds because a run or a retry
  begins where the progress says, a chunk in hand ends after the cursor
  (`ChunkPlace`), and what the run waits for is of the table it copies
  (`CommitPlace`). `ResetsFirst` keeps resets out of the copy.
- `ProgressCovers` and `RowsComplete`: a receipt says nothing about rows, only that
  places from one number to another are written. Where a row is, each read decides
  anew, by counting. So the lemmas come first: the place of a row is the
  number of rows between the saved cursor and it (`Reached`), a chunk takes the
  next rows in their order (`InOrder`), and the pieces that receipts leave of a
  batch have exactly the places that are not covered (`IsPiece`, `RecoveredAt`).
  - `Books` is the bookkeeping: a run that copies has no request open but the one
    it waits for (`OneOpen`), a receipt is of an append that has landed and a run
    about to copy has one of every intent (`ReceiptsTrue`), no operation is of a table
    the copy has not come to (`OpsPast`), and what is left of a batch are pieces of it
    in their order (`TodoPlace`).
  - `Written` is the core: an operation with places beyond the progress has the
    rows at these places in the target, or will have when it lands. This is
    what may be skipped. `Agree` says that the read at work puts the same rows at
    these places as the read of the receipt did, which is what `shifted` excuses.
  - `Copied`, `ChunkRows` and `Landed` follow a row through one chunk: the cursor has
    passed it, it is in the batch and either skipped, asked for or spooled, it has
    landed. With them the saved progress covers (`Covers`), and so does the end
    (`Finished`), from which `RowsComplete` follows.
  - What can take a row away again are the deletes before a write and the truncate.
    `OwnApart` says that where batches delete first, what the run itself has written
    lies before what it is about to write; rows of a receipt are not deleted,
    since they are not in a piece. `Untruncated` and `TruncateAlone` say that a truncate
    comes before anything that counts; the ghost `wiped` is the case in which it
    does not, and it was found here (section 7).

`RowsInv` speaks only of histories with `weak` at most `{"appended"}`, as the
properties do; the runs reach such histories with lost answers, late commits,
restarts and retries.

### `ScopedRebuildProofs`

From `RebuildAssumption` (finitely many keys, source queries without repetitions, at
least one submission), for any number of tables, filters, chunk and statement sizes,
runs, statements, updates and failed saves, in both write modes and across the
upgrade:

- `RebuildInductive`: `Spec => []RebuildInv`;
- `UnseenNever`: `Spec => []NothingActsUnseen`;
- `ScopeStaysEmptied`: `Spec => []ScopeEmptied`;
- `RowsNeverBack`: `Spec => RowsForward`;
- `ExactInductive`: `Spec => [](RebuildInv /\ ExactInv)`;
- `CompletedExact`: `Spec => []CompletionExact`;
- `ProgressCovered`: `Spec => []ProgressCovers`.

TLC checked `RebuildInv` and the parts of `ExactInv` under `rebuild.cfg` (1,482,924
states), `ExactInv` with three tables as well (639,549 states). Why `RebuildInv` is
needed:

- `NothingActsUnseen` names the places of a run where something may act. That a run
  leaves recovery only when nothing may is `VerifiedOK` (what it has settled acts
  no more) with `ConfirmedOK` (only what has acted is COMMITTED); that a statement
  is begun only when nothing acts makes it the only one (`LastActs`).
- `ScopeEmptied` begins with the saved start. `PreflightOK` says that by then every
  table before the one at hand has a reset of this submission that has acted, and
  `ResetsOK` that a table with such a reset stays emptied, because whatever acts
  later is of this submission. `EpochsOK` makes a new submission start without one.
- `RowsForward` compares an image with what it overwrites. `ActiveFresh` says that
  the image of whatever may still act is not newer than the source and not older
  than what this submission has written; it is read before it is sent, so that
  `ChunkOK` says the same of the chunk a run has in hand, and `CellsOK` of a target
  when the chunk is read. `LastActs` is what keeps it true when something acts:
  there is no other image under way that could be overtaken.

`CompletionExact` says of each row of the source that it is there, once and up to
date, and of the others that they are there as before or not at all. `ExactInv` has
a chain of facts for each.

- Up to date: a chunk shows what the source had when it was read, and a later update
  is one the stream repairs (`ChunkCurrent`, then `ActiveCurrent` for what is under
  way and `CellsCurrent` for what is written).
- There: a run copies on at `Frontier`, the place after the saved progress, beyond
  tables whose query returns nothing (`AtFrontier`). Each row of the chunk at hand is
  written or still to be written (`ChunkWritten`), so that a save of the progress
  covers written rows only (`PassedWritten`) and the end all of them (`AllPassed`,
  `AllWritten`). A chunk may be skipped because of its receipts: `ReceiptsOK` says
  that they are of commits that have acted, `NativeRows` that these are whole
  chunks, and `StaysWritten` that nothing takes the rows away again.
- Once: a merge or a replacement leaves one row where there was none or one, so only
  an append can leave two (`CellsOnce`). `AppendClear` says that what may still be
  appended is nowhere yet, and `WriteClear` the same of a chunk whose table the
  run does not look up. For that it must know of everything written beyond the
  progress. Of merges it does, since their intents are kept (`MergesKept`) and each
  recovery takes note of their tables (`MergesVerified`, `MergesKnown`). A native
  commit is of a chunk that is passed or comes next (`NativePlace`); it loses its
  intent only when it is passed (`IntentGone`), and otherwise recovery leaves a
  receipt (`ReceiptsKnown`). The exception is a chunk that the source sends again in
  the same run after a failed save, which is what the ghost `again` excuses.
- The others: `CellForms` says that a row outside of the scope is never taken away
  and that what is copied is of the source query; `ScopeEmptied` does the rest.
- `NotBegun` and `StartsAfter` part the submission at its saved start: resets before,
  writes after.

`ProgressCovers` needs no excuse: it asks for a row at least once.

Two corrections of the model came from this proof: the arms of `Effect` overlapped
for a reset, and `MaxEpochs` could have been 0.

### `DorisSinkProofs`

From `DorisAssumption` (a log is one snapshot, then the stream, with one completion
and a checkpoint at its end; there are tables), for any logs, tables, keys, batch
sizes, runs, reconnections, repeated requests and failed saves:

- `DorisInductive`: `Spec => []DorisInv`;
- `TypeCorrect`: `Spec => []TypeOK`;
- `CheckpointSafe`: `Spec => []CheckpointCovers`;
- `ReplayNeverBackward`: `Spec => []ReplayInOrder`;
- `SchemaAfterRows`: `Spec => SchemaInOrder`.

TLC checked `DorisInv` with three runs (2,001,801 states). What a run has
been handed is more than what its stream is past, once the stream has started again
(`Passed`), and there are two facts where one would do without reconnections.
`StreamedOK`: what the stream has done since it started is in Doris or in a batch.
`PassedOK`: so is all the run has been handed, but for rows that have been delivered
again, of which `again` knows the newest event. From the second follows `CoverOK`, the
part behind `CheckpointCovers`: it is about a checkpoint that was remembered long
before it is saved, maybe by a stream that has failed since, and `OffsetsOK` says that
it is one the run has passed. From the first follow `ReplayInOrder` and
`SchemaInOrder` for the rows that are set back. `StreamOK` says where a stream begins
and when one has failed, and `AlterOK` that a truncation that is delivered again has
marked its rows before it is executed.

`LoadOK`, `PieceOK` and `PlaceOK` follow a request and a chunk cut in pieces through
the answers that get lost; `BufferedOK` and `SizeOK` say what a flush leaves behind.
`LateOK` says that a load which may land late is of an ended run and is either older
than the run at work, whose rows it sets back (`stale`), or no older than the
checkpoint from which the next run replays, but for rows delivered again.

Corrections of the model that came from these proofs: the log has exactly one
completion, the arms of `Decides` are disjoint, and `Targets` is not empty.

### Only model-checked

- Liveness, as fairness and ENABLED are beyond the prover: `PauseSettles`,
  `StoppedRunEnds`, `DesiredJobRuns`, `CatchesUp`, `FailureTold`, `IncidentTold`.
- Of `JobLease`, `ResumesFromCheckpoint`. It needs timely renewals: without them a
  run whose saves were all skipped leaves the row QUEUED, and the next claim starts
  the snapshot again. A proof has to carry what each callback may still save through
  the time in which the worker attends to the lease.
- Of `SnapshotCopy`, `RowsOnce`. `RowsInv` bounds how often a row is in the target
  from below; a bound from above needs the converse of each of its parts (a row is
  in no more than one operation that counts), under another excuse (`deleted`
  instead of `appended`).
- `HealthAlerts` has only a liveness property.

## 11. Not modelled

The components of `PROJECT.json` name what is missing, part by part. Of
maintenance: orphan cleanup, layered monitors, snapshot-only and paused jobs, the
one-shot mode and Spark. Of the Iceberg sink: the intent of `create_table`. Of the
registry: config upgrades in place and jobs restored at boot for display.

Arrow and Parquet conversion, DDL text, type mapping, HTTP handlers, configuration
parsing, metrics, logging, the graph and the UI are data formatting or I/O with no
protocol state, and will stay out.

Of the source, the mode `latest` is not modelled, in which a run and its retries have no
`startFrom`. Of the outbox, a lease that expires between the status FAILED and
its callback, and workers with different Telegram settings.
