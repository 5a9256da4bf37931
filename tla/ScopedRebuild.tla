---------------------------- MODULE ScopedRebuild ----------------------------
(***************************************************************************)
(* A scoped rebuild: the targets of a job are emptied within the scope of  *)
(* its source filters by DELETE statements of Trino, and copied again.     *)
(* Jobs of an earlier release copy with MERGE statements of Trino; they    *)
(* are upgraded, in the middle of a copy if need be, to native commits.    *)
(*                                                                         *)
(* Trino gives no exactly-once answer: a statement whose answer is lost    *)
(* may run, now or later.  Each one has a durable intent with the identity *)
(* of its query, and is never repeated.  A run is one process under the    *)
(* worker fence, which may end between any two steps; a process that has   *)
(* lost the fence may still send the statement it has an intent for.       *)
(*                                                                         *)
(* A target row is how often it is there, the epoch that wrote it (0:      *)
(* before the rebuild) and the version of the source row it shows.         *)
(***************************************************************************)
EXTENDS Integers, FiniteSetsExt, SequencesExt

CONSTANTS
  Tables,         \* how many source tables the job has
  Filtered,       \* the tables with a source filter and a matching scope
  Keys,           \* primary keys
  Source,         \* the keys each source query returns, in order
  Before,         \* where the scope finds each key in the target at first
  ChunkSize,      \* rows of a snapshot query
  StatementRows,  \* rows of a MERGE statement
  MaxRuns,        \* bound: runs
  MaxOps,         \* bound: statements and commits
  Changing,       \* bound: the source rows that are updated
  MaxEdits,       \* bound: updates of a row
  MaxEpochs,      \* bound: submissions
  MaxRetries      \* bound: failed saves of the progress

ASSUME RebuildAssumption ==
  /\ Tables \in Nat \ {0}
  /\ IsFiniteSet(Keys)
  /\ Filtered \subseteq 1..Tables
  /\ Source \in [1..Tables -> Seq(Keys)]
  /\ \A t \in 1..Tables : IsInjective(Source[t])
  /\ Before \in [1..Tables -> [Keys -> {"absent", "inside", "outside"}]]
  /\ Changing \subseteq {row \in (1..Tables) \X Keys : row[2] \in Range(Source[row[1]])}
  /\ {ChunkSize, StatementRows, MaxEpochs} \subseteq Nat \ {0}
  /\ {MaxRuns, MaxOps, MaxEdits, MaxRetries} \subseteq Nat

Table == 1..Tables
Images == UNION {[K -> 0..MaxEdits] : K \in SUBSET Keys}
Nothing == [k \in {} |-> 0]

VARIABLES
  version,   \* the version of each source row
  edited,    \* rows updated since the position captured for the stream
  mode,      \* snapshot_write_mode: "merge" or "native"
  epoch,     \* the submission the rebuild token names
  snap,      \* job_snapshots: "none", "open" or "done"
  progress,  \* job_snapshot_progress
  ops,       \* statements and commits with their intents, oldest first
  target,    \* the rows of the Iceberg tables
  run,       \* runs so far
  pc,        \* where the run is
  table,     \* the table being reset or copied
  at,        \* rows of it emitted
  chunk,     \* the rows of the batch the sink has been given
  todo,      \* what it has still to write of it
  applied,   \* tables with snapshotReplaceApplied, snapshotTruncateApplied
  verified,  \* intents this run's recovery has settled
  legacy,    \* scopedLegacyMerges
  receipts,  \* recoveryIntents
  retries,   \* failed saves so far
  again      \* a chunk was appended again by the source's own retry

sourceVars == <<version, edited>>
durableVars == <<mode, epoch, snap, progress>>
memoryVars == <<chunk, todo, applied, verified, legacy, receipts>>
vars == <<sourceVars, durableVars, ops, target, run, pc, table, at,
          memoryVars, retries, again>>

NoProgress == [table |-> 0, at |-> 0]
Cell == [n : Nat, epoch : 0..MaxEpochs, version : 0..MaxEdits]
Absent == [n |-> 0, epoch |-> 0, version |-> 0]

\* do: the reset and merge of Trino, the append and the delete-append of the
\* native writer.  query: the identity of the query is stored.
OpRecord ==
  [epoch : 1..MaxEpochs, table : Table,
   do : {"reset", "merge", "append", "replace"}, lo : Nat, rows : Images,
   intent : {"none", "PREPARED", "COMMITTED"}, query : BOOLEAN,
   engine : {"unsent", "sent", "finished", "failed"}]

TypeOK ==
  /\ version \in [Table -> [Keys -> 0..MaxEdits]]
  /\ edited \subseteq Table \X Keys
  /\ mode \in {"merge", "native"}
  /\ epoch \in 1..MaxEpochs
  /\ snap \in {"none", "open", "done"}
  /\ progress = NoProgress \/ progress \in [table : Table, at : Nat]
  /\ ops \in Seq(OpRecord) /\ Len(ops) <= MaxOps
  /\ target \in [Table -> [Keys -> Cell]]
  /\ run \in 0..MaxRuns
  /\ pc \in {"down", "recover", "validate", "reset", "exec", "start",
             "barrier", "plan", "read", "write", "append", "ack",
             "complete", "cleanup", "done"}
  /\ table \in Table
  /\ at \in Nat
  /\ chunk \in Images
  /\ todo \in Seq(Images)
  /\ applied \subseteq Table
  /\ verified \subseteq DOMAIN ops
  /\ legacy \subseteq Table
  /\ receipts \subseteq DOMAIN ops
  /\ retries \in 0..MaxRetries
  /\ again \in BOOLEAN

-----------------------------------------------------------------------------
(* Intents *)

Intents == {o \in DOMAIN ops : ops[o].intent # "none"}
Statement(o) == ops[o].do \in {"reset", "merge"}
RowsEnd(o) == ops[o].lo + Cardinality(DOMAIN ops[o].rows)

SetIntents(S, st) ==
  [o \in DOMAIN ops |-> IF o \in S THEN [ops[o] EXCEPT !.intent = st]
                        ELSE ops[o]]

Settled == \A o \in Intents : ops[o].intent = "COMMITTED"

\* Mutant: the state of the query is not looked at.
QueryKnown(o) == ops[o].query

\* confirmTrinoRebuildIntent: the query is FINISHED by the coordinator's word
\* or by the snapshot it has left in the table.
Confirmable(o) == ops[o].query /\ ops[o].engine = "finished"

\* icebergIntentCovered
Covered(o) ==
  \/ snap = "done"
  \/ progress.table = ops[o].table /\ progress.at >= RowsEnd(o)

Init ==
  /\ version = [t \in Table |-> [k \in Keys |-> 0]]
  /\ edited = {}
  /\ mode \in {"merge", "native"}
  /\ epoch = 1
  /\ snap = "none"
  /\ progress = NoProgress
  /\ ops = <<>>
  /\ target = [t \in Table |-> [k \in Keys |->
       IF Before[t][k] = "absent" THEN Absent ELSE [Absent EXCEPT !.n = 1]]]
  /\ run = 0
  /\ pc = "down"
  /\ table = 1
  /\ at = 0
  /\ chunk = Nothing
  /\ todo = <<>>
  /\ applied = {}
  /\ verified = {}
  /\ legacy = {}
  /\ receipts = {}
  /\ retries = 0
  /\ again = FALSE

\* Process memory is lost.
EndRun ==
  /\ pc' = "down"
  /\ table' = 1
  /\ at' = 0
  /\ chunk' = Nothing
  /\ todo' = <<>>
  /\ applied' = {}
  /\ verified' = {}
  /\ legacy' = {}
  /\ receipts' = {}

Goto(label) == pc' = label

-----------------------------------------------------------------------------
(* The source database, Trino and the catalog *)

\* A row is updated.  Bound: only while a copy goes on.
Edit(t, k) ==
  /\ version[t][k] < MaxEdits
  /\ snap = "open"
  /\ version' = [version EXCEPT ![t][k] = @ + 1]
  /\ edited' = edited \cup {<<t, k>>}
  /\ UNCHANGED <<durableVars, ops, target, run, pc, table, at, memoryVars,
                 retries, again>>

\* snapshotReplaceFilterTrinoSQL and snapshotTruncateTrinoSQL: the rows the
\* reset of a table deletes.  What a rebuild has copied is within its scope.
InScope(t, k) ==
  \/ t \notin Filtered
  \/ target[t][k].epoch > 0
  \/ Before[t][k] = "inside"

Written(op, k, n) == [n |-> n, epoch |-> op.epoch, version |-> op.rows[k]]

\* How often a written row is there: a merge updates the rows it matches.
Copies(op, n) ==
  CASE op.do = "merge" -> Max({n, 1})
    [] op.do = "append" -> n + 1
    [] op.do = "replace" -> 1

\* The rows of a target after a statement or a commit.
Effect(op) ==
  [k \in Keys |->
     LET cell == target[op.table][k]
     IN  IF op.do = "reset" THEN IF InScope(op.table, k) THEN Absent ELSE cell
         ELSE IF k \in DOMAIN op.rows THEN Written(op, k, Copies(op, cell.n))
         ELSE cell]

\* The request is sent, by the run that has the intent or, late, by a process
\* that has lost the fence.
Send(o) ==
  /\ ops[o].engine = "unsent"
  /\ ops' = [ops EXCEPT ![o].engine = "sent"]
  /\ UNCHANGED <<sourceVars, durableVars, target, run, pc, table, at,
                 memoryVars, retries, again>>

Finish(o) ==
  /\ ops[o].engine = "sent"
  /\ ops' = [ops EXCEPT ![o].engine = "finished"]
  /\ target' = [target EXCEPT ![ops[o].table] = Effect(ops[o])]
  /\ UNCHANGED <<sourceVars, durableVars, run, pc, table, at, memoryVars,
                 retries, again>>

\* A commit is refused.  A statement that fails keeps its intent open like one
\* that never ends, so that it needs no step.
Fail(o) ==
  /\ ~Statement(o)
  /\ ops[o].engine = "sent"
  /\ ops' = [ops EXCEPT ![o].engine = "failed"]
  /\ UNCHANGED <<sourceVars, durableVars, target, run, pc, table, at,
                 memoryVars, retries, again>>

-----------------------------------------------------------------------------
(* Lifecycle of the job *)

StartRun ==
  /\ pc = "down"
  /\ run < MaxRuns
  /\ run' = run + 1
  /\ Goto("recover")
  /\ UNCHANGED <<sourceVars, durableVars, ops, target, table, at, memoryVars,
                 retries, again>>

\* UpgradeJobNativeRebuild, when an inactive job is resubmitted.
UpgradeJobNativeRebuild ==
  /\ pc = "down"
  /\ mode = "merge"
  /\ snap = "open"
  /\ \A o \in Intents : Statement(o) /\ ops[o].query
  /\ mode' = "native"
  /\ UNCHANGED <<sourceVars, epoch, snap, progress, ops, target, run, pc,
                 table, at, memoryVars, retries, again>>

\* RequestJobRebuild: the binlog of a copied job was purged.  Checkpoint and
\* intents are archived, and a new submission starts.
RequestJobRebuild ==
  /\ pc = "down"
  /\ snap = "done"
  /\ Settled
  /\ epoch < MaxEpochs
  /\ epoch' = epoch + 1
  /\ mode' = "native"
  /\ snap' = "none"
  /\ progress' = NoProgress
  /\ ops' = SetIntents(Intents, "none")
  /\ again' = FALSE
  /\ UNCHANGED <<sourceVars, target, run, pc, table, at, memoryVars, retries>>

-----------------------------------------------------------------------------
(* Recovery *)

\* Mutant: the merges of earlier runs are not remembered.
Forgotten(o) == {}

LegacyMerge(o) == IF ops[o].do = "merge" THEN {ops[o].table} ELSE {}

\* checkIcebergRecovery on the intent of a statement.
RecoverStatement(o) ==
  /\ pc = "recover"
  /\ o \in Intents \ verified
  /\ Statement(o)
  /\ ops[o].intent = "COMMITTED" \/ Confirmable(o)
  /\ verified' = verified \cup {o}
  /\ legacy' = legacy \cup LegacyMerge(o)
  /\ ops' = SetIntents({o}, IF snap = "done" THEN "none" ELSE "COMMITTED")
  /\ UNCHANGED <<sourceVars, durableVars, target, run, pc, table, at, chunk,
                 todo, applied, receipts, retries, again>>

\* checkIcebergRecovery on the intent of a native commit.
RecoverCommit(o) ==
  /\ pc = "recover"
  /\ o \in Intents \ verified
  /\ ~Statement(o)
  /\ \/ /\ Covered(o)
        /\ ops[o].intent = "COMMITTED" \/ ops[o].engine = "finished"
        /\ ops' = SetIntents({o}, "none")
        /\ UNCHANGED receipts
     \/ /\ ~Covered(o)
        /\ ops[o].engine = "finished"
        /\ ops' = SetIntents({o}, "COMMITTED")
        /\ receipts' = receipts \cup {o}
  /\ verified' = verified \cup {o}
  /\ UNCHANGED <<sourceVars, durableVars, target, run, pc, table, at, chunk,
                 todo, applied, legacy, retries, again>>

\* Mutant: statements without a stored query are passed over.
QueriesVerified == {o \in Intents : ops[o].query} \subseteq verified

AllVerified == Intents \subseteq verified

RecoverDone ==
  /\ pc = "recover"
  /\ AllVerified
  /\ Goto(CASE snap = "none" -> "validate"
            [] snap = "open" -> "barrier"
            [] snap = "done" -> "complete")
  /\ UNCHANGED <<sourceVars, durableVars, ops, target, run, table, at,
                 memoryVars, retries, again>>

-----------------------------------------------------------------------------
(* Statements: executeRebuildStatement *)

\* A statement of this submission with the same batch identity.
Issued(do, t, rows) ==
  {o \in Intents : /\ ops[o].do = do
                   /\ ops[o].epoch = epoch
                   /\ ops[o].table = t
                   /\ ops[o].rows = rows}

\* One that was issued is confirmed, never repeated.
StatementConfirmed(do, t, rows) ==
  \E o \in Issued(do, t, rows) :
    /\ ops[o].intent = "COMMITTED" \/ Confirmable(o)
    /\ ops' = SetIntents({o}, "COMMITTED")

\* BeginIcebergCommit, before the request.
Begin(do, t, lo, rows) ==
  /\ Len(ops) < MaxOps
  /\ ops' = Append(ops, [epoch |-> epoch, table |-> t, do |-> do, lo |-> lo,
                         rows |-> rows, intent |-> "PREPARED",
                         query |-> FALSE, engine |-> "unsent"])
  /\ Goto("exec")

NotIssued(do, t, rows) == Issued(do, t, rows) = {}

Current == Len(ops)

\* execTrinoStatementTracked: Trino has answered the request, and the identity
\* of the query is stored before its state is polled.
RecordIcebergTrinoQuery ==
  /\ pc = "exec"
  /\ Statement(Current)
  /\ ~ops[Current].query
  /\ ops[Current].engine # "unsent"
  /\ ops' = [ops EXCEPT ![Current].query = TRUE]
  /\ UNCHANGED <<sourceVars, durableVars, target, run, pc, table, at,
                 memoryVars, retries, again>>

-----------------------------------------------------------------------------
(* Preflight: validation, reset, the saved start *)

\* ValidateSnapshotSourceTable: a filtered target has no key twice.
ValidateSnapshotSourceTables ==
  /\ pc = "validate"
  /\ \A t \in Filtered, k \in Keys : target[t][k].n <= 1
  /\ Goto("reset")
  /\ UNCHANGED <<sourceVars, durableVars, ops, target, run, table, at,
                 memoryVars, retries, again>>

LastTable == table = Tables

\* Mutant: the last table is followed by one more.
OneTableMore == table + 1

FollowingTable == 1 + (table % Tables)

\* ResetSnapshotSourceTable, after its statement.
ResetApplied ==
  /\ applied' = applied \cup {table}
  /\ table' = FollowingTable
  /\ Goto(IF LastTable THEN "start" ELSE "reset")

ResetIssued ==
  /\ pc = "reset"
  /\ StatementConfirmed("reset", table, Nothing)
  /\ ResetApplied
  /\ UNCHANGED <<sourceVars, durableVars, target, run, at, chunk, todo,
                 verified, legacy, receipts, retries, again>>

ResetSnapshotSourceTable ==
  /\ pc = "reset"
  /\ NotIssued("reset", table, Nothing)
  /\ Begin("reset", table, 0, Nothing)
  /\ UNCHANGED <<sourceVars, durableVars, target, run, table, at, memoryVars,
                 retries, again>>

ResetFinished ==
  /\ pc = "exec"
  /\ ops[Current].do = "reset"
  /\ Confirmable(Current)
  /\ ops' = SetIntents({Current}, "COMMITTED")
  /\ ResetApplied
  /\ UNCHANGED <<sourceVars, durableVars, target, run, at, chunk, todo,
                 verified, legacy, receipts, retries, again>>

\* CheckScopedRebuildEmptyCheckpoint, CheckScopedRebuildIntents
StartAdmitted ==
  /\ snap = "none"
  /\ progress = NoProgress
  /\ \A o \in Intents :
       /\ Statement(o)
       /\ ops[o].epoch = epoch
       /\ ops[o].intent = "COMMITTED"
       /\ ops[o].query

\* resetInitialCheckpoint, the position of the stream, SaveSnapshotStart.
SaveSnapshotStart ==
  /\ pc = "start"
  /\ StartAdmitted
  /\ snap' = "open"
  /\ edited' = {}
  /\ Goto("barrier")
  /\ UNCHANGED <<version, mode, epoch, progress, ops, target, run, table, at,
                 memoryVars, retries, again>>

\* confirmScopedResetBarrier
ResetsConfirmed ==
  /\ Settled
  /\ \A t \in Table : \E o \in Intents : /\ ops[o].do = "reset"
                                         /\ ops[o].epoch = epoch
                                         /\ ops[o].table = t
                                         /\ ops[o].query

\* handleSnapshotBarrier at the start.
SnapshotStart ==
  /\ pc = "barrier"
  /\ snap = "open"
  /\ ResetsConfirmed
  /\ applied' = Table
  /\ Goto("plan")
  /\ UNCHANGED <<sourceVars, durableVars, ops, target, run, table, at, chunk,
                 todo, verified, legacy, receipts, retries, again>>

-----------------------------------------------------------------------------
(* The copy *)

\* RunInitialSnapshotAllFromSavedProgress
PlanTables ==
  /\ pc = "plan"
  /\ table' = IF progress = NoProgress THEN 1 ELSE progress.table
  /\ at' = progress.at
  /\ Goto("read")
  /\ UNCHANGED <<sourceVars, durableVars, ops, target, run, memoryVars,
                 retries, again>>

Remaining == SubSeq(Source[table], at + 1, Len(Source[table]))

Image(keys) == [k \in Range(keys) |-> version[table][k]]

\* Mutant: the rows a receipt stands for are not compared.
ReceivedTable(keys) == \E o \in receipts : ops[o].table = table

\* unrecoveredSnapshotRows; every run reads the same chunks, so that a receipt
\* covers a chunk or nothing of it.
Received(keys) ==
  \A i \in DOMAIN keys : \E o \in receipts :
    ops[o].table = table /\ ops[o].lo < at + i /\ at + i <= RowsEnd(o)

\* A chunk of MERGE is cut by the length of a statement; one of the native
\* writer is a single commit.
StatementsOf(keys) ==
  IF mode = "native" THEN <<Image(keys)>>
  ELSE [i \in 1..((Len(keys) + StatementRows - 1) \div StatementRows) |->
          Image(SubSeq(keys, (i - 1) * StatementRows + 1,
                       Min({i * StatementRows, Len(keys)})))]

ReadChunk ==
  /\ pc = "read"
  /\ Remaining # <<>>
  /\ table \in applied
  /\ LET keys == SubSeq(Remaining, 1, Min({ChunkSize, Len(Remaining)}))
     IN  /\ chunk' = Image(keys)
         /\ todo' = IF Received(keys) THEN <<>> ELSE StatementsOf(keys)
  /\ Goto("write")
  /\ UNCHANGED <<sourceVars, durableVars, ops, target, run, table, at,
                 applied, verified, legacy, receipts, retries, again>>

TableCopied ==
  /\ pc = "read"
  /\ Remaining = <<>>
  /\ table' = FollowingTable
  /\ at' = 0
  /\ Goto(IF LastTable THEN "complete" ELSE "read")
  /\ UNCHANGED <<sourceVars, durableVars, ops, target, run, memoryVars,
                 retries, again>>

BatchWritten ==
  /\ pc = "write"
  /\ todo = <<>>
  /\ Goto("ack")
  /\ UNCHANGED <<sourceVars, durableVars, ops, target, run, table, at,
                 memoryVars, retries, again>>

\* flushScopedSnapshot in the mode of earlier releases.
MergeIssued ==
  /\ pc = "write"
  /\ todo # <<>>
  /\ mode = "merge"
  /\ StatementConfirmed("merge", table, Head(todo))
  /\ todo' = Tail(todo)
  /\ UNCHANGED <<sourceVars, durableVars, target, run, pc, table, at, chunk,
                 applied, verified, legacy, receipts, retries, again>>

MergeRows ==
  /\ pc = "write"
  /\ todo # <<>>
  /\ mode = "merge"
  /\ NotIssued("merge", table, Head(todo))
  /\ Begin("merge", table, at, Head(todo))
  /\ UNCHANGED <<sourceVars, durableVars, target, run, table, at, memoryVars,
                 retries, again>>

MergeFinished ==
  /\ pc = "exec"
  /\ ops[Current].do = "merge"
  /\ Confirmable(Current)
  /\ ops' = SetIntents({Current}, "COMMITTED")
  /\ todo' = Tail(todo)
  /\ Goto("write")
  /\ UNCHANGED <<sourceVars, durableVars, target, run, table, at, chunk,
                 applied, verified, legacy, receipts, retries, again>>

\* The targets in which rows to be written may be present.
LooksUp == table \in Filtered \/ table \in legacy

\* scopedSnapshotBeforeImages
BeforeImages == {k \in DOMAIN Head(todo) : target[table][k].n > 0}

\* scopedSnapshotReplacementKeys
Replacement == IF LooksUp /\ BeforeImages # {} THEN "replace" ELSE "append"

\* flushScopedNativeSnapshot, which refuses a key the target has twice.  The
\* lookup and the commit are one step: nobody else writes to the target.
CommitRows ==
  /\ pc = "write"
  /\ todo # <<>>
  /\ mode = "native"
  /\ LooksUp => \A k \in BeforeImages : target[table][k].n = 1
  /\ Begin(Replacement, table, at, Head(todo))
  /\ UNCHANGED <<sourceVars, durableVars, target, run, table, at, memoryVars,
                 retries, again>>

CommitAccepted ==
  /\ pc = "exec"
  /\ ~Statement(Current)
  /\ ops[Current].engine = "finished"
  /\ ops' = SetIntents({Current}, "COMMITTED")
  /\ todo' = Tail(todo)
  /\ Goto("write")
  /\ UNCHANGED <<sourceVars, durableVars, target, run, table, at, chunk,
                 applied, verified, legacy, receipts, retries, again>>

\* The catalog refuses: the intent goes, and the batch is written again.
CommitRejected ==
  /\ pc = "exec"
  /\ ~Statement(Current)
  /\ ops[Current].engine = "failed"
  /\ ops' = SetIntents({Current}, "none")
  /\ Goto("write")
  /\ UNCHANGED <<sourceVars, durableVars, target, run, table, at, memoryVars,
                 retries, again>>

Saved == [table |-> table, at |-> at + Cardinality(DOMAIN chunk)]

\* The intents SaveSnapshotProgress deletes.
Accounted == {o \in Intents : /\ ~Statement(o)
                              /\ ops[o].intent = "COMMITTED"
                              /\ ops[o].table = table
                              /\ RowsEnd(o) <= Saved.at}

Acknowledged ==
  /\ pc = "ack"
  /\ progress' = Saved
  /\ ops' = SetIntents(Accounted, "none")
  /\ at' = Saved.at
  /\ chunk' = Nothing
  /\ Goto("read")
  /\ UNCHANGED <<sourceVars, mode, epoch, snap, target, run, table, todo,
                 applied, verified, legacy, receipts, retries, again>>

\* The save fails, and the source goes back to the progress that is saved.
SourceRetry ==
  /\ pc = "ack"
  /\ retries < MaxRetries
  /\ retries' = retries + 1
  /\ again' = (again \/ (mode = "native" /\ ~LooksUp))
  /\ chunk' = Nothing
  /\ Goto("plan")
  /\ UNCHANGED <<sourceVars, durableVars, ops, target, run, table, at, todo,
                 applied, verified, legacy, receipts>>

-----------------------------------------------------------------------------
(* Completion, failure *)

\* handleSnapshotBarrier at the end, ConfirmSnapshotCompletion
ConfirmCompletion ==
  /\ pc = "complete"
  /\ Settled
  /\ snap' = "done"
  /\ Goto("cleanup")
  /\ UNCHANGED <<sourceVars, mode, epoch, progress, ops, target, run, table,
                 at, memoryVars, retries, again>>

\* cleanupScopedRebuildIntents, one intent after the other.
CleanupIntent(o) ==
  /\ pc = "cleanup"
  /\ o \in Intents
  /\ ops[o].intent = "COMMITTED"
  /\ ops' = SetIntents({o}, "none")
  /\ UNCHANGED <<sourceVars, durableVars, target, run, pc, table, at,
                 memoryVars, retries, again>>

\* ClearSnapshotProgress; the stream follows.
Copied ==
  /\ pc = "cleanup"
  /\ Intents = {}
  /\ progress' = NoProgress
  /\ Goto("done")
  /\ UNCHANGED <<sourceVars, mode, epoch, snap, ops, target, run, table, at,
                 memoryVars, retries, again>>

\* An error, all of which are permanent here, a stop, a lost lease or a
\* crash.  What is in flight stays in flight.
RunEnds ==
  /\ pc # "down"
  /\ EndRun
  /\ UNCHANGED <<sourceVars, durableVars, ops, target, run, retries, again>>

Next ==
  \/ \E row \in Changing : Edit(row[1], row[2])
  \/ \E o \in DOMAIN ops :
       \/ Send(o) \/ Finish(o) \/ Fail(o)
       \/ RecoverStatement(o) \/ RecoverCommit(o) \/ CleanupIntent(o)
  \/ StartRun \/ UpgradeJobNativeRebuild \/ RequestJobRebuild
  \/ RecoverDone \/ RecordIcebergTrinoQuery
  \/ ValidateSnapshotSourceTables \/ ResetIssued \/ ResetSnapshotSourceTable
  \/ ResetFinished \/ SaveSnapshotStart \/ SnapshotStart
  \/ PlanTables \/ ReadChunk \/ TableCopied \/ BatchWritten \/ MergeIssued
  \/ MergeRows \/ MergeFinished \/ CommitRows \/ CommitAccepted
  \/ CommitRejected \/ Acknowledged \/ SourceRetry
  \/ ConfirmCompletion \/ Copied \/ RunEnds

Spec == Init /\ [][Next]_vars

-----------------------------------------------------------------------------
(* Properties *)

\* A completed rebuild has every row of the source queries exactly once,
\* written by this submission and up to date unless the stream will repair it,
\* no other row within the scope, and all the rows outside of it that no source
\* row replaces.  Left out is an unfiltered table whose chunk the source's own
\* retry has sent again after a failed save of its progress.
CompletionExact ==
  snap = "done" /\ ~again =>
    \A t \in Table, k \in Keys :
      LET cell == target[t][k]
      IN  IF k \in Range(Source[t])
          THEN /\ cell.n = 1
               /\ cell.epoch = epoch
               /\ <<t, k>> \notin edited => cell.version = version[t][k]
          ELSE cell.n = IF t \in Filtered /\ Before[t][k] = "outside" THEN 1 ELSE 0

\* A statement or commit that may still act, whoever has sent it, keeps an
\* open intent of this submission; no run copies, completes or starts a new
\* submission around it.
NothingActsUnseen ==
  \A o \in DOMAIN ops :
    ops[o].engine \in {"unsent", "sent"} =>
      /\ ops[o].intent = "PREPARED"
      /\ ops[o].epoch = epoch
      /\ snap # "done"
      /\ pc \in {"down", "recover"} \/ (pc = "exec" /\ o = Current)

\* Once the start of the copy is saved the scope holds only what this
\* submission has written, whatever is still in flight.
ScopeEmptied ==
  snap # "none" =>
    \A t \in Table, k \in Keys :
      target[t][k].n > 0 /\ InScope(t, k) => target[t][k].epoch = epoch

\* The saved progress never runs ahead of the target, across upgrades as well.
ProgressCovers ==
  progress # NoProgress =>
    \A t \in 1..progress.table : \A i \in DOMAIN Source[t] :
      LET cell == target[t][Source[t][i]]
      IN  (t < progress.table \/ i <= progress.at) =>
            /\ cell.n >= 1
            /\ cell.epoch = epoch
            /\ <<t, Source[t][i]>> \notin edited =>
                 cell.version = version[t][Source[t][i]]

\* A row never goes back to an older image: no late or repeated statement
\* overwrites what was written after it.
RowsForward ==
  [][\A t \in Table, k \in Keys :
       LET old == target[t][k]
           new == target'[t][k]
       IN  old.n > 0 /\ new.n > 0 =>
             \/ old.epoch < new.epoch
             \/ old.epoch = new.epoch /\ old.version <= new.version]_vars
==============================================================================
