---------------------------- MODULE SnapshotCopy ----------------------------
(***************************************************************************)
(* The initial snapshot of one job: the MySQL source reads its tables      *)
(* chunk by chunk in key order, the Iceberg sink writes the chunks, and    *)
(* progress, completion and commit intents are durable.  A run is one      *)
(* process; it may end between any two steps, and a later one resumes.     *)
(*                                                                         *)
(* A row is its key.  The change stream that follows the snapshot starts   *)
(* at the position captured before it and repairs every row changed since; *)
(* touched are those rows.  The others must be right when the snapshot is  *)
(* confirmed.  The guarded commit is the one of IcebergCommit, without the *)
(* expiry of evidence.                                                     *)
(***************************************************************************)
EXTENDS Integers, FiniteSetsExt, SequencesExt

CONSTANTS
  Tables,         \* how many source tables the job has
  MaxKey,         \* bound: keys are 1..MaxKey
  ChunkSize,      \* rows of a snapshot query
  Confs,          \* configurations: records of Conf
  FirstRows,      \* the rows of each table at first
  MaxRuns,        \* bound: runs
  MaxOps,         \* bound: catalog operations
  MaxChanges,     \* bound: changes of the source
  MaxRetries      \* bound: failed steps the source repeats within a run

ASSUME CopyAssumption ==
  /\ Tables \in Nat \ {0}
  /\ MaxKey \in Nat \ {0}
  /\ ChunkSize \in Nat \ {0}
  /\ {MaxRuns, MaxOps, MaxChanges, MaxRetries} \subseteq Nat

Table == 1..Tables
Key == 1..MaxKey
Op == 1..MaxOps
NoKey == 0

\* mode: cfg.SnapshotWriteMode; trino: the snapshot delete executor is Trino;
\* rolling: snapshot_rolling_enabled; split: the rows of one sink commit;
\* stale: the target has a row of an earlier life of the table.
Conf ==
  [mode : {"append", "auto", "truncate"}, trino : BOOLEAN,
   rolling : BOOLEAN, split : Nat \ {0}, stale : BOOLEAN]

ASSUME ConfAssumption ==
  /\ Confs \subseteq Conf
  /\ FirstRows \in [Table -> SUBSET Key]
  \* Explicit append is for targets that are empty.
  /\ \A c \in Confs : c.mode = "append" => ~c.stale

VARIABLES
  conf,        \* the job's configuration, which never changes
  src,         \* the rows of the source tables
  touched,     \* rows changed since the position that was captured last
  changes,     \* changes so far
  snap,        \* job_snapshots: "none", "started" or "confirmed"
  progress,    \* job_snapshot_progress
  ops,         \* catalog operations and their intents, oldest first
  target,      \* how often the Iceberg tables hold each row
  rebuild,     \* the submission carries the full-reset token
  run,         \* runs so far
  fresh,       \* the run was started in mode initial
  pc,          \* where the run is
  table,       \* the table being checked or copied
  view,        \* the rows its REPEATABLE READ transaction sees
  emitted,     \* rowsEmitted
  cursor,      \* the last key read
  rolling,     \* rollingTable
  chunk,       \* the rows of the batch the sink has been given
  todo,        \* what the sink has still to commit of it
  spool,       \* snapshotSpool per table
  truncated,   \* tables with snapshotTruncateApplied
  safe,        \* tables with snapshotAppendSafe
  receipts,    \* recoveryIntents
  retries,     \* failed steps so far
  weak         \* where the copy had to rely on what the code does not ensure

sourceVars == <<src, touched, changes>>
durableVars == <<snap, progress, rebuild>>
tableVars == <<table, view, emitted, cursor, rolling>>
sinkVars == <<chunk, todo, spool, truncated, safe, receipts>>
vars == <<conf, sourceVars, durableVars, ops, target, run, fresh, pc,
          tableVars, sinkVars, retries, weak>>

NoProgress == [table |-> 0, next |-> 0, cursor |-> NoKey]
Piece == [lo : Nat, keys : Seq(Key)]

OpRecord ==
  [table : Table, do : {"append", "roll", "truncate", "reset"}, lo : Nat,
   hi : Nat, keys : Seq(Key), seen : SUBSET Key, intent : {"none", "PREPARED", "COMMITTED"},
   catalog : {"inflight", "landed", "lost"}]

TypeOK ==
  /\ conf \in Confs
  /\ src \in [Table -> SUBSET Key]
  /\ touched \subseteq Table \X Key
  /\ changes \in 0..MaxChanges
  /\ snap \in {"none", "started", "confirmed"}
  /\ progress = NoProgress \/
       progress \in [table : Table, next : Nat, cursor : Key \cup {NoKey}]
  /\ ops \in Seq(OpRecord) /\ Len(ops) <= MaxOps
  /\ target \in [Table -> [Key -> Nat]]
  /\ rebuild \in BOOLEAN
  /\ run \in 0..MaxRuns
  /\ fresh \in BOOLEAN
  /\ pc \in {"down", "recover", "ensure", "reset", "start", "capture",
             "plan", "open", "read", "batch", "append", "spool", "commit", "ack", "rolled",
             "complete", "clear", "done"}
  /\ table \in Table
  /\ view \subseteq Key
  /\ emitted \in Nat
  /\ cursor \in Key \cup {NoKey}
  /\ rolling \in BOOLEAN
  /\ chunk \in Seq(Key)
  /\ todo \in Seq(Piece)
  /\ spool \in [Table -> Seq(Key)]
  /\ truncated \subseteq Table
  /\ safe \subseteq Table
  /\ receipts \subseteq Op
  /\ retries \in 0..MaxRetries
  /\ weak \subseteq {"shifted", "appended", "deleted", "wiped"}

-----------------------------------------------------------------------------
(* Intents *)

Intents == {o \in DOMAIN ops : ops[o].intent # "none"}

\* icebergIntentCovered
Covered(o) ==
  \/ snap = "confirmed"
  \/ progress.table = ops[o].table /\ progress.next >= ops[o].hi

\* Only appends carry evidence from which a later process may conclude.
RecoverableDataOperation(o) == ops[o].do \in {"append", "roll"}

Proven(o) == RecoverableDataOperation(o) /\ ops[o].catalog = "landed"

SetIntents(S, st) ==
  [o \in DOMAIN ops |-> IF o \in S THEN [ops[o] EXCEPT !.intent = st]
                        ELSE ops[o]]

Init ==
  /\ conf \in Confs
  /\ src = FirstRows
  /\ touched = {}
  /\ changes = 0
  /\ snap = "none"
  /\ progress = NoProgress
  /\ ops = <<>>
  /\ target = [t \in Table |-> [k \in Key |->
                 IF conf.stale /\ k \in {1, MaxKey} THEN 1 ELSE 0]]
  /\ rebuild = FALSE
  /\ run = 0
  /\ fresh = TRUE
  /\ pc = "down"
  /\ table = 1
  /\ view = {}
  /\ emitted = 0
  /\ cursor = NoKey
  /\ rolling = FALSE
  /\ chunk = <<>>
  /\ todo = <<>>
  /\ spool = [t \in Table |-> <<>>]
  /\ truncated = {}
  /\ safe = {}
  /\ receipts = {}
  /\ retries = 0
  /\ weak = {}

\* Process memory is lost.
EndRun ==
  /\ pc' = "down"
  /\ table' = 1
  /\ view' = {}
  /\ emitted' = 0
  /\ cursor' = NoKey
  /\ rolling' = FALSE
  /\ chunk' = <<>>
  /\ todo' = <<>>
  /\ spool' = [t \in Table |-> <<>>]
  /\ truncated' = {}
  /\ safe' = {}
  /\ receipts' = {}

Goto(label) == pc' = label

\* Mutant: the last table is followed by one more.
OneTableMore == table + 1

FollowingTable == 1 + (table % Tables)

\* Mutant: the loop over the tables ends one early.
LastButOne == table + 1 >= Tables

LastTable == table = Tables

-----------------------------------------------------------------------------
(* The source database and the catalog *)

\* A row is inserted or deleted.  Bound: only while a snapshot goes on.
Change(t, k) ==
  /\ changes < MaxChanges
  /\ snap = "started"
  /\ changes' = changes + 1
  /\ src' = [src EXCEPT ![t] = IF k \in @ THEN @ \ {k} ELSE @ \cup {k}]
  /\ touched' = touched \cup {<<t, k>>}
  /\ UNCHANGED <<conf, durableVars, ops, target, run, fresh, pc, tableVars,
                 sinkVars, retries, weak>>

\* What the rows of a target are after an operation.
Effect(op, rows) ==
  IF op.do \in {"truncate", "reset"} THEN [k \in Key |-> 0]
  ELSE [k \in Key |->
          rows[k] + Cardinality({i \in DOMAIN op.keys : op.keys[i] = k})]

CatalogAccepts(o) ==
  /\ ops[o].catalog = "inflight"
  /\ ops' = [ops EXCEPT ![o].catalog = "landed"]
  /\ target' = [target EXCEPT ![ops[o].table] = Effect(ops[o], @)]
  /\ UNCHANGED <<conf, sourceVars, durableVars, run, fresh, pc, tableVars,
                 sinkVars, retries, weak>>

\* The request is lost, or the process stopped before it was sent.
CatalogLoses(o) ==
  /\ ops[o].catalog = "inflight"
  /\ pc # "commit" \/ o # Len(ops)
  /\ ops' = [ops EXCEPT ![o].catalog = "lost"]
  /\ UNCHANGED <<conf, sourceVars, durableVars, target, run, fresh, pc,
                 tableVars, sinkVars, retries, weak>>

-----------------------------------------------------------------------------
(* Start: recovery, preflight, mode *)

\* A run resumes what is saved.  A new submission in mode initial starts
\* again; with explicit append its operator has emptied the target.
StartRun(initial) ==
  /\ pc = "down"
  /\ run < MaxRuns
  /\ initial \/ snap # "none"
  /\ initial /\ snap # "none" => conf.mode # "append"
  /\ run' = run + 1
  /\ fresh' = initial
  /\ rebuild' = (rebuild /\ ~(initial /\ snap # "none"))
  /\ Goto("recover")
  /\ UNCHANGED <<conf, sourceVars, snap, progress, ops, target, tableVars,
                 sinkVars, retries, weak>>

\* Mutant: the outcome of earlier commits is not looked at.
AnyOutcome(o) == TRUE

\* Every commit has a known outcome.
OutcomeKnown(o) == ops[o].intent = "COMMITTED"

\* RebuildSnapshot: the state and its receipts are archived, and the new
\* submission carries the token of the full reset, which must be native.
Rebuild ==
  /\ pc = "down"
  /\ snap # "none"
  /\ conf.mode = "truncate"
  /\ ~conf.trino
  /\ \A o \in Intents : OutcomeKnown(o)
  /\ snap' = "none"
  /\ progress' = NoProgress
  /\ ops' = SetIntents(Intents, "none")
  /\ rebuild' = TRUE
  /\ UNCHANGED <<conf, sourceVars, target, run, fresh, pc, tableVars,
                 sinkVars, retries, weak>>

\* checkIcebergRecovery on one intent.
RecoverOne(o) ==
  /\ pc = "recover"
  /\ o \in Intents \ receipts
  /\ \/ /\ Covered(o)
        /\ ops[o].intent = "COMMITTED" \/ Proven(o)
        /\ ops' = SetIntents({o}, "none")
        /\ UNCHANGED receipts
     \/ /\ ~Covered(o)
        /\ Proven(o)
        /\ ops' = SetIntents({o}, "COMMITTED")
        /\ receipts' = receipts \cup {o}
  /\ UNCHANGED <<conf, sourceVars, durableVars, target, run, fresh, pc,
                 tableVars, chunk, todo, spool, truncated, safe, retries,
                 weak>>

RecoverDone ==
  /\ pc = "recover"
  /\ Intents \subseteq receipts
  /\ Goto("ensure")
  /\ UNCHANGED <<conf, sourceVars, durableVars, ops, target, run, fresh,
                 tableVars, sinkVars, retries, weak>>

\* EnsureTable, CountTargetRows: the targets without a row.
AppendSafe == {t \in Table : \A k \in Key : target[t][k] = 0}

\* The preflight.
EnsureTables ==
  /\ pc = "ensure"
  /\ safe' = AppendSafe
  /\ Goto(IF fresh /\ rebuild THEN "reset" ELSE "start")
  /\ UNCHANGED <<conf, sourceVars, durableVars, ops, target, run, fresh,
                 tableVars, chunk, todo, spool, truncated, receipts, retries,
                 weak>>

\* BeginIcebergCommit and the request.
Begin(do, lo, hi, keys) ==
  /\ Len(ops) < MaxOps
  /\ ops' = Append(ops, [table |-> table, do |-> do, lo |-> lo, hi |-> hi,
                         keys |-> keys, seen |-> view,
                         intent |-> "PREPARED", catalog |-> "inflight"])
  /\ Goto("commit")

\* ResetTargetTable
ResetTarget ==
  /\ pc = "reset"
  /\ Begin("reset", 0, 0, <<>>)
  /\ UNCHANGED <<conf, sourceVars, durableVars, target, run, fresh,
                 tableVars, sinkVars, retries, weak>>

\* resetInitialCheckpoint, which refuses while an intent is retained.
ResetInitialCheckpoint ==
  /\ pc = "start"
  /\ fresh
  /\ Intents = {}
  /\ snap' = "none"
  /\ progress' = NoProgress
  /\ Goto("capture")
  /\ UNCHANGED <<conf, sourceVars, rebuild, ops, target, run, fresh,
                 tableVars, sinkVars, retries, weak>>

\* handleSnapshotBarrier at the start: spools are dropped, and a rebuild has
\* emptied the targets before its start was saved.
StartBarrier ==
  /\ spool' = [t \in Table |-> <<>>]
  /\ truncated' = IF rebuild THEN Table ELSE truncated
  /\ Goto("plan")

\* getMasterPos: the stream will deliver the changes from here on.
CapturePosition == touched' = {}

\* SaveSnapshotStart, and the start barrier.
BeginSnapshot ==
  /\ pc = "capture"
  /\ CapturePosition
  /\ snap' = "started"
  /\ weak' = {}
  /\ StartBarrier
  /\ UNCHANGED <<conf, src, changes, progress, rebuild, ops, target, run,
                 fresh, tableVars, chunk, todo, safe, receipts, retries>>

ResumeSnapshot ==
  /\ pc = "start"
  /\ ~fresh
  /\ snap = "started"
  /\ StartBarrier
  /\ UNCHANGED <<conf, sourceVars, durableVars, ops, target, run, fresh,
                 tableVars, chunk, todo, safe, receipts, retries, weak>>

ResumeConfirmed ==
  /\ pc = "start"
  /\ ~fresh
  /\ snap = "confirmed"
  /\ Goto("complete")
  /\ UNCHANGED <<conf, sourceVars, durableVars, ops, target, run, fresh,
                 tableVars, sinkVars, retries, weak>>

-----------------------------------------------------------------------------
(* The source: tables, chunks, progress *)

\* Mutant: the saved progress is not looked at.
PlanFromStart == [table |-> 1, next |-> 0, cursor |-> NoKey]

\* RunInitialSnapshotAllFromSavedProgress, ResumeInitialSnapshotAll
SavedPlan == IF progress = NoProgress
             THEN [table |-> 1, next |-> 0, cursor |-> NoKey]
             ELSE progress

PlanTables ==
  /\ pc = "plan"
  /\ table' = SavedPlan.table
  /\ emitted' = SavedPlan.next
  /\ cursor' = SavedPlan.cursor
  /\ Goto("open")
  /\ UNCHANGED <<conf, sourceVars, durableVars, ops, target, run, fresh,
                 view, rolling, sinkVars, retries, weak>>

\* The intents SaveSnapshotProgress deletes.
Accounted(next) ==
  {o \in Intents : /\ ops[o].intent = "COMMITTED"
                   /\ ops[o].table = table
                   /\ ops[o].do # "reset"
                   /\ ops[o].hi <= next}

Saved(next, cur) == [table |-> table, next |-> next, cursor |-> cur]

SaveSnapshotProgress(next, cur) ==
  /\ progress' = Saved(next, cur)
  /\ ops' = SetIntents(Accounted(next), "none")

\* The first n rows of a table read from the cursor on.
FirstAfterCursor(rows, n) ==
  {k \in rows : cursor < k /\ Cardinality({j \in rows : cursor < j /\ j <= k}) <= n}

\* The rows an earlier attempt has read at these places are others by now.
Shifts(o) ==
  /\ ops[o].table = table
  /\ ops[o].hi > emitted
  /\ FirstAfterCursor(ops[o].seen, ops[o].hi - emitted)
       # FirstAfterCursor(src[table], ops[o].hi - emitted)

\* withConsistentSnapshot
ConsistentView == src[table]

OpenTable ==
  /\ pc = "open"
  /\ SaveSnapshotProgress(emitted, cursor)
  /\ view' = ConsistentView
  /\ rolling' = (conf.rolling /\ emitted = 0)
  /\ weak' = weak \cup {w \in {"shifted"} : \E o \in receipts : Shifts(o)}
  /\ Goto("read")
  /\ UNCHANGED <<conf, sourceVars, snap, rebuild, target, run, fresh, table,
                 emitted, cursor, sinkVars, retries>>

\* The members of a set of numbers, in their order.
InOrder(S) ==
  CHOOSE s \in [1..Cardinality(S) -> S] :
    \A i, j \in 1..Cardinality(S) : i < j => s[i] < s[j]

\* The rows after the cursor, in key order.
Remaining == InOrder({k \in view : k > cursor})

\* buildSnapshotQuery
SnapshotQuery == SubSeq(Remaining, 1, Min({ChunkSize, Len(Remaining)}))

NextTable ==
  /\ table' = FollowingTable
  /\ view' = {}
  /\ emitted' = 0
  /\ cursor' = NoKey
  /\ rolling' = FALSE
  /\ Goto(IF LastTable THEN "complete" ELSE "open")

InRange(o, at) == ops[o].lo <= at /\ at < ops[o].hi

\* The positions of a chunk that a receipt covers.
RecoveredAt(keys) ==
  {i \in DOMAIN keys : \E o \in receipts :
     /\ ops[o].table = table
     /\ RecoverableDataOperation(o)
     /\ InRange(o, emitted + i - 1)}

\* unrecoveredSnapshotRows, and each of its spans cut by splitRowsByLimits.
Pieces(keys) ==
  LET open == DOMAIN keys \ RecoveredAt(keys)
      SpanStart(i) == Max({j \in open : j <= i /\ j - 1 \notin open})
      starts == {i \in open : (i - SpanStart(i)) % conf.split = 0}
      End(i) == Max({j \in open : j < i + conf.split /\ i..j \subseteq open})
      PieceAt(i) == [lo |-> emitted + i - 1, keys |-> SubSeq(keys, i, End(i))]
      order == InOrder(starts)
  IN  [n \in DOMAIN order |-> PieceAt(order[n])]

\* snapshotWriteModeForTableState
WriteMode == IF conf.mode # "auto" THEN conf.mode
             ELSE IF table \in safe THEN "append" ELSE "delete"

Spools == rolling /\ WriteMode # "delete"

\* A chunk is read and handleSnapshotBatch begins.
ReadChunk ==
  /\ pc = "read"
  /\ Remaining # <<>>
  /\ LET keys == SnapshotQuery
     IN  /\ chunk' = keys
         /\ todo' = IF Spools THEN <<>> ELSE Pieces(keys)
         /\ Goto(IF Pieces(keys) = <<>> THEN "ack"
                 ELSE IF Spools THEN "spool" ELSE "batch")
  /\ UNCHANGED <<conf, sourceVars, durableVars, ops, target, run, fresh,
                 tableVars, spool, truncated, safe, receipts, retries,
                 weak>>

\* Mutant: progress is saved after every acknowledged batch.
EveryBatchSaves == TRUE

\* A rolled table has no progress before its end.
BatchSaves == ~rolling

\* The batch is acknowledged.
Acknowledged ==
  /\ pc = "ack"
  /\ emitted' = emitted + Len(chunk)
  /\ cursor' = Last(chunk)
  /\ chunk' = <<>>
  /\ IF BatchSaves THEN SaveSnapshotProgress(emitted + Len(chunk), Last(chunk))
     ELSE UNCHANGED <<progress, ops>>
  /\ Goto("read")
  /\ UNCHANGED <<conf, sourceVars, snap, rebuild, target, run, fresh, table,
                 view, rolling, todo, spool, truncated, safe, receipts,
                 retries, weak>>

TableRead ==
  /\ pc = "read"
  /\ Remaining = <<>>
  /\ ~rolling
  /\ NextTable
  /\ UNCHANGED <<conf, sourceVars, durableVars, ops, target, run, fresh,
                 sinkVars, retries, weak>>

\* handleSnapshotTableComplete.  The spool is given up with the attempt to
\* commit it; a failure ends the run.
TableRolled ==
  /\ pc = "read"
  /\ Remaining = <<>>
  /\ rolling
  /\ IF spool[table] = <<>> THEN Goto("rolled") /\ UNCHANGED ops
     ELSE Begin("roll", 0, emitted, spool[table])
  /\ UNCHANGED <<conf, sourceVars, durableVars, target, run, fresh,
                 tableVars, sinkVars, retries, weak>>

RolledSaved ==
  /\ pc = "rolled"
  /\ SaveSnapshotProgress(emitted, cursor)
  /\ NextTable
  /\ UNCHANGED <<conf, sourceVars, snap, rebuild, target, run, fresh,
                 sinkVars, retries, weak>>

\* What this run has committed of the table beyond the saved progress.
Unaccounted(saved) ==
  {o \in Intents \ receipts : /\ RecoverableDataOperation(o)
                              /\ ops[o].table = table
                              /\ ops[o].hi > saved.next}

\* A query or the save of the progress fails: the source's retry loop goes
\* back to the progress that is saved, within the same process.  The save may
\* have happened without the deletion of the intents it accounts for.
SourceRetry ==
  /\ pc \in {"open", "read", "ack", "rolled"}
  /\ retries < MaxRetries
  /\ retries' = retries + 1
  /\ \/ UNCHANGED progress
     \/ /\ pc = "ack" /\ BatchSaves
        /\ progress' = Saved(emitted + Len(chunk), Last(chunk))
     \/ /\ pc \in {"open", "rolled"}
        /\ progress' = Saved(emitted, cursor)
  /\ weak' = weak \cup {w \in {IF WriteMode = "delete" THEN "deleted"
                                ELSE "appended"} : Unaccounted(progress') # {}}
  /\ chunk' = <<>>
  /\ Goto("plan")
  /\ UNCHANGED <<conf, sourceVars, snap, rebuild, ops, target, run, fresh,
                 tableVars, todo, spool, truncated, safe, receipts>>

-----------------------------------------------------------------------------
(* The sink: writing a batch *)

NeedsTruncate == WriteMode = "truncate" /\ table \notin truncated

\* ensureSnapshotTruncateApplied, by Trino or under an intent.  Nothing takes
\* back the receipts of the rows it removes.
TruncateFirst(lo, hi) ==
  /\ NeedsTruncate
  /\ lo = 0
  /\ weak' = weak \cup {w \in {"wiped"} : \E o \in receipts : ops[o].table = table}
  /\ IF conf.trino
     THEN /\ target' = [target EXCEPT ![table] = [k \in Key |-> 0]]
          /\ truncated' = truncated \cup {table}
          /\ UNCHANGED <<ops, pc>>
     ELSE /\ Begin("truncate", lo, hi, <<>>)
          /\ UNCHANGED <<target, truncated>>

PieceEnd(p) == p.lo + Len(p.keys)

TruncateForBatch ==
  /\ pc = "batch"
  /\ todo # <<>>
  /\ TruncateFirst(Head(todo).lo, PieceEnd(Head(todo)))
  /\ UNCHANGED <<conf, sourceVars, durableVars, run, fresh, tableVars, chunk,
                 todo, spool, safe, receipts, retries>>

TruncateForSpool ==
  /\ pc = "spool"
  /\ TruncateFirst(emitted, emitted + Len(chunk))
  /\ UNCHANGED <<conf, sourceVars, durableVars, run, fresh, tableVars, chunk,
                 todo, spool, safe, receipts, retries>>

\* applyKeyDeleteWithTrino
DeleteKeys ==
  /\ pc = "batch"
  /\ todo # <<>>
  /\ WriteMode = "delete"
  /\ conf.trino
  /\ target' = [target EXCEPT ![table] =
                  [k \in Key |-> IF k \in Range(Head(todo).keys) THEN 0
                                 ELSE @[k]]]
  /\ Goto("append")
  /\ UNCHANGED <<conf, sourceVars, durableVars, ops, run, fresh, tableVars,
                 sinkVars, retries, weak>>

\* flushSnapshotAppendOnce
AppendPiece ==
  /\ todo # <<>>
  /\ \/ pc = "append"
     \/ pc = "batch" /\ WriteMode # "delete" /\ ~NeedsTruncate
  /\ Begin("append", Head(todo).lo, PieceEnd(Head(todo)), Head(todo).keys)
  /\ UNCHANGED <<conf, sourceVars, durableVars, target, run, fresh,
                 tableVars, sinkVars, retries, weak>>

BatchWritten ==
  /\ pc = "batch"
  /\ todo = <<>>
  /\ Goto("ack")
  /\ UNCHANGED <<conf, sourceVars, durableVars, ops, target, run, fresh,
                 tableVars, sinkVars, retries, weak>>

\* Mutant: an earlier attempt's spool is continued.
SpoolKept == spool[table]

SpoolBefore == IF emitted = 0 THEN <<>> ELSE spool[table]

\* appendSnapshotSpool: the whole chunk, also the rows a receipt covers.
SpoolChunk ==
  /\ pc = "spool"
  /\ ~NeedsTruncate
  /\ spool' = [spool EXCEPT ![table] = SpoolBefore \o chunk]
  /\ weak' = weak \cup {w \in {"appended"} : RecoveredAt(chunk) # {}}
  /\ Goto("ack")
  /\ UNCHANGED <<conf, sourceVars, durableVars, ops, target, run, fresh,
                 tableVars, chunk, todo, truncated, safe, receipts, retries>>

Current == ops[Len(ops)]

\* guardedIcebergCommit learns that the catalog has accepted the request.
Answered(do) ==
  /\ pc = "commit"
  /\ Current.do = do
  /\ Current.catalog = "landed"
  /\ ops' = SetIntents({Len(ops)}, IF do = "reset" THEN "none" ELSE "COMMITTED")
  /\ UNCHANGED <<conf, sourceVars, durableVars, target, run, fresh, view,
                 emitted, cursor, rolling, chunk, safe, receipts, retries,
                 weak>>

AppendAnswered ==
  /\ Answered("append")
  /\ todo' = Tail(todo)
  /\ Goto("batch")
  /\ UNCHANGED <<table, spool, truncated>>

TruncateAnswered ==
  /\ Answered("truncate")
  /\ truncated' = truncated \cup {table}
  /\ Goto(IF todo = <<>> THEN "spool" ELSE "batch")
  /\ UNCHANGED <<table, todo, spool>>

ResetAnswered ==
  /\ Answered("reset")
  /\ truncated' = truncated \cup {table}
  /\ table' = FollowingTable
  /\ Goto(IF LastTable THEN "start" ELSE "reset")
  /\ UNCHANGED <<todo, spool>>

RollAnswered ==
  /\ Answered("roll")
  /\ spool' = [spool EXCEPT ![table] = <<>>]
  /\ Goto("rolled")
  /\ UNCHANGED <<table, todo, truncated>>

\* The catalog refuses: the intent goes, and the write is tried again where
\* the code retries it.
CommitRejected ==
  /\ pc = "commit"
  /\ Current.catalog = "inflight"
  /\ Current.do \in {"append", "roll"} \/ todo # <<>>
  /\ ops' = [ops EXCEPT ![Len(ops)].catalog = "lost",
                        ![Len(ops)].intent = "none"]
  /\ Goto(IF Current.do = "roll" THEN "read" ELSE "batch")
  /\ UNCHANGED <<conf, sourceVars, durableVars, target, run, fresh,
                 tableVars, sinkVars, retries, weak>>

-----------------------------------------------------------------------------
(* Completion, failure *)

\* handleSnapshotBarrier at the end, and ConfirmSnapshotCompletion.
NothingOpen ==
  /\ \A t \in Table : spool[t] = <<>>
  /\ \A o \in Intents : ops[o].intent = "COMMITTED"

ConfirmCompletion ==
  /\ pc = "complete"
  /\ NothingOpen
  /\ snap' = "confirmed"
  /\ Goto("clear")
  /\ UNCHANGED <<conf, sourceVars, progress, rebuild, ops, target, run,
                 fresh, tableVars, sinkVars, retries, weak>>

\* ClearSnapshotProgress; the change stream follows, or the run is over.
ClearProgress ==
  /\ pc = "clear"
  /\ progress' = NoProgress
  /\ Goto("done")
  /\ UNCHANGED <<conf, sourceVars, snap, rebuild, ops, target, run, fresh,
                 tableVars, sinkVars, retries, weak>>

\* The permanent errors: an outcome that cannot be proven, a reset of state
\* while receipts are retained, a truncate that would come too late, a delete
\* without its executor, a completion with something open.
Refused ==
  \/ /\ pc = "recover"
     /\ \E o \in Intents \ receipts :
          ~Proven(o) /\ ~(ops[o].intent = "COMMITTED" /\ Covered(o))
  \/ pc = "start" /\ fresh /\ Intents # {}
  \/ pc = "batch" /\ todo # <<>> /\ NeedsTruncate /\ Head(todo).lo > 0
  \/ pc = "spool" /\ NeedsTruncate /\ emitted > 0
  \/ pc = "batch" /\ todo # <<>> /\ WriteMode = "delete" /\ ~conf.trino
  \/ pc = "complete" /\ ~NothingOpen

RunRefused ==
  /\ Refused
  /\ EndRun
  /\ UNCHANGED <<conf, sourceVars, durableVars, ops, target, run, fresh,
                 retries, weak>>

\* A step that has failed too often, a stop, a lost lease or a crash.  A
\* request in flight stays in flight.
RunEnds ==
  /\ pc # "down"
  /\ EndRun
  /\ UNCHANGED <<conf, sourceVars, durableVars, ops, target, run, fresh,
                 retries, weak>>

\* The steps a run takes by itself.
RunStep ==
  \/ \E o \in DOMAIN ops : RecoverOne(o)
  \/ RecoverDone \/ EnsureTables \/ ResetTarget \/ ResetInitialCheckpoint
  \/ BeginSnapshot \/ ResumeSnapshot \/ ResumeConfirmed \/ PlanTables
  \/ OpenTable \/ ReadChunk \/ Acknowledged \/ TableRead \/ TableRolled
  \/ RolledSaved \/ TruncateForBatch \/ TruncateForSpool \/ DeleteKeys
  \/ AppendPiece \/ BatchWritten \/ SpoolChunk \/ AppendAnswered \/ TruncateAnswered
  \/ ResetAnswered \/ RollAnswered
  \/ ConfirmCompletion \/ ClearProgress

Next ==
  \/ RunStep
  \/ \E t \in Table, k \in Key : Change(t, k)
  \/ \E o \in DOMAIN ops : CatalogAccepts(o) \/ CatalogLoses(o)
  \/ \E initial \in BOOLEAN : StartRun(initial)
  \/ Rebuild
  \/ SourceRetry
  \/ CommitRejected
  \/ RunRefused
  \/ RunEnds

Spec == Init /\ [][Next]_vars

-----------------------------------------------------------------------------
(* Properties *)

Untouched(t, k) == <<t, k>> \notin touched

\* A confirmed snapshot has every row of the source that the change stream
\* will not deliver: no run that ended between read, spool, commit, receipt and
\* progress has lost one.  Left out are the three ways in which a receipt misleads
\* the next run: rows before its end came or went in the source meanwhile, an
\* attempt of the same run deleted its rows by Trino and did not come to write
\* them again, or a run truncated them by Trino.
RowsComplete ==
  snap = "confirmed" /\ weak \subseteq {"appended"} =>
    \A t \in Table, k \in Key :
      Untouched(t, k) /\ k \in src[t] => target[t][k] >= 1

\* A confirmed snapshot has no such row twice, and after a rebuild none that
\* the source does not have.  Left out are shifted receipts and chunks that are
\* appended again: the source repeats a chunk in the same process after a
\* failed save of its progress, or spools one that a receipt covers in part.
RowsOnce ==
  snap = "confirmed" /\ weak \subseteq {"deleted"} =>
    \A t \in Table, k \in Key :
      Untouched(t, k) =>
        IF k \in src[t] THEN target[t][k] <= 1
        ELSE rebuild => target[t][k] = 0

\* The saved progress never runs ahead of the catalog: all the rows before it
\* are in the target, the ones of the tables before as well.
ProgressCovers ==
  snap = "started" /\ progress # NoProgress /\ weak \subseteq {"appended"} =>
    \A t \in 1..progress.table, k \in Key :
      /\ Untouched(t, k)
      /\ k \in src[t]
      /\ t < progress.table \/ k <= progress.cursor
      => target[t][k] >= 1

\* No request that an earlier run has left behind can still change the target
\* once the snapshot is confirmed, nor behind the back of the store: what may
\* still land has an intent that blocks completion, reset and rebuild.
NoLateWrite ==
  \A o \in DOMAIN ops :
    ops[o].catalog = "inflight" =>
      ops[o].intent = "PREPARED" /\ snap # "confirmed"

\* Startup "uses the receipt to skip exact committed events": a row that is
\* skipped because a receipt covers its place was written by that commit.
ReceiptsExact ==
  \A i \in RecoveredAt(chunk) : \E o \in receipts :
    ops[o].table = table /\ InRange(o, emitted + i - 1)
      /\ chunk[i] \in Range(ops[o].keys)

\* The same sentence: a chunk that is skipped because receipts cover it is in the
\* target.  Trino's truncate removes rows whose receipts are kept.
SkippedRowsThere ==
  pc = "ack" /\ chunk # <<>> /\ RecoveredAt(chunk) = DOMAIN chunk
    /\ weak \subseteq {"appended", "wiped"} =>
      \A i \in DOMAIN chunk :
        Untouched(table, chunk[i]) => target[table][chunk[i]] >= 1

\* While a snapshot goes on its progress never moves back, whatever the runs
\* and the retries within a run do.
ProgressAdvances ==
  [][snap = "started" /\ snap' = "started" /\ progress # NoProgress =>
       \/ progress.table < progress'.table
       \/ /\ progress.table = progress'.table
          /\ progress.next <= progress'.next
          /\ progress.cursor <= progress'.cursor]_vars
==============================================================================
