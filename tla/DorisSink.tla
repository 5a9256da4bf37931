------------------------------ MODULE DorisSink ------------------------------
(***************************************************************************)
(* The Doris sink of one job, with the MySQL source in front of it and     *)
(* Doris behind it.  Rows are buffered per target table and written by     *)
(* Stream Load under a label; a checkpoint is only remembered, and saved   *)
(* when no target has a buffered row.  Nothing fences a load: one that an  *)
(* ended run has left behind may still land.                               *)
(*                                                                         *)
(* An event is its place in the log, and a row of Doris is the place of    *)
(* the event that wrote it last.                                           *)
(***************************************************************************)
EXTENDS Integers, FiniteSetsExt, SequencesExt

CONSTANTS
  Targets,        \* Doris tables
  Keys,           \* primary keys
  Logs,           \* what the source may deliver, a set of sequences of Event
  BatchSize,      \* cfg.BatchSize
  MaxRuns,        \* bound: runs
  MaxReconnects,  \* bound: streams that fail and start again in their run
  MaxResends,     \* bound: repeated requests of a run
  MaxSaveFailures \* bound: failed saves of an offset or of progress

NoKey == 0

Event ==
  [kind : {"chunk"}, target : Targets, keys : Seq(Keys)]
    \cup [kind : {"complete", "checkpoint"}]
    \cup [kind : {"put"}, target : Targets, key : Keys, old : Keys \cup {NoKey}]
    \cup [kind : {"delete", "truncate", "add"}, target : Targets, key : Keys]

ASSUME DorisAssumption ==
  /\ NoKey \notin Keys /\ Targets # {}
  /\ BatchSize \in Nat \ {0}
  /\ {MaxRuns, MaxReconnects, MaxResends, MaxSaveFailures} \subseteq Nat
  /\ \A log \in Logs : log \in Seq(Event)
  \* One snapshot, then the stream; it ends with a checkpoint.
  /\ \A log \in Logs : \E c \in DOMAIN log :
       /\ \A i \in DOMAIN log : log[i].kind = "complete" <=> i = c
       /\ \A i \in DOMAIN log : (log[i].kind = "chunk") => i < c
       /\ \A i \in 1..(c - 1) : log[i].kind = "chunk"
       /\ Last(log).kind = "checkpoint"

VARIABLES
  log,         \* what this job's source delivers
  altered,     \* the source has executed its ADD COLUMN
  progress,    \* job_snapshot_progress: the last chunk that is saved
  confirmed,   \* job_snapshots.done
  offset,      \* job_offsets
  table,       \* Doris: the event that decided each row
  column,      \* Doris: tables that have the added column
  narrow,      \* rows written without it although their event has it
  late,        \* loads of ended runs that may still land
  stale,       \* rows that such a load has set back
  run,         \* runs so far
  pc,          \* where the run is
  cursor,      \* the last event taken
  started,     \* startFrom: where this run's stream begins
  reached,     \* how far it had come when it failed
  reconnects,  \* streams that have started again
  again,       \* history: the newest event of a row that was delivered again
  batches,     \* state.batches: events buffered per target, in order
  pending,     \* state.pendingOffset
  bound,       \* columnBindings: tables whose bindings have the column
  draining,    \* the context is cancelled
  todo,        \* targets that the flush at work has still to send
  then,        \* what the handler does after it
  piece,       \* keys of a chunk still to be sent
  load,        \* the request at work
  resends,     \* repeated requests
  failures     \* failed saves

metaVars == <<progress, confirmed, offset>>
dorisVars == <<table, column, narrow, late, stale>>
streamVars == <<cursor, started, reached, reconnects, again>>
bufferVars == <<batches, pending, bound, draining>>
handlerVars == <<todo, then, piece>>
vars == <<log, altered, metaVars, dorisVars, run, pc, streamVars, bufferVars,
          handlerVars, load, resends, failures>>

Index == DOMAIN log

NoLoad == [target |-> CHOOSE t \in Targets : TRUE, rows |-> [k \in Keys |-> 0],
           wide |-> FALSE, run |-> 0, state |-> "none"]

LoadRecord ==
  [target : Targets, rows : [Keys -> Nat], wide : BOOLEAN, run : 0..MaxRuns,
   state : {"none", "inflight", "landed", "lost"}]

TypeOK ==
  /\ log \in Logs
  /\ altered \in BOOLEAN
  /\ progress \in 0..Len(log)
  /\ confirmed \in BOOLEAN
  /\ offset \in 0..Len(log)
  /\ table \in [Targets -> [Keys -> 0..Len(log)]]
  /\ column \subseteq Targets
  /\ narrow \subseteq Targets \X Keys
  /\ late \subseteq LoadRecord
  /\ stale \subseteq Targets \X Keys
  /\ run \in 0..MaxRuns
  /\ pc \in {"down", "ensure", "idle", "flush", "call", "commit", "chunk",
             "ddl", "confirm", "save", "end"}
  /\ {cursor, started, reached} \subseteq 0..Len(log)
  /\ reconnects \in 0..MaxReconnects
  /\ again \in [Targets -> [Keys -> 0..Len(log)]]
  /\ batches \in [Targets -> Seq(Index)]
  \* A full batch is sent at once.
  /\ \A t \in Targets : Len(batches[t]) <= BatchSize
  /\ pending \in 0..Len(log)
  /\ bound \subseteq Targets
  /\ draining \in BOOLEAN
  /\ todo \subseteq Targets
  /\ then \in {"none", "chunk", "ddl", "confirm", "save", "end"}
  /\ piece \in Seq(Keys)
  /\ load \in LoadRecord
  /\ resends \in 0..MaxResends
  /\ failures \in 0..MaxSaveFailures

-----------------------------------------------------------------------------
(* Events *)

\* The keys an event decides.  An update that changes the key decides both.
Decides(i, t) ==
  IF log[i].kind \in {"complete", "checkpoint", "add"} \/ log[i].target # t
  THEN {}
  ELSE CASE log[i].kind = "chunk" -> Range(log[i].keys)
         [] log[i].kind = "put" -> {log[i].key, log[i].old} \ {NoKey}
         [] log[i].kind = "delete" -> {log[i].key}
         [] log[i].kind = "truncate" -> Keys

\* The last of the events in S that decides a row, 0 if there is none.
LastOf(S, t, k) == Max({0} \cup {i \in S : k \in Decides(i, t)})

\* prepareBatch: one operation for each key, the last one appended.
prepareBatch(batch, t) ==
  [k \in Keys |->
     LET ops == {p \in DOMAIN batch : k \in Decides(batch[p], t)}
     IN  IF ops = {} THEN 0 ELSE batch[Max(ops)]]

AddOf(t) == {i \in Index : log[i].kind = "add" /\ log[i].target = t}

\* The image of this event has the added column.
HasColumn(i, t) == \E a \in AddOf(t) : a < i

\* Where a run resumes.
CompleteAt == CHOOSE i \in Index : log[i].kind = "complete"
Resume == IF offset > 0 THEN offset
          ELSE IF confirmed THEN CompleteAt ELSE progress

\* A job of which a number of runs are used up.
Unstarted(used) ==
  /\ log \in Logs
  /\ altered = FALSE
  /\ progress = 0
  /\ confirmed = FALSE
  /\ offset = 0
  /\ table = [t \in Targets |-> [k \in Keys |-> 0]]
  /\ column = {}
  /\ narrow = {}
  /\ late = {}
  /\ stale = {}
  /\ run = used
  /\ pc = "down"
  /\ cursor = 0
  /\ started = 0
  /\ reached = 0
  /\ reconnects = 0
  /\ again = [t \in Targets |-> [k \in Keys |-> 0]]
  /\ batches = [t \in Targets |-> <<>>]
  /\ pending = 0
  /\ bound = {}
  /\ draining = FALSE
  /\ todo = {}
  /\ then = "none"
  /\ piece = <<>>
  /\ load = NoLoad
  /\ resends = 0
  /\ failures = 0

Init == Unstarted(0)

Buffered == {t \in Targets : batches[t] # <<>>}

-----------------------------------------------------------------------------
(* Doris (external) *)

\* The rows whose event has the column that the payload of l leaves out.
Lacking(l) ==
  {k \in Keys : l.rows[k] # 0 /\ ~l.wide /\ HasColumn(l.rows[k], l.target)}

Apply(l) ==
  /\ table' = [table EXCEPT ![l.target] =
       [k \in Keys |-> IF l.rows[k] = 0 THEN @[k] ELSE l.rows[k]]]
  /\ LET written == {k \in Keys : l.rows[k] # 0}
         back == {k \in written : l.run < run /\ l.rows[k] < table[l.target][k]}
     IN  /\ narrow' = (narrow \ ({l.target} \X written))
                        \cup ({l.target} \X Lacking(l))
         /\ stale' =
              (stale \ {<<l.target, k>> : k \in {j \in written : l.run = run}})
                \cup ({l.target} \X back)

LoadLands ==
  /\ load.state = "inflight"
  /\ Apply(load)
  /\ load' = [load EXCEPT !.state = "landed"]
  /\ UNCHANGED <<log, altered, metaVars, column, late, run, pc, streamVars,
                 bufferVars, handlerVars, resends, failures>>

LateLands(l) ==
  /\ l \in late
  /\ late' = late \ {l}
  /\ Apply(l)
  /\ UNCHANGED <<log, altered, metaVars, column, run, pc, streamVars,
                 bufferVars, handlerVars, load, resends, failures>>

LateLost(l) ==
  /\ l \in late
  /\ late' = late \ {l}
  /\ UNCHANGED <<log, altered, metaVars, table, column, narrow, stale, run,
                 pc, streamVars, bufferVars, handlerVars, load, resends,
                 failures>>

\* The source executes its ALTER TABLE ... ADD COLUMN.
SourceAlters ==
  /\ ~altered
  /\ \E i \in Index : log[i].kind = "add"
  /\ altered' = TRUE
  /\ UNCHANGED <<log, metaVars, dorisVars, run, pc, streamVars, bufferVars,
                 handlerVars, load, resends, failures>>

-----------------------------------------------------------------------------
(* A run begins and ends *)

\* Memory is lost.  What Doris has been sent, and what a drain without the
\* lease goes on to send, may still arrive.
EndRun(left) ==
  /\ pc' = "down"
  /\ late' = late \cup left
  /\ cursor' = 0
  /\ started' = 0
  /\ reached' = 0
  /\ batches' = [t \in Targets |-> <<>>]
  /\ pending' = 0
  /\ bound' = {}
  /\ draining' = FALSE
  /\ todo' = {}
  /\ then' = "none"
  /\ piece' = <<>>
  /\ load' = NoLoad
  /\ resends' = 0
  /\ UNCHANGED <<reconnects, again>>

InFlight == {l \in {load} : l.state = "inflight"}

LoadOf(t, rows) ==
  [target |-> t, rows |-> rows, wide |-> t \in bound, run |-> run,
   state |-> "inflight"]

StartRun ==
  /\ pc = "down"
  /\ run < MaxRuns
  /\ run' = run + 1
  /\ pc' = "ensure"
  /\ UNCHANGED <<log, altered, metaVars, dorisVars, streamVars, bufferVars,
                 handlerVars, load, resends, failures>>

\* Tables whose column the source has by now.
SourceHas == {t \in Targets : altered /\ AddOf(t) # {}}

Missing == SourceHas \ column

\* reconcileTableSchemaOnce, which waits until Doris shows the change.
Reconciled == column \cup Missing

\* EnsureTable for each table: a column that is missing is added, and the
\* bindings are those of the source's schema of now.
EnsureTables ==
  /\ pc = "ensure"
  /\ column' = Reconciled
  /\ bound' = SourceHas
  /\ cursor' = Resume
  /\ started' = Max({Resume, CompleteAt})
  /\ pc' = "idle"
  /\ UNCHANGED <<log, altered, metaVars, table, narrow, late, stale, run,
                 reached, reconnects, again, batches, pending, draining,
                 handlerVars, load, resends, failures>>

\* A crash, a failed call, a drain that takes too long.  A drain whose worker
\* has lost the lease sends its batches while the next run is at work.
RunFails ==
  /\ pc # "down"
  /\ \E left \in {{},
                   {LoadOf(t, prepareBatch(batches[t], t)) : t \in Buffered}} :
       /\ left # {} => draining /\ pc \in {"idle", "flush"}
       /\ EndRun(left \cup InFlight)
  /\ UNCHANGED <<log, altered, metaVars, table, column, narrow, stale, run,
                 failures>>

\* Run returns after the last flush.
RunReturns ==
  /\ pc = "end"
  /\ EndRun({})
  /\ UNCHANGED <<log, altered, metaVars, table, column, narrow, stale, run,
                 failures>>

\* The retries of a load are used up.
GiveUp ==
  /\ load.state = "lost"
  /\ resends = MaxResends
  /\ EndRun({})
  /\ UNCHANGED <<log, altered, metaVars, table, column, narrow, stale, run,
                 failures>>

\* The run's context is cancelled: what the source has emitted is drained.
Cancel ==
  /\ pc = "idle"
  /\ ~draining
  /\ draining' = TRUE
  /\ UNCHANGED <<log, altered, metaVars, dorisVars, run, pc, streamVars,
                 batches, pending, bound, handlerVars, load, resends, failures>>

\* RetryWithBackoff around RunFrom: a stream that fails is opened again where
\* the run has started it, and feeds the same sink.
SourceReconnect ==
  /\ pc = "idle"
  /\ cursor > started
  /\ reconnects < MaxReconnects
  /\ reconnects' = reconnects + 1
  /\ cursor' = started
  /\ reached' = Max({reached, cursor})
  /\ UNCHANGED <<log, altered, metaVars, dorisVars, run, pc, started, again,
                 bufferVars, handlerVars, load, resends, failures>>

-----------------------------------------------------------------------------
(* Handlers: flush, then go on *)

\* flushAll over the targets in S.
Flush(S, next) ==
  /\ pc' = "flush"
  /\ todo' = S
  /\ then' = next

\* The stream had been past i, and so past the last event that i's rows have
\* had by then.
Redelivered(i) ==
  [t \in Targets |-> [k \in Keys |->
     IF i <= reached /\ k \in Decides(i, t)
     THEN Max({again[t][k], LastOf(1..reached, t, k)})
     ELSE again[t][k]]]

Take(i) ==
  /\ pc = "idle"
  /\ cursor < Len(log)
  /\ i = cursor + 1
  /\ cursor' = i
  /\ again' = Redelivered(i)
  /\ UNCHANGED <<started, reached, reconnects>>

\* The source emits the next chunk after the one before is acknowledged.
TakeChunk(i) ==
  /\ Take(i)
  /\ log[i].kind = "chunk"
  /\ piece' = log[i].keys
  /\ Flush(Buffered, "chunk")
  /\ UNCHANGED <<log, altered, metaVars, dorisVars, run, bufferVars, load,
                 resends, failures>>

TakeComplete(i) ==
  /\ Take(i)
  /\ log[i].kind = "complete"
  /\ Flush(Buffered, "confirm")
  /\ UNCHANGED <<log, altered, metaVars, dorisVars, run, bufferVars, piece,
                 load, resends, failures>>

\* rememberOffset
TakeCheckpoint(i) ==
  /\ Take(i)
  /\ log[i].kind = "checkpoint"
  /\ pending' = i
  /\ UNCHANGED <<log, altered, metaVars, dorisVars, run, pc, batches, bound,
                 draining, handlerVars, load, resends, failures>>

IsDDL(i) == log[i].kind \in {"truncate", "add"}

\* Mutant: a schema change does not flush.
FlushesNone(i) == {}

FlushedBy(i) == Buffered

TakeDDL(i) ==
  /\ Take(i)
  /\ IsDDL(i)
  /\ log[i].kind = "add" => altered
  /\ Flush(FlushedBy(i), "ddl")
  /\ UNCHANGED <<log, altered, metaVars, dorisVars, run, bufferVars, piece,
                 load, resends, failures>>

BatchFull(batch) == Len(batch) >= BatchSize

TakeRow(i) ==
  /\ Take(i)
  /\ log[i].kind \in {"put", "delete"}
  /\ HasColumn(i, log[i].target) => altered
  /\ LET t == log[i].target
     IN  /\ batches' = [batches EXCEPT ![t] = Append(@, i)]
         /\ IF BatchFull(batches'[t])
            THEN Flush({t}, "none")
            ELSE UNCHANGED <<pc, todo, then>>
  /\ UNCHANGED <<log, altered, metaVars, dorisVars, run, pending, bound,
                 draining, piece, load, resends, failures>>

\* Mutant: a tick has nothing to do while nothing is buffered.
WhenBuffered == Buffered # {}

TickFlushes == Buffered # {} \/ pending # 0

\* The ticker: flushAll, which also saves an offset when nothing is buffered.
Tick ==
  /\ pc = "idle"
  /\ ~draining
  /\ TickFlushes
  /\ Flush(Buffered, "none")
  /\ UNCHANGED <<log, altered, metaVars, dorisVars, run, streamVars, bufferVars,
                 piece, load, resends, failures>>

\* The source has returned and closed the channel.
SourceCloses ==
  /\ pc = "idle"
  /\ draining \/ cursor = Len(log)
  /\ Flush(Buffered, "end")
  /\ UNCHANGED <<log, altered, metaVars, dorisVars, run, streamVars, bufferVars,
                 piece, load, resends, failures>>

-----------------------------------------------------------------------------
(* Stream Load *)

\* sendBatchForRun for one of the targets, in any order.
SendBatch(t) ==
  /\ pc = "flush"
  /\ t \in todo
  /\ load' = LoadOf(t, prepareBatch(batches[t], t))
  /\ pc' = "call"
  /\ UNCHANGED <<log, altered, metaVars, dorisVars, run, streamVars, bufferVars,
                 handlerVars, resends, failures>>

\* A piece of a snapshot chunk, at most BatchSize rows.
SendPiece ==
  /\ pc = "chunk"
  /\ piece # <<>>
  /\ LET n == Min({BatchSize, Len(piece)})
     IN  /\ load' = LoadOf(log[cursor].target,
                      [k \in Keys |-> IF k \in Range(SubSeq(piece, 1, n))
                                      THEN cursor ELSE 0])
         /\ piece' = SubSeq(piece, n + 1, Len(piece))
  /\ pc' = "call"
  /\ UNCHANGED <<log, altered, metaVars, dorisVars, run, streamVars, bufferVars,
                 todo, then, resends, failures>>

\* waitLoadLabelDone: Doris shows the label of the load as finished.
LabelDone == load.state = "landed"

\* Success, or "label already exists" and waitLoadLabelDone finds it FINISHED.
LoadAnswered ==
  /\ pc = "call"
  /\ LabelDone
  /\ load' = NoLoad
  /\ IF todo = {}
     THEN pc' = "chunk" /\ UNCHANGED <<batches, todo>>
     ELSE /\ batches' = [batches EXCEPT ![load.target] = <<>>]
          /\ todo' = todo \ {load.target}
          /\ pc' = "flush"
  /\ UNCHANGED <<log, altered, metaVars, dorisVars, run, streamVars, pending,
                 bound, draining, then, piece, resends, failures>>

\* The request never reached Doris, or Doris has cancelled the load.
LoadLost ==
  /\ load.state = "inflight"
  /\ load' = [load EXCEPT !.state = "lost"]
  /\ UNCHANGED <<log, altered, metaVars, dorisVars, run, pc, streamVars,
                 bufferVars, handlerVars, resends, failures>>

\* Mutant: every attempt has a label of its own.
OwnLabel == {l \in {load} : l.state = "inflight"}

\* An attempt under the same label is the same load.
SameLabel == {}

\* RetryWithBackoff sends the batch again: a label that is under way or has
\* finished is waited for, any other is loaded anew.
Resend ==
  /\ pc = "call"
  /\ load.state # "landed"
  /\ resends < MaxResends
  /\ resends' = resends + 1
  /\ late' = late \cup SameLabel
  /\ load' = [load EXCEPT !.state = "inflight"]
  /\ UNCHANGED <<log, altered, metaVars, table, column, narrow, stale, run,
                 pc, streamVars, bufferVars, handlerVars, failures>>

-----------------------------------------------------------------------------
(* Offsets, schema changes, completion *)

\* Mutant: the offset is saved whatever is buffered.
AnyBuffered == TRUE

allBatchesEmpty == Buffered = {}

Continue ==
  /\ pc' = IF then = "none" THEN "idle" ELSE then
  /\ then' = "none"

\* commitPendingOffset: an error is logged and the offset is kept.
SaveOffset ==
  /\ pending # 0
  /\ allBatchesEmpty
  /\ \/ offset' = pending /\ pending' = 0 /\ UNCHANGED failures
     \/ /\ failures < MaxSaveFailures
        /\ failures' = failures + 1
        /\ offset' \in {offset, pending}
        /\ UNCHANGED pending

CommitOffset ==
  /\ \/ pc = "flush" /\ todo = {} /\ then # "chunk"
     \/ pc = "chunk" /\ piece = <<>>
  /\ \/ SaveOffset
     \/ (pending = 0 \/ ~allBatchesEmpty)
          /\ UNCHANGED <<offset, pending, failures>>
  /\ IF pc = "chunk" THEN pc' = "save" /\ UNCHANGED then ELSE Continue
  /\ UNCHANGED <<log, altered, progress, confirmed, dorisVars, run, streamVars,
                 batches, bound, draining, todo, piece, load, resends>>

\* The flush in front of a chunk, which also commits.
FlushedForChunk ==
  /\ pc = "flush"
  /\ todo = {}
  /\ then = "chunk"
  /\ Continue
  /\ UNCHANGED <<log, altered, metaVars, dorisVars, run, streamVars, bufferVars,
                 todo, piece, load, resends, failures>>

\* The chunk is acknowledged and the source saves its progress; when that
\* fails it goes back to what is saved.
SaveProgress ==
  /\ pc = "save"
  /\ \/ progress' = cursor /\ UNCHANGED <<cursor, failures>>
     \/ /\ failures < MaxSaveFailures
        /\ failures' = failures + 1
        /\ progress' \in {progress, cursor}
        /\ cursor' = progress'
  /\ pc' = "idle"
  /\ UNCHANGED <<log, altered, confirmed, offset, dorisVars, run, started,
                 reached, reconnects, again, bufferVars, handlerVars, load,
                 resends>>

\* ConfirmSnapshotCompletion
Confirm ==
  /\ pc = "confirm"
  /\ confirmed' = TRUE
  /\ pc' = "idle"
  /\ UNCHANGED <<log, altered, progress, offset, dorisVars, run, streamVars,
                 bufferVars, handlerVars, load, resends, failures>>

\* applyDDL: a table that has the column refuses to add it (external), and
\* the run fails, however often the statement is repeated.
AddColumn(t) ==
  /\ log[cursor].kind = "add"
  /\ t \notin column
  /\ column' = column \cup {t}
  /\ UNCHANGED <<table, narrow, stale>>

Truncate(t) ==
  /\ log[cursor].kind = "truncate"
  /\ table' = [table EXCEPT ![t] = [k \in Keys |-> cursor]]
  /\ narrow' = narrow \ ({t} \X Keys)
  /\ stale' = stale \ ({t} \X Keys)
  /\ UNCHANGED column

\* The statement is executed; an answer that is lost makes it run again.
applyDDL ==
  /\ pc = "ddl"
  /\ AddColumn(log[cursor].target) \/ Truncate(log[cursor].target)
  /\ \/ pc' = "idle" /\ UNCHANGED failures
     \/ /\ failures < MaxSaveFailures
        /\ failures' = failures + 1
        /\ UNCHANGED pc
  /\ UNCHANGED <<log, altered, metaVars, late, run, streamVars, bufferVars,
                 handlerVars, load, resends>>

\* What a run does by itself.
RunStep ==
  \/ EnsureTables
  \/ \E i \in Index : \/ TakeChunk(i) \/ TakeComplete(i) \/ TakeCheckpoint(i)
                      \/ TakeDDL(i) \/ TakeRow(i)
  \/ \E t \in Targets : SendBatch(t)
  \/ SendPiece \/ LoadAnswered \/ CommitOffset \/ FlushedForChunk
  \/ SaveProgress \/ Confirm \/ applyDDL \/ RunReturns \/ GiveUp

Next ==
  \/ RunStep
  \/ Tick \/ SourceCloses \/ Cancel
  \/ LoadLands \/ LoadLost \/ Resend
  \/ \E l \in late : LateLands(l) \/ LateLost(l)
  \/ SourceAlters \/ SourceReconnect \/ StartRun \/ RunFails

Spec == Init /\ [][Next]_vars

\* The run's loop and its ticker go on; a load that is sent ends, and one that
\* is lost is repeated; the source alters its table some time; a job that has
\* failed is started again.
Fairness ==
  /\ WF_vars(RunStep)
  /\ WF_vars(Tick)
  /\ WF_vars(draining /\ SourceCloses)
  /\ WF_vars(LoadLands)
  /\ WF_vars(Resend)
  /\ WF_vars(SourceAlters)
  /\ WF_vars(StartRun)

FairSpec == Spec /\ Fairness

-----------------------------------------------------------------------------
(* Properties *)

\* The stream has delivered an event of the row a second time, and the newest
\* one it had delivered before is not in Doris, or not any more.
SetBack(t, k) == table[t][k] < again[t][k]

\* Replaying the log from where the next run resumes repairs Doris: a row that
\* no later event decides is what the last event before left it.  A buffered
\* row, a batch of another table, a failed or repeated load, a cancelled run
\* that drains, a lost save never make the checkpoint run ahead of the tables.
\* Left out are rows that an unfenced load of an ended run has set back, and
\* rows that a stream that has failed and started again has set back.
CheckpointCovers ==
  \A t \in Targets, k \in Keys :
    /\ <<t, k>> \notin stale
    /\ ~SetBack(t, k)
    /\ \A i \in Index : i > Resume => k \notin Decides(i, t)
    => table[t][k] = LastOf(1..Resume, t, k)

\* What the stream has handed over of a row before its place i.  For a row
\* that a stream has set back only what it has delivered since it started.
HandedOver(i, t, k) ==
  LastOf(IF SetBack(t, k) THEN (started + 1)..i ELSE 1..i, t, k)

\* A table follows the stream: what it has handed over and is not buffered is
\* in Doris, or something newer is, and no load that is repeated brings an
\* older row back.  A stream that starts again sets rows back, and has brought
\* them forward when it is past where it had failed; in a run that ends before
\* they stay set back.  Left out are rows that an ended run's load has set back.
ReplayInOrder ==
  \A t \in Targets, k \in Keys :
    /\ pc = "idle"
    /\ batches[t] = <<>>
    /\ <<t, k>> \notin stale
    => table[t][k] >= HandedOver(cursor, t, k)

\* A schema change meets tables that have everything the stream has handed
\* over before it, also when it is delivered again.
SchemaInOrder ==
  [][\A t \in Targets :
       applyDDL /\ log[cursor].target = t =>
         \A s \in Targets, k \in Keys :
           <<s, k>> \notin stale =>
             table[s][k] >= HandedOver(cursor - 1, s, k)]_vars

\* A row whose event has the added column is written with it.
ColumnForwarded == narrow = {}

\* An ADD COLUMN that Doris refuses for good, because the sink has executed it
\* before its stream started again or its answer was lost, or because the source
\* had executed it when the run ensured the tables.
Refused ==
  pc = "ddl" /\ log[cursor].kind = "add" /\ log[cursor].target \in column

\* A job that is started again brings its checkpoint to the end of the log, for
\* good, unless an ADD COLUMN is refused: an idle run saves the last offset too,
\* a failed save is made up for, and a stream that starts again catches up.
CatchesUp ==
  <>[](Resume = Len(log) \/ Refused \/ (pc = "down" /\ run = MaxRuns))
==============================================================================
