---------------------------- MODULE IcebergCommit ----------------------------
(***************************************************************************)
(* The CDC path of one job's Iceberg sink: batching of source events, the  *)
(* durable intent around every catalog commit, recovery of commits whose   *)
(* outcome is unknown, replay receipts after a restart, and the source     *)
(* checkpoint.                                                             *)
(*                                                                         *)
(* A run is one claim of the job.  Its metadata writes pass the ownership  *)
(* fence, so only the latest run writes ckpt and status (JobLease says     *)
(* when that holds).  The catalog is not fenced: a request of an earlier   *)
(* run may be accepted at any later time.                                  *)
(*                                                                         *)
(* The sink's run loop is single threaded.  The calls a handler has still  *)
(* to make are in the sequence calls; the run may end between any two of   *)
(* them, and between the catalog request and what is done with its answer. *)
(***************************************************************************)
EXTENDS SourceLog, FiniteSetsExt, SequencesExt

CONSTANTS
  BatchSize,          \* cfg.BatchSize
  MaxRuns,            \* bound: claims of the job
  MaxOps,             \* bound: catalog operations
  MaxReconnects,      \* bound: retries of the source's stream within a run
  EvidenceExpires     \* snapshot expiration may remove commit evidence

ASSUME CommitAssumption ==
  /\ BatchSize \in Nat \ {0}
  /\ MaxRuns \in Nat
  /\ MaxOps \in Nat
  /\ MaxReconnects \in Nat
  /\ EvidenceExpires \in BOOLEAN

VARIABLES
  ckpt,           \* job_offsets: the saved checkpoint
  status,         \* iceberg_commit_intents: status per operation
  batch,          \* the changes each operation writes, in order
  nextOp,         \* the next unused operation id
  inflight,       \* requests the catalog may still accept
  landed,         \* operations the catalog has accepted
  evidence,       \* accepted operations provable from retained ancestry
  pc,             \* where the sink's run loop is
  run,            \* claims so far
  calls,          \* what the current handler has still to do
  cur,            \* the operation in guardedIcebergCommit
  cursor,         \* last entry taken from the source
  started,        \* the entry the source's stream started after
  reconnects,     \* stream failures so far
  pending,        \* per source table, the batched changes
  pendingOffset,  \* the checkpoint waiting to be saved
  cleanupOffset,  \* pendingCheckpointCleanup
  receipts,       \* recoveryEvents: replayed rows still to be skipped
  loaded,         \* recoveryIntents, recoveryLoaded
  todo,           \* intents the recovery attempt has still to check
  blocked         \* why a run ended for good: "no", "unproven" or "replay"

durableVars == <<ckpt, status>>
catalogVars == <<inflight, landed, evidence>>
opVars == <<batch, nextOp>>
streamVars ==
  <<cursor, started, reconnects, pending, pendingOffset, cleanupOffset>>
recoveryVars == <<receipts, loaded, todo>>
vars == <<durableVars, catalogVars, opVars, streamVars, recoveryVars,
          pc, run, calls, cur, blocked>>

Op == 1..MaxOps
NoOp == 0
Status == {"none", "PREPARED", "COMMITTED"}

Call ==
  [do : {"flush"}, src : Source] \cup [do : {"append"}, ev : Row]
    \cup [do : {"ddl"}, ev : Ddl] \cup [do : {"offset"}, force : BOOLEAN]
    \cup [do : {"end"}]

TypeOK ==
  /\ ckpt \in Offset
  /\ status \in [Op -> Status]
  /\ batch \in [Op -> Seq(Change)]
  /\ nextOp \in 1..(MaxOps + 1)
  /\ inflight \subseteq Op
  /\ landed \subseteq Op
  /\ evidence \subseteq landed
  /\ pc \in {"down", "recover", "stream", "call", "prove"}
  /\ run \in 0..MaxRuns
  /\ calls \in Seq(Call)
  /\ cur \in Op \cup {NoOp}
  /\ cursor \in Entry \cup {0}
  /\ started \in Entry \cup {0}
  /\ reconnects \in 0..MaxReconnects
  /\ pending \in [Source -> Seq(Row)]
  /\ pendingOffset \in Offset
  /\ cleanupOffset \in Offset
  /\ receipts \in [Entry -> Nat]
  /\ loaded \subseteq Op
  /\ todo \subseteq Op
  /\ blocked \in {"no", "unproven", "replay"}

-----------------------------------------------------------------------------
(* Intents *)

Intents == {o \in Op : status[o] # "none"}

\* A schema change is committed under an intent of its own, which carries no
\* replay identities: its source event is simply applied again.
IsMetadata(o) == Range(batch[o]) \cap Ddl # {}

\* The intent's range runs from its first event's offset to its last one's.
SourceStart(o) == Off(Head(batch[o]))
SourceEnd(o) == Off(Last(batch[o]))

\* Mutant: an intent counts as covered once its first event is.
CoveredAtStart(o, c) == SourceStart(o) <= c

Covered(o, c) == SourceEnd(o) <= c

\* Replay identities are usable if they all lie in the intent's range.
ReceiptValid(o) ==
  IsMetadata(o) \/ \A e \in Range(batch[o]) :
                     SourceStart(o) <= Off(e) /\ Off(e) <= SourceEnd(o)

Applied == UNION {Range(batch[o]) : o \in landed}

Init ==
  /\ ckpt = NoOffset
  /\ status = [o \in Op |-> "none"]
  /\ batch = [o \in Op |-> <<>>]
  /\ nextOp = 1
  /\ inflight = {}
  /\ landed = {}
  /\ evidence = {}
  /\ pc = "down"
  /\ run = 0
  /\ calls = <<>>
  /\ cur = NoOp
  /\ cursor = 0
  /\ started = 0
  /\ reconnects = 0
  /\ pending = [s \in Source |-> <<>>]
  /\ pendingOffset = NoOffset
  /\ cleanupOffset = NoOffset
  /\ receipts = [e \in Entry |-> 0]
  /\ loaded = {}
  /\ todo = {}
  /\ blocked = "no"

\* The run is over: everything the process kept in memory is gone.
EndRun ==
  /\ pc' = "down"
  /\ calls' = <<>>
  /\ cur' = NoOp
  /\ cursor' = 0
  /\ started' = 0
  /\ pending' = [s \in Source |-> <<>>]
  /\ pendingOffset' = NoOffset
  /\ cleanupOffset' = NoOffset
  /\ receipts' = [e \in Entry |-> 0]
  /\ loaded' = {}
  /\ todo' = {}
  /\ UNCHANGED <<run, reconnects>>

-----------------------------------------------------------------------------
(* Start of a run and recovery of the intents an earlier run left *)

\* A worker claims the job; the source resumes after the saved checkpoint and
\* the sink reconciles before it takes an event.
StartRun ==
  /\ pc = "down"
  /\ run < MaxRuns
  /\ run' = run + 1
  /\ pc' = "recover"
  /\ cursor' = Cardinality(Prefix(ckpt))
  /\ started' = Cardinality(Prefix(ckpt))
  /\ todo' = Intents
  /\ blocked' = "no"
  /\ UNCHANGED <<durableVars, catalogVars, opVars, calls, cur, reconnects,
                 pending, pendingOffset, cleanupOffset, receipts, loaded>>

\* Only evidence in the retained main ancestry proves a commit.  Absence may
\* mean that the request is in flight or that history has expired.
Proven(o) == o \in evidence

\* Mutant: rows that the checkpoint covers are waited for as well.
ReplayedFromStart(e) == e \in Row

\* The rows that the source is going to deliver again.
Replayed(e) == e \in Row /\ Off(e) > ckpt

\* How often the intent's manifest has e as a row to be skipped.
ReplayCount(o, e) ==
  Cardinality({i \in DOMAIN batch[o] : batch[o][i] = e /\ Replayed(e)})

\* Nothing is retained for what the checkpoint covers, and nothing twice.
RetainReceipt(o) ==
  IF Covered(o, ckpt) \/ o \in loaded THEN UNCHANGED <<receipts, loaded>>
  ELSE /\ receipts' = [e \in Entry |-> receipts[e] + ReplayCount(o, e)]
       /\ loaded' = loaded \cup {o}

\* Intents are listed by their second of creation; within one the order is any.
NextIntent(o) == pc = "recover" /\ o \in todo

RecoverCovered(o) ==
  /\ NextIntent(o)
  /\ status[o] = "COMMITTED"
  /\ Covered(o, ckpt)
  /\ status' = [status EXCEPT ![o] = "none"]
  /\ todo' = todo \ {o}
  /\ UNCHANGED <<ckpt, catalogVars, opVars, streamVars, receipts, loaded,
                 pc, run, calls, cur, blocked>>

NeedsProof(o) == ~(status[o] = "COMMITTED" /\ Covered(o, ckpt))

\* Recovery may rely on the intent: it is proven, and what it says of the
\* rows to be skipped is usable.
Recoverable(o) == Proven(o) /\ (Covered(o, ckpt) \/ ReceiptValid(o))

\* Mutant: the proven intent is not marked.
ResolvedUnmarked(o) ==
  IF IsMetadata(o) \/ Covered(o, ckpt) THEN "none" ELSE status[o]

\* A schema change is repeated by the replay, and needs no intent any more.
Resolved(o) ==
  IF IsMetadata(o) \/ Covered(o, ckpt) THEN "none" ELSE "COMMITTED"

RecoverProven(o) ==
  /\ NextIntent(o)
  /\ NeedsProof(o)
  /\ Recoverable(o)
  /\ RetainReceipt(o)
  /\ status' = [status EXCEPT ![o] = Resolved(o)]
  /\ todo' = todo \ {o}
  /\ UNCHANGED <<ckpt, catalogVars, opVars, streamVars, pc, run, calls, cur,
                 blocked>>

\* A metadata write of the recovery fails or loses its answer: the next
\* attempt lists the intents again and keeps what it has retained.
RecoverWriteFails(o) ==
  /\ NextIntent(o)
  /\ NeedsProof(o) => Recoverable(o)
  /\ RetainReceipt(o)
  /\ \E s \in {status[o], "COMMITTED", Resolved(o)} :
       status' = [status EXCEPT ![o] = s]
  /\ todo' = Intents'
  /\ UNCHANGED <<ckpt, catalogVars, opVars, streamVars, pc, run, calls, cur,
                 blocked>>

\* The evidence is not found, or the catalog cannot be read: another attempt
\* of the bounded recovery loop.
RecoverRetry(o) ==
  /\ NextIntent(o)
  /\ NeedsProof(o)
  /\ todo' = Intents
  /\ UNCHANGED <<durableVars, catalogVars, opVars, streamVars, receipts,
                 loaded, pc, run, calls, cur, blocked>>

\* Attempts are exhausted: the run ends, the intent and the checkpoint stay.
RecoverBlocked(o) ==
  /\ NextIntent(o)
  /\ NeedsProof(o)
  /\ ~Recoverable(o)
  /\ EndRun
  /\ blocked' = "unproven"
  /\ UNCHANGED <<durableVars, catalogVars, opVars>>

RecoverDone ==
  /\ pc = "recover"
  /\ todo = {}
  /\ pc' = "stream"
  /\ UNCHANGED <<durableVars, catalogVars, opVars, streamVars, recoveryVars,
                 run, calls, cur, blocked>>

-----------------------------------------------------------------------------
(* The catalog *)

CatalogAccepts(o) ==
  /\ o \in inflight
  /\ inflight' = inflight \ {o}
  /\ landed' = landed \cup {o}
  /\ evidence' = evidence \cup {o}
  /\ UNCHANGED <<durableVars, opVars, streamVars, recoveryVars, pc, run,
                 calls, cur, blocked>>

\* The request is lost, or the process stopped before sending it.
CatalogLoses(o) ==
  /\ o \in inflight
  /\ inflight' = inflight \ {o}
  /\ UNCHANGED <<durableVars, landed, evidence, opVars, streamVars,
                 recoveryVars, pc, run, calls, cur, blocked>>

\* Snapshot history is expired.  The marker of a schema change is a table
\* property and stays.
EvidenceExpired(o) ==
  /\ EvidenceExpires
  /\ o \in evidence
  /\ ~IsMetadata(o)
  /\ evidence' = evidence \ {o}
  /\ UNCHANGED <<durableVars, inflight, landed, opVars, streamVars,
                 recoveryVars, pc, run, calls, cur, blocked>>

-----------------------------------------------------------------------------
(* The run loop: events and ticks *)

Idle == pc = "stream" /\ calls = <<>>

FlushCall(s) == [do |-> "flush", src |-> s]
OffsetCall(force) == [do |-> "offset", force |-> force]

PendingSources == {s \in Source : pending[s] # <<>>}
\* Mutant: the checkpoint does not wait for batched changes.
NeverPending == FALSE

HasPending == PendingSources # {}

\* The flushes of the tables in a sequence, and the sequence of the tables in
\* the order of their keys (the only one, in a set of its own).
FlushCalls(order) == [i \in DOMAIN order |-> FlushCall(order[i])]
ByKey(S) ==
  {order \in SetToSeqs(S) :
     \A i, j \in DOMAIN order : i < j => order[i] < order[j]}

\* Mutant: batches of other tables with the same target are not flushed.
NoPriorSources(s) == {}

\* Other source tables of the same Iceberg table with batched changes.  There
\* is at most one, the table of the last change.
PriorSources(s) ==
  {t \in PendingSources \ {s} : TargetOf[t] = TargetOf[s]}

\* Mutant: off by one.
SkipsAtZero(e) == receipts[e] >= 0

SkipsRecovered(e) == receipts[e] > 0

\* handleEvent on a checkpoint.
TakeCheckpoint(e) ==
  /\ e \in Checkpoint
  /\ pendingOffset' = Off(e)
  /\ calls' = <<OffsetCall(FALSE)>>
  /\ UNCHANGED <<pending, receipts>>

\* handleEvent on a row that an earlier run has already written.
TakeRecovered(e) ==
  /\ e \in Row
  /\ SkipsRecovered(e)
  /\ receipts' = [receipts EXCEPT ![e] = @ - 1]
  /\ UNCHANGED <<pending, pendingOffset, calls>>

\* handleEvent on any other change.
TakeChange(e) ==
  /\ e \in Change
  /\ ~(e \in Row /\ SkipsRecovered(e))
  /\ \E order \in ByKey(PriorSources(Log[e].src)) :
       calls' = FlushCalls(order) \o
                  IF e \in Ddl
                  THEN <<FlushCall(Log[e].src), [do |-> "ddl", ev |-> e]>>
                  ELSE <<[do |-> "append", ev |-> e]>>
  /\ UNCHANGED <<pending, pendingOffset, receipts>>

TakeEvent ==
  /\ Idle
  /\ cursor < Len(Log)
  /\ cursor' = cursor + 1
  /\ \/ TakeCheckpoint(cursor + 1)
     \/ TakeRecovered(cursor + 1)
     \/ TakeChange(cursor + 1)
  /\ UNCHANGED <<durableVars, catalogVars, opVars, started, reconnects,
                 cleanupOffset, loaded, todo, pc, run, cur, blocked>>

\* A waiting checkpoint makes one barrier of all the batches as soon as one
\* of them is due.
DueSources(due) ==
  IF pendingOffset # NoOffset /\ due # {} THEN PendingSources ELSE due

\* flushDue.  Which batches are due is the clock's choice.
Tick(due) ==
  /\ Idle
  /\ due \subseteq PendingSources
  /\ due # {} \/ pendingOffset # NoOffset \/ cleanupOffset # NoOffset
  /\ \E order \in ByKey(DueSources(due)) :
       calls' = FlushCalls(order) \o <<OffsetCall(FALSE)>>
  /\ UNCHANGED <<durableVars, catalogVars, opVars, streamVars, recoveryVars,
                 pc, run, cur, blocked>>

\* The source stops, for a pause: the closed channel makes the sink drain its
\* tables, in any order.
SourceEnds ==
  /\ Idle
  /\ \E order \in SetToSeqs(PendingSources) :
       calls' = FlushCalls(order) \o <<OffsetCall(TRUE), [do |-> "end"]>>
  /\ UNCHANGED <<durableVars, catalogVars, opVars, streamVars, recoveryVars,
                 pc, run, cur, blocked>>

\* The stream failed: the source's retry loop opens it again where this run
\* started, and the sink goes on with the same memory.
SourceReconnect ==
  /\ Idle
  /\ reconnects < MaxReconnects
  /\ cursor # started
  /\ cursor' = started
  /\ reconnects' = reconnects + 1
  /\ UNCHANGED <<durableVars, catalogVars, opVars, started, pending,
                 pendingOffset, cleanupOffset, recoveryVars, pc, run, calls,
                 cur, blocked>>

\* The process dies, the job is stopped, the lease is lost, or a call fails
\* for good.  A request in flight stays in flight.
RunFails ==
  /\ pc # "down"
  /\ EndRun
  /\ UNCHANGED <<durableVars, catalogVars, opVars, blocked>>

-----------------------------------------------------------------------------
(* The calls of a handler *)

HeadCall == Head(calls)
Calls(do) == pc = "stream" /\ calls # <<>> /\ HeadCall.do = do

\* The batch is flushed when it is full or its bytes reach the limit.
BatchMustFlush(events) == Len(events) >= BatchSize

AppendEvent ==
  /\ Calls("append")
  /\ LET e == HeadCall.ev
         s == Log[e].src
         events == Append(pending[s], e)
     IN  /\ pending' = [pending EXCEPT ![s] = events]
         /\ \/ calls' = <<FlushCall(s)>> \o Tail(calls)
            \/ ~BatchMustFlush(events) /\ calls' = Tail(calls)
  /\ UNCHANGED <<durableVars, catalogVars, opVars, cursor, started, reconnects,
                 pendingOffset, cleanupOffset, recoveryVars, pc, run, cur,
                 blocked>>

\* What the call at the head commits: the pending batch of its table, or a
\* schema change that the table does not have yet.
CallBatch ==
  CASE Calls("flush") -> pending[HeadCall.src]
    [] Calls("ddl") /\ HeadCall.ev \notin Applied -> <<HeadCall.ev>>
    [] OTHER -> <<>>

\* An empty batch, or a schema change that is already there.
NothingToCommit ==
  /\ Calls("flush") \/ Calls("ddl")
  /\ CallBatch = <<>>
  /\ calls' = Tail(calls)
  /\ UNCHANGED <<durableVars, catalogVars, opVars, streamVars, recoveryVars,
                 pc, run, cur, blocked>>

\* The intent is durable before the catalog is called.
BeginCommit ==
  /\ CallBatch # <<>>
  /\ nextOp \in Op
  /\ batch' = [batch EXCEPT ![nextOp] = CallBatch]
  /\ status' = [status EXCEPT ![nextOp] = "PREPARED"]
  /\ inflight' = inflight \cup {nextOp}
  /\ cur' = nextOp
  /\ nextOp' = nextOp + 1
  /\ pc' = "call"
  /\ UNCHANGED <<ckpt, landed, evidence, streamVars, recoveryVars, run, calls,
                 blocked>>

\* Persisting the intent fails, or its answer is lost: the run ends and the
\* catalog is never called.
BeginFails ==
  /\ CallBatch # <<>>
  /\ nextOp \in Op
  /\ batch' = [batch EXCEPT ![nextOp] = CallBatch]
  /\ \E s \in {"none", "PREPARED"} : status' = [status EXCEPT ![nextOp] = s]
  /\ nextOp' = nextOp + 1
  /\ EndRun
  /\ UNCHANGED <<ckpt, catalogVars, blocked>>

\* The head call's commit is confirmed.
FinishCommit ==
  /\ pc' = "stream"
  /\ cur' = NoOp
  /\ IF HeadCall.do = "flush"
     THEN /\ pending' = [pending EXCEPT ![HeadCall.src] = <<>>]
          /\ calls' = <<OffsetCall(TRUE)>> \o Tail(calls)
     ELSE /\ calls' = Tail(calls)
          /\ UNCHANGED pending
  /\ UNCHANGED <<cursor, started, reconnects, pendingOffset, cleanupOffset>>

\* The catalog reports success and the intent is marked.
CommitSucceeds ==
  /\ pc = "call"
  /\ cur \in landed
  /\ status' = [status EXCEPT ![cur] = "COMMITTED"]
  /\ FinishCommit
  /\ UNCHANGED <<ckpt, catalogVars, opVars, recoveryVars, run, blocked>>

\* The catalog reports success, but marking the intent fails or its answer is
\* lost.
MarkFails ==
  /\ pc = "call"
  /\ cur \in landed
  /\ \E s \in {"PREPARED", "COMMITTED"} : status' = [status EXCEPT ![cur] = s]
  /\ pc' = "prove"
  /\ UNCHANGED <<ckpt, catalogVars, opVars, streamVars, recoveryVars, run,
                 calls, cur, blocked>>

\* Mutant: every error of a commit is taken for a rejection.
RejectedOnAnyError(o) == TRUE

\* Preparation failed before the request, or the catalog rejected it as a
\* conflict: the commit has not happened and never will.
Rejected(o) == o \notin landed

\* The intent is deleted and the flush is tried again under a new operation.
CommitRejected ==
  /\ pc = "call"
  /\ Rejected(cur)
  /\ inflight' = inflight \ {cur}
  /\ status' = [status EXCEPT ![cur] = "none"]
  /\ pc' = "stream"
  /\ cur' = NoOp
  /\ UNCHANGED <<ckpt, landed, evidence, opVars, streamVars, recoveryVars,
                 run, calls, blocked>>

\* Deleting the intent of a rejected commit fails: the run ends.
RejectedDeleteFails ==
  /\ pc = "call"
  /\ Rejected(cur)
  /\ inflight' = inflight \ {cur}
  /\ \E s \in {"PREPARED", "none"} : status' = [status EXCEPT ![cur] = s]
  /\ EndRun
  /\ UNCHANGED <<ckpt, landed, evidence, opVars, blocked>>

\* Any other error: the outcome is unknown and the intent stays PREPARED.
CommitUnknown ==
  /\ pc = "call"
  /\ pc' = "prove"
  /\ UNCHANGED <<durableVars, catalogVars, opVars, streamVars, recoveryVars,
                 run, calls, cur, blocked>>

\* recoverUnknownCommit finds the evidence and the flush goes on.
CommitProven ==
  /\ pc = "prove"
  /\ Proven(cur)
  /\ ReceiptValid(cur)
  /\ status' = [status EXCEPT ![cur] = "COMMITTED"]
  /\ FinishCommit
  /\ UNCHANGED <<ckpt, catalogVars, opVars, recoveryVars, run, blocked>>

\* Its attempts are exhausted, or its replay identities are not usable.
CommitUnproven ==
  /\ pc = "prove"
  /\ ~(Proven(cur) /\ ReceiptValid(cur))
  /\ EndRun
  /\ blocked' = "unproven"
  /\ UNCHANGED <<durableVars, catalogVars, opVars>>

-----------------------------------------------------------------------------
(* commitPendingOffset *)

\* A checkpoint is saved at the end of every flush; otherwise when its
\* interval has passed, which is the clock's choice.
OffsetWaits ==
  pendingOffset = NoOffset \/ HasPending \/ ~HeadCall.force

\* Every replayed row of a recovered intent up to this offset was skipped.
ReplayComplete(c) ==
  \A o \in loaded :
    ~IsMetadata(o) /\ Covered(o, c) =>
      \A e \in Range(batch[o]) : receipts[e] = 0

\* Confirmed intents that checkpoint c covers, and that may be deleted.
Cleanable(c) == {o \in Intents : status[o] = "COMMITTED" /\ Covered(o, c)}

\* Intents that checkpoint c covers are deleted, those of the checkpoint
\* before it first.  Deletion may fail half way and is then tried again later.
CleanUp(c) ==
  \E done \in SUBSET (Cleanable(cleanupOffset) \cup Cleanable(c)) :
    /\ status' = [o \in Op |-> IF o \in done THEN "none" ELSE status[o]]
    /\ \/ cleanupOffset' = c
       \/ Cleanable(c) \subseteq done /\ cleanupOffset' = NoOffset

OffsetNotSaved ==
  /\ Calls("offset")
  /\ OffsetWaits
  /\ CleanUp(cleanupOffset)
  /\ calls' = Tail(calls)
  /\ UNCHANGED <<ckpt, catalogVars, opVars, cursor, started, reconnects,
                 pending, pendingOffset, recoveryVars, pc, run, cur, blocked>>

\* Mutant: only a flush saves the checkpoint.
MaySaveOffsetForced ==
  /\ Calls("offset")
  /\ HeadCall.force
  /\ pendingOffset # NoOffset
  /\ ~HasPending

MaySaveOffset ==
  /\ Calls("offset")
  /\ pendingOffset # NoOffset
  /\ ~HasPending

OffsetSaved ==
  /\ MaySaveOffset
  /\ ReplayComplete(pendingOffset)
  /\ ckpt' = pendingOffset
  /\ CleanUp(pendingOffset)
  /\ pendingOffset' = NoOffset
  /\ calls' = Tail(calls)
  /\ UNCHANGED <<catalogVars, opVars, cursor, started, reconnects, pending,
                 recoveryVars, pc, run, cur, blocked>>

\* The save fails or loses its answer; a later call tries again.
OffsetSaveFails ==
  /\ MaySaveOffset
  /\ ReplayComplete(pendingOffset)
  /\ ckpt' \in {ckpt, pendingOffset}
  /\ CleanUp(cleanupOffset)
  /\ calls' = Tail(calls)
  /\ UNCHANGED <<catalogVars, opVars, cursor, started, reconnects, pending,
                 pendingOffset, recoveryVars, pc, run, cur, blocked>>

OffsetBlocked ==
  /\ MaySaveOffset
  /\ ~ReplayComplete(pendingOffset)
  /\ EndRun
  /\ blocked' = "replay"
  /\ UNCHANGED <<durableVars, catalogVars, opVars>>

DrainEnds ==
  /\ Calls("end")
  /\ EndRun
  /\ UNCHANGED <<durableVars, catalogVars, opVars, blocked>>

-----------------------------------------------------------------------------

RecoverStep ==
  \/ \E o \in Op : \/ RecoverCovered(o) \/ RecoverProven(o)
                   \/ RecoverWriteFails(o) \/ RecoverRetry(o)
                   \/ RecoverBlocked(o)
  \/ RecoverDone

CatalogStep ==
  \E o \in Op : CatalogAccepts(o) \/ CatalogLoses(o) \/ EvidenceExpired(o)

LoopStep ==
  \/ TakeEvent
  \/ \E due \in SUBSET Source : Tick(due)
  \/ SourceEnds
  \/ SourceReconnect

CommitStep ==
  \/ AppendEvent \/ NothingToCommit \/ BeginCommit \/ BeginFails
  \/ CommitSucceeds \/ MarkFails \/ CommitRejected \/ RejectedDeleteFails
  \/ CommitUnknown \/ CommitProven \/ CommitUnproven

OffsetStep ==
  OffsetNotSaved \/ OffsetSaved \/ OffsetSaveFails \/ OffsetBlocked

Next ==
  \/ StartRun \/ RecoverStep \/ CatalogStep \/ LoopStep \/ CommitStep
  \/ OffsetStep \/ DrainEnds \/ RunFails

Spec == Init /\ [][Next]_vars

\* Recovery makes a bounded number of attempts.
RecoveryEnds ==
  /\ WF_vars(\/ RecoverDone
             \/ \E o \in Op : RecoverCovered(o) \/ RecoverProven(o)
                                \/ RecoverBlocked(o))
  /\ <>[][\A o \in Op : ~RecoverRetry(o) /\ ~RecoverWriteFails(o)]_vars

\* The run loop serves both its channels, every batch becomes due, and a call
\* in progress returns.  A checkpoint that cannot be saved is tried again and
\* in the end is saved.  Of the catalog it is assumed that it does not keep a
\* request for ever; nothing is assumed of crashes and of lost answers.
Fairness ==
  /\ RecoveryEnds
  /\ SF_vars(TakeEvent)
  /\ SF_vars(Tick(PendingSources))
  /\ WF_vars(AppendEvent \/ NothingToCommit \/ BeginCommit)
  /\ WF_vars(CommitSucceeds \/ CommitRejected)
  /\ WF_vars(CommitProven \/ CommitUnproven)
  /\ WF_vars(OffsetNotSaved \/ DrainEnds)
  /\ SF_vars(OffsetSaved \/ OffsetBlocked)
  /\ \A o \in Op : WF_vars(CatalogAccepts(o))

FairSpec == Spec /\ Fairness

-----------------------------------------------------------------------------
(* Correctness *)

\* No row is written by two catalog operations: neither a retry after a lost
\* answer, nor the replay after a restart, nor a request of an earlier run
\* that is accepted late repeats a commit (guardedIcebergCommit,
\* checkIcebergRecovery, skipRecoveredCDCEvent).
AppliedOnce ==
  \A o, p \in landed :
    o # p => Range(batch[o]) \cap Range(batch[p]) \cap Row = {}

\* Everything the saved checkpoint covers is in its Iceberg table: a restart
\* leaves nothing out (commitPendingOffset).
CheckpointCovers == Prefix(ckpt) \cap Change \subseteq Applied

\* What is, or may still be, written beyond the checkpoint has a durable
\* intent, so that the next run can tell what not to write again
\* (cleanupCheckpointedIcebergCommits, guardedIcebergCommit).
WritesHaveIntents ==
  \A o \in landed \cup inflight :
    ~IsMetadata(o) /\ SourceEnd(o) > ckpt => o \in Intents

\* While one outcome is open nothing else is sent to the catalog: an
\* unresolved intent is the last operation of its run, and the next run does
\* not stream before it is proven (Run, checkIcebergRecovery).
OneOpenOutcome ==
  pc \in {"stream", "call", "prove"} =>
    \A o \in Intents : status[o] = "PREPARED" => o = cur

\* The check of replayed identities before a checkpoint save never stops a
\* job whose source delivers its binlog faithfully
\* (checkRecoveryReplayComplete).
ReplayNeverBlocks == blocked # "replay"

\* A run that stays up gets everything written and the checkpoint to the end
\* of the log, whichever batches hold it back and whichever answers and
\* metadata calls are lost on the way (flushDue, commitPendingOffset,
\* recoverUnknownCommit).
OutOfOps == CallBatch # <<>> /\ nextOp > MaxOps
StaysUp == pc # "down" /\ ~OutOfOps
CatchesUp == <>[]StaysUp => <>(ckpt = Max(Offset))

\* The sink implements the contract it has with the tables: exactly once, in
\* the order of each table, checkpoint forward and only over written changes.
C == INSTANCE ReplicationContract WITH written <- Applied, saved <- ckpt
Contract == C!Contract
==============================================================================
