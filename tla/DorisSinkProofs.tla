-------------------------- MODULE DorisSinkProofs --------------------------
(***************************************************************************)
(* Proofs about DorisSink: for any logs, tables, keys, batch size, number  *)
(* of runs, streams that start again, repeated requests and failed saves.  *)
(***************************************************************************)
EXTENDS DorisSink, TLAPS, FiniteSetTheorems, SequenceTheorems,
        NaturalsInduction, WellFoundedInduction

\* What a handler is about: the flush in front of it and the handler itself.
Flushing(next) == pc \in {"flush", "call"} /\ then = next
Piecing == pc = "chunk" \/ (pc = "call" /\ todo = {})
Chunking == Flushing("chunk") \/ Piecing
Altering == Flushing("ddl") \/ pc = "ddl"
Confirming == Flushing("confirm") \/ pc = "confirm"

\* The events the stream has done or buffered: a chunk and a schema change only
\* count when they have reached Doris.
InHand == Chunking \/ Altering
Done == IF InHand THEN cursor - 1 ELSE cursor
Running == pc \notin {"down", "ensure"}

\* The run has been handed this event, by this stream or by one that has failed.
Passed(i) == i <= Done \/ i <= reached

\* The last event of a row that is buffered, or else the one in Doris.
Waiting(t, k) == prepareBatch(batches[t], t)[k]
Held(t, k) == IF Waiting(t, k) # 0 THEN Waiting(t, k) ELSE table[t][k]

\* Doris has of this row what the run writes.
Known(t, k) == <<t, k>> \notin stale \/ Waiting(t, k) # 0

\* The event at the cursor is the one that the handler is about.
PlaceOK ==
  /\ then # "save"
  /\ pc \notin {"flush", "call"} \/ Piecing => then = "none"
  /\ Altering => cursor \in Index /\ IsDDL(cursor)
  /\ Chunking \/ pc = "save" => cursor \in Index /\ log[cursor].kind = "chunk"
  /\ Confirming => cursor = CompleteAt

\* Nothing is buffered behind a flush of all tables, nor when no run is on.
BufferedOK ==
  /\ ~Running => Buffered = {} /\ pending = 0
  /\ pc \in {"chunk", "ddl", "confirm", "save"} => todo = {} /\ Buffered = {}
  /\ Piecing => Buffered = {}
  /\ Flushing("chunk") \/ Flushing("ddl") \/ Flushing("confirm") =>
       Buffered \subseteq todo

\* A full batch is about to be sent.
SizeOK ==
  \A t \in Targets :
    Len(batches[t]) >= BatchSize =>
      /\ Len(batches[t]) = BatchSize
      /\ pc \in {"flush", "call"} /\ t \in todo

\* A stream begins behind the snapshot, and only one that has got somewhere is
\* started again.
StreamOK ==
  /\ ~Running => started = 0 /\ reached = 0
  /\ Running => started >= CompleteAt
  /\ reached # 0 => cursor >= started

\* The checkpoint is one that the run has passed.
OffsetsOK ==
  /\ Running => Passed(Resume)
  /\ pending # 0 => Passed(pending) /\ log[pending].kind = "checkpoint"
  /\ offset # 0 => log[offset].kind = "checkpoint"

\* A row of Doris and of a load is an event that decides it.
CellsOK ==
  \A t \in Targets, k \in Keys :
    table[t][k] # 0 => table[t][k] \in Index /\ k \in Decides(table[t][k], t)
LoadCells(l) ==
  \A k \in Keys :
    l.rows[k] # 0 => l.rows[k] \in Index /\ k \in Decides(l.rows[k], l.target)

\* A load that an ended run has left behind is of an earlier run, or there is
\* no run yet and it leaves no row behind the checkpoint, other than those that
\* a stream has set back.
LateOK ==
  \A l \in late :
    /\ LoadCells(l)
    /\ l.run <= run
    /\ l.run = run => pc = "down"
    /\ l.run = run =>
         \A k \in Keys : l.rows[k] # 0 =>
           \A i \in 1..Resume :
             k \in Decides(i, l.target) => i <= l.rows[k] \/ i <= again[l.target][k]

\* The load at work is the batch of its table, or a piece of the chunk; once
\* it has landed its rows are there.
LoadOK ==
  /\ pc = "call" <=> load.state # "none"
  /\ pc = "call" => load.run = run
  /\ pc = "call" /\ todo # {} =>
       /\ load.target \in todo
       /\ load.rows = prepareBatch(batches[load.target], load.target)
  /\ pc = "call" /\ todo = {} =>
       /\ load.target = log[cursor].target
       /\ \A k \in Keys : load.rows[k] # 0 =>
            load.rows[k] = cursor /\ k \in Range(log[cursor].keys)
  /\ load.state = "landed" =>
       \A k \in Keys :
         load.rows[k] # 0 /\ <<load.target, k>> \notin stale =>
           table[load.target][k] >= load.rows[k]

\* A key of the chunk is still to be sent, under way, or there; all of them
\* are while the batches in front of it are sent.
PieceOK ==
  Chunking =>
    /\ then = "chunk" => piece = log[cursor].keys
    /\ Range(piece) \subseteq Range(log[cursor].keys)
    /\ \A k \in Range(log[cursor].keys) :
         \/ k \in Range(piece)
         \/ pc = "call" /\ todo = {} /\ load.rows[k] = cursor
         \/ <<log[cursor].target, k>> \in stale
         \/ table[log[cursor].target][k] >= cursor

\* A schema change that is delivered again has marked its rows.
AlterOK ==
  Altering /\ cursor <= reached =>
    \A t \in Targets, k \in Keys : k \in Decides(cursor, t) =>
      \A i \in 1..reached : k \in Decides(i, t) => i <= again[t][k]

\* Doris has, or is about to have, what the stream has done since it started.
StreamedOK ==
  Running =>
    \A t \in Targets, k \in Keys : Known(t, k) =>
      \A i \in Index :
        started < i /\ i <= Done /\ k \in Decides(i, t) => i <= Held(t, k)

\* It has all the run has been handed, but for rows that have been delivered
\* again.
PassedOK ==
  Running =>
    \A t \in Targets, k \in Keys : Known(t, k) =>
      \A i \in Index :
        Passed(i) /\ k \in Decides(i, t) => i <= Held(t, k) \/ i <= again[t][k]

\* Doris always has what lies before the checkpoint, but for these rows.
CoverOK ==
  \A t \in Targets, k \in Keys :
    <<t, k>> \notin stale =>
      \A i \in 1..Resume :
        k \in Decides(i, t) => i <= table[t][k] \/ i <= again[t][k]

DorisInv ==
  /\ TypeOK /\ PlaceOK /\ BufferedOK /\ SizeOK /\ StreamOK /\ OffsetsOK
  /\ CellsOK /\ LateOK /\ LoadOK /\ PieceOK
  /\ AlterOK /\ StreamedOK /\ PassedOK /\ CoverOK

-----------------------------------------------------------------------------
(* Events and the last of them *)

(* A set of natural numbers with an upper bound has a maximum.             *)
LEMMA MaxExists ==
  ASSUME NEW S \in SUBSET Nat, S # {}, NEW n \in Nat, \A i \in S : i <= n
  PROVE  Max(S) \in S /\ \A i \in S : i <= Max(S)
<1> DEFINE R == OpToRel(<, Nat)
           T == {n - i : i \in S}
<1>1. IsWellFoundedOn(R, Nat)
  BY NatLessThanWellFounded
<1>2. T \subseteq Nat /\ T # {}
  <2>1. \A i \in S : n - i \in Nat
    OBVIOUS
  <2> QED
    BY <2>1
<1>3. \A x, y \in T : <<y, x>> \notin R => x <= y
  BY <1>2 DEF OpToRel
<1> HIDE DEF R
<1>4. PICK x \in T : \A y \in T : ~(<<y, x>> \in R)
  BY <1>1, <1>2, WFMin
<1>5. \A y \in T : x <= y
  BY <1>3, <1>4
<1>6. PICK m \in S : x = n - m
  BY <1>4
<1>7. \A i \in S : m >= i
  <2> SUFFICES ASSUME NEW i \in S
               PROVE  m >= i
    OBVIOUS
  <2>1. n - i \in T
    OBVIOUS
  <2>2. n - m <= n - i
    BY <1>5, <1>6, <2>1
  <2> QED
    BY <2>2
<1> QED
  BY <1>7 DEF Max

(* What a log is.                                                          *)
LEMMA LogFacts ==
  ASSUME log \in Logs
  PROVE  /\ Len(log) \in Nat /\ Index = 1..Len(log)
         /\ \A i \in Index : log[i] \in Event
         /\ CompleteAt \in Index
         /\ \A i \in Index : log[i].kind = "complete" <=> i = CompleteAt
         /\ \A i \in Index : i < CompleteAt <=> log[i].kind = "chunk"
<1>1. log \in Seq(Event)
  BY DorisAssumption
<1>2. Len(log) \in Nat /\ Index = 1..Len(log) /\ \A i \in Index : log[i] \in Event
  BY <1>1 DEF Index
<1>3. PICK c \in Index :
        /\ \A i \in Index : log[i].kind = "complete" <=> i = c
        /\ \A i \in Index : (log[i].kind = "chunk") => i < c
        /\ \A i \in 1..(c - 1) : log[i].kind = "chunk"
  BY DorisAssumption DEF Index
<1>4. CompleteAt = c
  BY <1>3 DEF CompleteAt
<1> QED
  BY <1>2, <1>3, <1>4

(* The log of a job does not change, nor what its events decide.           *)
LEMMA SameLog ==
  ASSUME log' = log
  PROVE  /\ Index' = Index /\ CompleteAt' = CompleteAt
         /\ \A i, t : Decides(i, t)' = Decides(i, t)
         /\ \A i : IsDDL(i)' = IsDDL(i)
  BY DEF Index, CompleteAt, Decides, IsDDL

(* What an event decides.                                                  *)
LEMMA DecidesFacts ==
  ASSUME log \in Logs, NEW i \in Index, NEW t \in Targets
  PROVE  /\ Decides(i, t) \subseteq Keys
         /\ log[i].kind \in {"complete", "checkpoint", "add"} => Decides(i, t) = {}
         /\ Decides(i, t) # {} => log[i].target = t
         /\ log[i].kind = "chunk" /\ log[i].target = t =>
              Decides(i, t) = Range(log[i].keys)
         /\ log[i].kind = "truncate" /\ log[i].target = t =>
              Decides(i, t) = Keys
<1>1. log[i] \in Event
  BY LogFacts
<1>2. log[i].kind \in {"complete", "checkpoint", "add"} => Decides(i, t) = {}
  BY DEF Decides
<1>3. log[i].kind \notin {"complete", "checkpoint", "add"} /\ log[i].target # t =>
        Decides(i, t) = {}
  BY DEF Decides
<1>4. CASE log[i].kind = "chunk" /\ log[i].target = t
  <2>1. Decides(i, t) = Range(log[i].keys)
    BY <1>4 DEF Decides
  <2>2. log[i].keys \in Seq(Keys)
    BY <1>1, <1>4 DEF Event
  <2> QED
    BY <1>4, <2>1, <2>2 DEF Range
<1>5. CASE log[i].kind = "put" /\ log[i].target = t
  <2>1. Decides(i, t) = {log[i].key, log[i].old} \ {NoKey}
    BY <1>5 DEF Decides
  <2>2. log[i].key \in Keys /\ log[i].old \in Keys \cup {NoKey}
    BY <1>1, <1>5 DEF Event
  <2> QED
    BY <1>5, <2>1, <2>2
<1>6. CASE log[i].kind = "delete" /\ log[i].target = t
  <2>1. Decides(i, t) = {log[i].key}
    BY <1>6 DEF Decides
  <2>2. log[i].key \in Keys
    BY <1>1, <1>6 DEF Event
  <2> QED
    BY <1>6, <2>1, <2>2
<1>7. CASE log[i].kind = "truncate" /\ log[i].target = t
  BY <1>7 DEF Decides
<1>8. log[i].kind \in {"chunk", "complete", "checkpoint", "put", "delete", "truncate", "add"}
  BY <1>1 DEF Event
<1> QED
  BY <1>2, <1>3, <1>4, <1>5, <1>6, <1>7, <1>8

(* The last event of a set that decides a row.                             *)
LEMMA LastOfFacts ==
  ASSUME log \in Logs, NEW S \in SUBSET Index, NEW t \in Targets, NEW k \in Keys
  PROVE  /\ LastOf(S, t, k) \in 0..Len(log)
         /\ LastOf(S, t, k) # 0 =>
              LastOf(S, t, k) \in S /\ k \in Decides(LastOf(S, t, k), t)
         /\ \A i \in S : k \in Decides(i, t) => i <= LastOf(S, t, k)
<1> DEFINE D == {0} \cup {i \in S : k \in Decides(i, t)}
<1>1. Len(log) \in Nat /\ Index = 1..Len(log)
  BY LogFacts
<1>2. D \in SUBSET Nat /\ D # {} /\ \A i \in D : i <= Len(log)
  <2>1. \A i \in S : i \in Nat /\ i <= Len(log)
    BY <1>1
  <2>2. \A i \in D : i \in Nat /\ i <= Len(log)
    BY <1>1, <2>1
  <2> QED
    BY <2>2
<1>3. LastOf(S, t, k) = Max(D)
  BY DEF LastOf
<1> HIDE DEF D
<1>4. Max(D) \in D /\ \A i \in D : i <= Max(D)
  BY <1>1, <1>2, MaxExists
<1> QED
  BY <1>1, <1>2, <1>3, <1>4 DEF D

(* The larger of two numbers.                                              *)
LEMMA MaxOfTwo ==
  ASSUME NEW a \in Nat, NEW b \in Nat
  PROVE  Max({a, b}) \in {a, b} /\ a <= Max({a, b}) /\ b <= Max({a, b})
<1>1. {a, b} \in SUBSET Nat /\ {a, b} # {} /\ \A i \in {a, b} : i <= a + b
  OBVIOUS
<1> QED
  BY <1>1, MaxExists

(* What is prepared for a row is an event of the batch that decides it.    *)
LEMMA BatchFacts ==
  ASSUME log \in Logs, NEW batch \in Seq(Index), NEW t \in Targets, NEW k \in Keys
  PROVE  /\ prepareBatch(batch, t)[k] \in 0..Len(log)
         /\ prepareBatch(batch, t)[k] # 0 =>
              /\ prepareBatch(batch, t)[k] \in Index
              /\ k \in Decides(prepareBatch(batch, t)[k], t)
         /\ batch = <<>> => prepareBatch(batch, t)[k] = 0
<1> DEFINE ops == {p \in DOMAIN batch : k \in Decides(batch[p], t)}
<1>1. Len(log) \in Nat /\ Index = 1..Len(log)
  BY LogFacts
<1>2. /\ DOMAIN batch = 1..Len(batch) /\ Len(batch) \in Nat
      /\ \A p \in DOMAIN batch : batch[p] \in Index
  OBVIOUS
<1>3. prepareBatch(batch, t)[k] = IF ops = {} THEN 0 ELSE batch[Max(ops)]
  BY DEF prepareBatch
<1>4. ops # {} => Max(ops) \in ops
  <2>1. ops \in SUBSET Nat /\ \A p \in ops : p <= Len(batch)
    BY <1>2
  <2> HIDE DEF ops
  <2> QED
    BY <1>2, <2>1, MaxExists
<1>5. batch = <<>> => ops = {}
  OBVIOUS
<1> QED
  BY <1>1, <1>2, <1>3, <1>4, <1>5

(* The event appended last is the one that is prepared.                    *)
LEMMA Appended ==
  ASSUME log \in Logs, NEW batch \in Seq(Index), NEW i \in Index,
         NEW t \in Targets, NEW k \in Keys
  PROVE  prepareBatch(Append(batch, i), t)[k] =
           IF k \in Decides(i, t) THEN i ELSE prepareBatch(batch, t)[k]
<1> DEFINE more == Append(batch, i)
           ops == {p \in DOMAIN batch : k \in Decides(batch[p], t)}
           moreOps == {p \in DOMAIN more : k \in Decides(more[p], t)}
           n == Len(batch) + 1
<1>1. /\ Len(batch) \in Nat /\ DOMAIN batch = 1..Len(batch)
      /\ DOMAIN more = 1..n /\ more[n] = i
      /\ \A p \in 1..Len(batch) : more[p] = batch[p]
  OBVIOUS
<1>2. /\ prepareBatch(batch, t)[k] = IF ops = {} THEN 0 ELSE batch[Max(ops)]
      /\ prepareBatch(more, t)[k] = IF moreOps = {} THEN 0 ELSE more[Max(moreOps)]
  BY DEF prepareBatch
<1> HIDE DEF more
<1>3. /\ moreOps \in SUBSET Nat /\ \A p \in moreOps : p <= n
      /\ ops \in SUBSET Nat /\ \A p \in ops : p <= Len(batch)
  BY <1>1
<1>4. CASE k \in Decides(i, t)
  <2>1. n \in moreOps
    BY <1>1, <1>4
  <2> HIDE DEF moreOps
  <2>2. Max(moreOps) \in moreOps /\ n <= Max(moreOps)
    BY <1>1, <1>3, <2>1, MaxExists
  <2>3. Max(moreOps) = n
    <3>1. Max(moreOps) <= n /\ Max(moreOps) \in Nat
      BY <1>3, <2>2
    <3> QED
      BY <1>1, <2>2, <3>1
  <2> QED
    BY <1>1, <1>2, <1>4, <2>1, <2>3 DEF more
<1>5. CASE k \notin Decides(i, t)
  <2>1. moreOps = ops
    BY <1>1, <1>5
  <2>2. ops # {} => Max(ops) \in ops
    <3> HIDE DEF ops
    <3> QED
      BY <1>1, <1>3, MaxExists
  <2> QED
    BY <1>1, <1>2, <1>5, <2>1, <2>2 DEF more
<1> QED
  BY <1>4, <1>5

(* What is buffered has a row as long as its batches stay the same.        *)
LEMMA SameWaiting ==
  ASSUME log' = log, batches' = batches
  PROVE  \A t, k : Waiting(t, k)' = Waiting(t, k)
BY DEF Waiting, prepareBatch, Decides

(* What is buffered has a row when a batch has changed.                    *)
LEMMA NewWaiting ==
  ASSUME log' = log
  PROVE  \A t, k : Waiting(t, k)' = prepareBatch(batches'[t], t)[k]
BY DEF Waiting, prepareBatch, Decides

(* A row that is buffered or in Doris is a place in the log.               *)
LEMMA HeldFacts ==
  ASSUME TypeOK, NEW t \in Targets, NEW k \in Keys
  PROVE  /\ Len(log) \in Nat /\ Index = 1..Len(log)
         /\ table[t][k] \in 0..Len(log) /\ again[t][k] \in 0..Len(log)
         /\ Waiting(t, k) \in 0..Len(log) /\ Held(t, k) \in 0..Len(log)
         /\ Waiting(t, k) # 0 =>
              Waiting(t, k) \in Index /\ k \in Decides(Waiting(t, k), t)
         /\ batches[t] = <<>> => Waiting(t, k) = 0
<1>1. log \in Logs /\ batches[t] \in Seq(Index)
  BY DEF TypeOK
<1> QED
  BY <1>1, BatchFacts, LogFacts DEF TypeOK, Waiting, Held

(* A load that an ended run has left behind.                               *)
LEMMA LateFacts ==
  ASSUME TypeOK, NEW l \in late
  PROVE  /\ l \in LoadRecord /\ l.target \in Targets
         /\ l.run \in Nat /\ run \in Nat
         /\ \A k \in Keys : l.rows[k] \in Nat
<1>1. l \in LoadRecord /\ run \in 0..MaxRuns
  BY DEF TypeOK
<1>2. /\ l.target \in Targets /\ l.rows \in [Keys -> Nat]
      /\ l.run \in 0..MaxRuns
  BY <1>1 DEF LoadRecord
<1> QED
  BY <1>1, <1>2

\* What has been delivered again is not forgotten.
Grown ==
  \A t \in Targets, k \in Keys : again'[t][k] \in Nat /\ again[t][k] <= again'[t][k]

(* An event that is delivered again marks its rows with the newest event   *)
(* that the stream had delivered of them.                                  *)
LEMMA TakenAgain ==
  ASSUME TypeOK, NEW i \in Index, Take(i)
  PROVE  /\ again' \in [Targets -> [Keys -> 0..Len(log)]]
         /\ Grown
         /\ i <= reached =>
              \A t \in Targets, k \in Keys : k \in Decides(i, t) =>
                \A j \in 1..reached : k \in Decides(j, t) => j <= again'[t][k]
<1>1. /\ Len(log) \in Nat /\ Index = 1..Len(log) /\ log \in Logs
      /\ reached \in 0..Len(log)
      /\ again' = Redelivered(i) /\ again \in [Targets -> [Keys -> 0..Len(log)]]
  BY LogFacts DEF Take, TypeOK
<1>2. 1..reached \in SUBSET Index
  BY <1>1
<1>3. ASSUME NEW t \in Targets, NEW k \in Keys
      PROVE  /\ again'[t][k] \in 0..Len(log) /\ again[t][k] <= again'[t][k]
             /\ i <= reached /\ k \in Decides(i, t) =>
                  \A j \in 1..reached : k \in Decides(j, t) => j <= again'[t][k]
  <2> DEFINE last == LastOf(1..reached, t, k)
  <2>1. /\ last \in 0..Len(log)
        /\ \A j \in 1..reached : k \in Decides(j, t) => j <= last
    BY <1>1, <1>2, LastOfFacts
  <2>2. again'[t][k] = IF i <= reached /\ k \in Decides(i, t)
                       THEN Max({again[t][k], last}) ELSE again[t][k]
    BY <1>1 DEF Redelivered
  <2>3. again[t][k] \in 0..Len(log)
    BY <1>1
  <2> HIDE DEF last
  <2>4. /\ Max({again[t][k], last}) \in 0..Len(log)
        /\ again[t][k] <= Max({again[t][k], last})
        /\ last <= Max({again[t][k], last})
    BY <1>1, <2>1, <2>3, MaxOfTwo
  <2> DEFINE top == Max({again[t][k], last})
  <2> HIDE DEF top
  <2>5. top \in 0..Len(log) /\ again[t][k] <= top /\ last <= top
    BY <2>4 DEF top
  <2>6. again'[t][k] = IF i <= reached /\ k \in Decides(i, t)
                       THEN top ELSE again[t][k]
    BY <2>2 DEF top
  <2> QED
    BY <1>1, <2>1, <2>3, <2>5, <2>6
<1>4. again' \in [Targets -> [Keys -> 0..Len(log)]]
  <2>1. again' = [t \in Targets |-> [k \in Keys |-> again'[t][k]]]
    BY <1>1 DEF Redelivered
  <2> QED
    BY <1>3, <2>1
<1> QED
  BY <1>1, <1>3, <1>4 DEF Grown

-----------------------------------------------------------------------------
(* Where the handlers are *)

(* The log stays the same.                                                 *)
LEMMA LogStep ==
  ASSUME [Next]_vars
  PROVE  log' = log
<1>1. ASSUME StartRun
      PROVE  log' = log
  BY <1>1 DEF StartRun, streamVars
<1>2. ASSUME EnsureTables
      PROVE  log' = log
  BY <1>2 DEF EnsureTables
<1>3. ASSUME RunFails
      PROVE  log' = log
  BY <1>3 DEF RunFails
<1>4. ASSUME RunReturns
      PROVE  log' = log
  BY <1>4 DEF RunReturns
<1>5. ASSUME GiveUp
      PROVE  log' = log
  BY <1>5 DEF GiveUp
<1>6. ASSUME Cancel
      PROVE  log' = log
  BY <1>6 DEF Cancel, streamVars
<1>7. ASSUME NEW i \in Index, TakeChunk(i)
      PROVE  log' = log
  BY <1>7 DEF TakeChunk
<1>8. ASSUME NEW i \in Index, TakeComplete(i)
      PROVE  log' = log
  BY <1>8 DEF TakeComplete
<1>9. ASSUME NEW i \in Index, TakeCheckpoint(i)
      PROVE  log' = log
  BY <1>9 DEF TakeCheckpoint
<1>10. ASSUME NEW i \in Index, TakeDDL(i)
       PROVE  log' = log
  BY <1>10 DEF TakeDDL
<1>11. ASSUME NEW i \in Index, TakeRow(i)
       PROVE  log' = log
  BY <1>11 DEF TakeRow
<1>12. ASSUME Tick
       PROVE  log' = log
  BY <1>12 DEF Tick, streamVars
<1>13. ASSUME SourceCloses
       PROVE  log' = log
  BY <1>13 DEF SourceCloses, streamVars
<1>14. ASSUME NEW t \in Targets, SendBatch(t)
       PROVE  log' = log
  BY <1>14 DEF SendBatch, streamVars
<1>15. ASSUME SendPiece
       PROVE  log' = log
  BY <1>15 DEF SendPiece, streamVars
<1>16. ASSUME LoadAnswered
       PROVE  log' = log
  BY <1>16 DEF LoadAnswered, streamVars
<1>17. ASSUME LoadLands
       PROVE  log' = log
  BY <1>17 DEF LoadLands, streamVars
<1>18. ASSUME LoadLost
       PROVE  log' = log
  BY <1>18 DEF LoadLost, streamVars
<1>19. ASSUME NEW l \in late, LateLands(l)
       PROVE  log' = log
  BY <1>19 DEF LateLands, streamVars
<1>20. ASSUME NEW l \in late, LateLost(l)
       PROVE  log' = log
  BY <1>20 DEF LateLost, streamVars
<1>21. ASSUME Resend
       PROVE  log' = log
  BY <1>21 DEF Resend, streamVars
<1>22. ASSUME CommitOffset
       PROVE  log' = log
  BY <1>22 DEF CommitOffset, streamVars
<1>23. ASSUME FlushedForChunk
       PROVE  log' = log
  BY <1>23 DEF FlushedForChunk, streamVars
<1>24. ASSUME SaveProgress
       PROVE  log' = log
  BY <1>24 DEF SaveProgress
<1>25. ASSUME Confirm
       PROVE  log' = log
  BY <1>25 DEF Confirm, streamVars
<1>26. ASSUME applyDDL
       PROVE  log' = log
  BY <1>26 DEF applyDDL, streamVars
<1>27. ASSUME SourceAlters
       PROVE  log' = log
  BY <1>27 DEF SourceAlters, streamVars
<1>28. ASSUME UNCHANGED vars
       PROVE  log' = log
  BY <1>28 DEF vars, streamVars
<1>29. ASSUME SourceReconnect
       PROVE  log' = log
  BY <1>29 DEF SourceReconnect
<1> QED
  BY <1>1, <1>2, <1>3, <1>4, <1>5, <1>6, <1>7, <1>8, <1>9, <1>10, <1>11,
     <1>12, <1>13, <1>14, <1>15, <1>16, <1>17, <1>18, <1>19, <1>20, <1>21,
     <1>22, <1>23, <1>24, <1>25, <1>26, <1>27, <1>28, <1>29
  DEF Next, RunStep

(* The event at the cursor is the one that the handler is about.           *)
LEMMA PlaceStep ==
  ASSUME TypeOK, PlaceOK, BufferedOK,
         [Next]_vars
  PROVE  PlaceOK'
<1>0. /\ log' = log /\ Index' = Index /\ CompleteAt' = CompleteAt
      /\ Len(log) \in Nat /\ Index = 1..Len(log) /\ CompleteAt \in Index
      /\ cursor \in 0..Len(log)
      /\ \A i \in Index : log[i].kind = "complete" <=> i = CompleteAt
      /\ \A i \in Index : i < CompleteAt <=> log[i].kind = "chunk"
  BY LogStep, SameLog, LogFacts DEF TypeOK
<1>1. ASSUME StartRun
      PROVE  PlaceOK'
  BY <1>0, <1>1
     DEF StartRun, streamVars, metaVars, dorisVars, bufferVars, handlerVars, PlaceOK,
         BufferedOK, Altering, Chunking,
     Piecing, Confirming, Flushing, IsDDL
<1>2. ASSUME EnsureTables
      PROVE  PlaceOK'
  BY <1>0, <1>2
     DEF EnsureTables, metaVars, handlerVars, PlaceOK, BufferedOK, Altering,
         Chunking,
     Piecing, Confirming, Flushing, IsDDL
<1>3. ASSUME RunFails
      PROVE  PlaceOK'
  BY <1>0, <1>3
     DEF RunFails, EndRun, metaVars, PlaceOK, BufferedOK, Altering, Chunking,
     Piecing, Confirming, Flushing, IsDDL
<1>4. ASSUME RunReturns
      PROVE  PlaceOK'
  BY <1>0, <1>4
     DEF RunReturns, EndRun, metaVars, PlaceOK, BufferedOK, Altering,
         Chunking,
     Piecing, Confirming, Flushing, IsDDL
<1>5. ASSUME GiveUp
      PROVE  PlaceOK'
  BY <1>0, <1>5
     DEF GiveUp, EndRun, metaVars, PlaceOK, BufferedOK, Altering, Chunking,
     Piecing, Confirming, Flushing, IsDDL
<1>6. ASSUME Cancel
      PROVE  PlaceOK'
  BY <1>0, <1>6
     DEF Cancel, streamVars, metaVars, dorisVars, handlerVars, PlaceOK, BufferedOK,
         Altering, Chunking,
     Piecing, Confirming, Flushing, IsDDL
<1>7. ASSUME NEW i \in Index, TakeChunk(i)
      PROVE  PlaceOK'
  BY <1>0, <1>7
     DEF TakeChunk, Take, Flush, metaVars, dorisVars, bufferVars, PlaceOK,
         BufferedOK, Altering, Chunking,
     Piecing, Confirming, Flushing, IsDDL
<1>8. ASSUME NEW i \in Index, TakeComplete(i)
      PROVE  PlaceOK'
  BY <1>0, <1>8
     DEF TakeComplete, Take, Flush, metaVars, dorisVars, bufferVars, PlaceOK,
         BufferedOK, Altering, Chunking,
     Piecing, Confirming, Flushing, IsDDL
<1>9. ASSUME NEW i \in Index, TakeCheckpoint(i)
      PROVE  PlaceOK'
  BY <1>0, <1>9
     DEF TakeCheckpoint, Take, metaVars, dorisVars, handlerVars, PlaceOK,
         BufferedOK, Altering, Chunking,
     Piecing, Confirming, Flushing, IsDDL
<1>10. ASSUME NEW i \in Index, TakeDDL(i)
       PROVE  PlaceOK'
  BY <1>0, <1>10
     DEF TakeDDL, Take, Flush, metaVars, dorisVars, bufferVars, FlushedBy,
         PlaceOK, BufferedOK, Altering, Chunking,
     Piecing, Confirming, Flushing, IsDDL
<1>11. ASSUME NEW i \in Index, TakeRow(i)
       PROVE  PlaceOK'
  BY <1>0, <1>11
     DEF TakeRow, Take, Flush, metaVars, dorisVars, PlaceOK, BufferedOK,
         Altering, Chunking,
     Piecing, Confirming, Flushing, IsDDL
<1>12. ASSUME Tick
       PROVE  PlaceOK'
  BY <1>0, <1>12
     DEF Tick, streamVars, Flush, metaVars, dorisVars, bufferVars, TickFlushes, PlaceOK,
         BufferedOK, Altering, Chunking,
     Piecing, Confirming, Flushing, IsDDL
<1>13. ASSUME SourceCloses
       PROVE  PlaceOK'
  BY <1>0, <1>13
     DEF SourceCloses, streamVars, Flush, metaVars, dorisVars, bufferVars, PlaceOK,
         BufferedOK, Altering, Chunking,
     Piecing, Confirming, Flushing, IsDDL
<1>14. ASSUME NEW t \in Targets, SendBatch(t)
       PROVE  PlaceOK'
  BY <1>0, <1>14
     DEF SendBatch, streamVars, metaVars, dorisVars, bufferVars, handlerVars, PlaceOK,
         BufferedOK, Altering, Chunking,
     Piecing, Confirming, Flushing, IsDDL
<1>15. ASSUME SendPiece
       PROVE  PlaceOK'
  BY <1>0, <1>15
     DEF SendPiece, streamVars, metaVars, dorisVars, bufferVars, PlaceOK, BufferedOK,
         Altering, Chunking,
     Piecing, Confirming, Flushing, IsDDL
<1>16. ASSUME LoadAnswered
       PROVE  PlaceOK'
  BY <1>0, <1>16
     DEF LoadAnswered, streamVars, metaVars, dorisVars, PlaceOK, BufferedOK, Altering,
         Chunking,
     Piecing, Confirming, Flushing, IsDDL
<1>17. ASSUME LoadLands
       PROVE  PlaceOK'
  BY <1>0, <1>17
     DEF LoadLands, streamVars, metaVars, bufferVars, handlerVars, PlaceOK, BufferedOK,
         Altering, Chunking,
     Piecing, Confirming, Flushing, IsDDL
<1>18. ASSUME LoadLost
       PROVE  PlaceOK'
  BY <1>0, <1>18
     DEF LoadLost, streamVars, metaVars, dorisVars, bufferVars, handlerVars, PlaceOK,
         BufferedOK, Altering, Chunking,
     Piecing, Confirming, Flushing, IsDDL
<1>19. ASSUME NEW l \in late, LateLands(l)
       PROVE  PlaceOK'
  BY <1>0, <1>19
     DEF LateLands, streamVars, metaVars, bufferVars, handlerVars, PlaceOK, BufferedOK,
         Altering, Chunking,
     Piecing, Confirming, Flushing, IsDDL
<1>20. ASSUME NEW l \in late, LateLost(l)
       PROVE  PlaceOK'
  BY <1>0, <1>20
     DEF LateLost, streamVars, metaVars, bufferVars, handlerVars, PlaceOK, BufferedOK,
         Altering, Chunking,
     Piecing, Confirming, Flushing, IsDDL
<1>21. ASSUME Resend
       PROVE  PlaceOK'
  BY <1>0, <1>21
     DEF Resend, streamVars, metaVars, bufferVars, handlerVars, PlaceOK, BufferedOK,
         Altering, Chunking,
     Piecing, Confirming, Flushing, IsDDL
<1>22. ASSUME CommitOffset
       PROVE  PlaceOK'
  <2>1. CASE pc = "chunk"
    BY <1>0, <1>22, <2>1
       DEF CommitOffset, streamVars, handlerVars, PlaceOK, Altering, Chunking,
     Piecing, Confirming, Flushing, IsDDL
  <2>2. CASE pc # "chunk"
    <3>1. pc = "flush" /\ then # "chunk" /\ then' = "none" /\ cursor' = cursor
      BY <1>22, <2>2 DEF CommitOffset, streamVars, Continue
    <3>2. pc' = IF then = "none" THEN "idle" ELSE then
      BY <1>22, <2>2 DEF CommitOffset, streamVars, Continue
    <3>3. then \in {"none", "ddl", "confirm", "end"}
      BY <3>1 DEF TypeOK, PlaceOK
    <3> QED
      BY <1>0, <3>1, <3>2, <3>3 DEF PlaceOK, Altering, Chunking,
     Piecing, Confirming, Flushing, IsDDL
  <2> QED
    BY <2>1, <2>2
<1>23. ASSUME FlushedForChunk
       PROVE  PlaceOK'
  BY <1>0, <1>23
     DEF FlushedForChunk, streamVars, Continue, metaVars, dorisVars, bufferVars, PlaceOK,
         BufferedOK, Altering, Chunking,
     Piecing, Confirming, Flushing, IsDDL
<1>24. ASSUME SaveProgress
       PROVE  PlaceOK'
  BY <1>0, <1>24
     DEF SaveProgress, dorisVars, bufferVars, handlerVars, PlaceOK,
         BufferedOK, Altering, Chunking,
     Piecing, Confirming, Flushing, IsDDL
<1>25. ASSUME Confirm
       PROVE  PlaceOK'
  BY <1>0, <1>25
     DEF Confirm, streamVars, dorisVars, bufferVars, handlerVars, PlaceOK, BufferedOK,
         Altering, Chunking,
     Piecing, Confirming, Flushing, IsDDL
<1>26. ASSUME applyDDL
       PROVE  PlaceOK'
  BY <1>0, <1>26
     DEF applyDDL, streamVars, metaVars, bufferVars, handlerVars, AddColumn, Truncate,
         PlaceOK, BufferedOK, Altering, Chunking,
     Piecing, Confirming, Flushing, IsDDL
<1>27. ASSUME SourceAlters
       PROVE  PlaceOK'
  BY <1>0, <1>27
     DEF SourceAlters, streamVars, metaVars, dorisVars, bufferVars, handlerVars, PlaceOK,
         BufferedOK, Altering, Chunking,
     Piecing, Confirming, Flushing, IsDDL
<1>28. ASSUME UNCHANGED vars
       PROVE  PlaceOK'
  BY <1>0, <1>28
     DEF vars, streamVars, metaVars, dorisVars, bufferVars, handlerVars, PlaceOK,
         Altering, Chunking,
     Piecing, Confirming, Flushing, IsDDL
<1>29. ASSUME SourceReconnect
       PROVE  PlaceOK'
  BY <1>0, <1>29
     DEF SourceReconnect, metaVars, dorisVars, bufferVars, handlerVars, PlaceOK,
         BufferedOK, Altering, Chunking, Piecing, Confirming, Flushing, IsDDL
<1> QED
  BY <1>1, <1>2, <1>3, <1>4, <1>5, <1>6, <1>7, <1>8, <1>9, <1>10, <1>11,
     <1>12, <1>13, <1>14, <1>15, <1>16, <1>17, <1>18, <1>19, <1>20, <1>21,
     <1>22, <1>23, <1>24, <1>25, <1>26, <1>27, <1>28, <1>29
  DEF Next, RunStep

(* Nothing is buffered behind a flush of all tables.                       *)
LEMMA BufferedStep ==
  ASSUME TypeOK, PlaceOK, BufferedOK,
         [Next]_vars
  PROVE  BufferedOK'
<1>0. ~(batches' # batches) => Buffered' = Buffered
  BY DEF Buffered
<1>1. ASSUME StartRun
      PROVE  BufferedOK'
  BY <1>0, <1>1
     DEF StartRun, streamVars, metaVars, dorisVars, bufferVars, handlerVars, BufferedOK,
         PlaceOK, Running,
     Piecing, Flushing
<1>2. ASSUME EnsureTables
      PROVE  BufferedOK'
  BY <1>0, <1>2
     DEF EnsureTables, metaVars, handlerVars, BufferedOK, PlaceOK, Running,
     Piecing, Flushing
<1>3. ASSUME RunFails
      PROVE  BufferedOK'
  <2>1. /\ pc' = "down" /\ batches' = [t \in Targets |-> <<>>] /\ pending' = 0
        /\ then' = "none"
    BY <1>3 DEF RunFails, EndRun
  <2>2. Buffered' = {}
    BY <2>1 DEF Buffered
  <2> QED
    BY <2>1, <2>2 DEF BufferedOK, Running, Piecing, Flushing
<1>4. ASSUME RunReturns
      PROVE  BufferedOK'
  <2>1. /\ pc' = "down" /\ batches' = [t \in Targets |-> <<>>] /\ pending' = 0
        /\ then' = "none"
    BY <1>4 DEF RunReturns, EndRun
  <2>2. Buffered' = {}
    BY <2>1 DEF Buffered
  <2> QED
    BY <2>1, <2>2 DEF BufferedOK, Running, Piecing, Flushing
<1>5. ASSUME GiveUp
      PROVE  BufferedOK'
  <2>1. /\ pc' = "down" /\ batches' = [t \in Targets |-> <<>>] /\ pending' = 0
        /\ then' = "none"
    BY <1>5 DEF GiveUp, EndRun
  <2>2. Buffered' = {}
    BY <2>1 DEF Buffered
  <2> QED
    BY <2>1, <2>2 DEF BufferedOK, Running, Piecing, Flushing
<1>6. ASSUME Cancel
      PROVE  BufferedOK'
  BY <1>0, <1>6
     DEF Cancel, streamVars, metaVars, dorisVars, handlerVars, BufferedOK, PlaceOK,
         Running,
     Piecing, Flushing
<1>7. ASSUME NEW i \in Index, TakeChunk(i)
      PROVE  BufferedOK'
  BY <1>0, <1>7
     DEF TakeChunk, Take, Flush, metaVars, dorisVars, bufferVars, BufferedOK,
         PlaceOK, Running,
     Piecing, Flushing
<1>8. ASSUME NEW i \in Index, TakeComplete(i)
      PROVE  BufferedOK'
  BY <1>0, <1>8
     DEF TakeComplete, Take, Flush, metaVars, dorisVars, bufferVars,
         BufferedOK, PlaceOK, Running,
     Piecing, Flushing
<1>9. ASSUME NEW i \in Index, TakeCheckpoint(i)
      PROVE  BufferedOK'
  BY <1>0, <1>9
     DEF TakeCheckpoint, Take, metaVars, dorisVars, handlerVars, BufferedOK,
         PlaceOK, Running,
     Piecing, Flushing
<1>10. ASSUME NEW i \in Index, TakeDDL(i)
       PROVE  BufferedOK'
  BY <1>0, <1>10
     DEF TakeDDL, Take, Flush, metaVars, dorisVars, bufferVars, FlushedBy,
         BufferedOK, PlaceOK, Running,
     Piecing, Flushing
<1>11. ASSUME NEW i \in Index, TakeRow(i)
       PROVE  BufferedOK'
  <2>1. pc = "idle" /\ pending' = pending
        /\ \/ pc' = "idle"
           \/ (pc' = "flush" /\ then' = "none" /\ todo' # {})
    BY <1>11 DEF TakeRow, Take, Flush
  <2> QED
    BY <2>1 DEF BufferedOK, Running, Piecing, Flushing
<1>12. ASSUME Tick
       PROVE  BufferedOK'
  BY <1>0, <1>12
     DEF Tick, streamVars, Flush, metaVars, dorisVars, bufferVars, TickFlushes,
         BufferedOK, PlaceOK, Running,
     Piecing, Flushing
<1>13. ASSUME SourceCloses
       PROVE  BufferedOK'
  BY <1>0, <1>13
     DEF SourceCloses, streamVars, Flush, metaVars, dorisVars, bufferVars, BufferedOK,
         PlaceOK, Running,
     Piecing, Flushing
<1>14. ASSUME NEW t \in Targets, SendBatch(t)
       PROVE  BufferedOK'
  BY <1>0, <1>14
     DEF SendBatch, streamVars, metaVars, dorisVars, bufferVars, handlerVars, BufferedOK,
         PlaceOK, Running,
     Piecing, Flushing
<1>15. ASSUME SendPiece
       PROVE  BufferedOK'
  BY <1>0, <1>15
     DEF SendPiece, streamVars, metaVars, dorisVars, bufferVars, BufferedOK, PlaceOK,
         Running,
     Piecing, Flushing
<1>16. ASSUME LoadAnswered
       PROVE  BufferedOK'
  <2>1. CASE todo = {}
    BY <1>0, <1>16, <2>1 DEF LoadAnswered, streamVars, BufferedOK, Running, Piecing
  <2>2. CASE todo # {}
    <3>1. pc = "call" /\ pc' = "flush" /\ then' = then
          /\ todo' = todo \ {load.target}
          /\ batches' = [batches EXCEPT ![load.target] = <<>>]
      BY <1>16, <2>2 DEF LoadAnswered, streamVars
    <3>2. Buffered' \subseteq Buffered \ {load.target}
      BY <3>1 DEF Buffered, TypeOK
    <3> QED
      BY <3>1, <3>2 DEF BufferedOK, Running, Piecing, Flushing
  <2> QED
    BY <2>1, <2>2
<1>17. ASSUME LoadLands
       PROVE  BufferedOK'
  BY <1>0, <1>17
     DEF LoadLands, streamVars, metaVars, bufferVars, handlerVars, BufferedOK, PlaceOK,
         Running,
     Piecing, Flushing
<1>18. ASSUME LoadLost
       PROVE  BufferedOK'
  BY <1>0, <1>18
     DEF LoadLost, streamVars, metaVars, dorisVars, bufferVars, handlerVars, BufferedOK,
         PlaceOK, Running,
     Piecing, Flushing
<1>19. ASSUME NEW l \in late, LateLands(l)
       PROVE  BufferedOK'
  BY <1>0, <1>19
     DEF LateLands, streamVars, metaVars, bufferVars, handlerVars, BufferedOK, PlaceOK,
         Running,
     Piecing, Flushing
<1>20. ASSUME NEW l \in late, LateLost(l)
       PROVE  BufferedOK'
  BY <1>0, <1>20
     DEF LateLost, streamVars, metaVars, bufferVars, handlerVars, BufferedOK, PlaceOK,
         Running,
     Piecing, Flushing
<1>21. ASSUME Resend
       PROVE  BufferedOK'
  BY <1>0, <1>21
     DEF Resend, streamVars, metaVars, bufferVars, handlerVars, BufferedOK, PlaceOK,
         Running,
     Piecing, Flushing
<1>22. ASSUME CommitOffset
       PROVE  BufferedOK'
  <2>1. CASE pc = "chunk"
    BY <1>0, <1>22, <2>1
       DEF CommitOffset, streamVars, BufferedOK, Running, Piecing, Flushing
  <2>2. CASE pc # "chunk"
    <3>1. pc = "flush" /\ then # "chunk" /\ then' = "none" /\ todo = {}
          /\ pc' = (IF then = "none" THEN "idle" ELSE then)
          /\ todo' = todo /\ batches' = batches
      BY <1>22, <2>2 DEF CommitOffset, streamVars, Continue
    <3>2. then \in {"none", "ddl", "confirm", "end"}
      BY <3>1 DEF TypeOK, PlaceOK
    <3>3. then \in {"ddl", "confirm"} => Buffered = {}
      BY <3>1 DEF BufferedOK, Flushing
    <3> QED
      BY <1>0, <3>1, <3>2, <3>3 DEF BufferedOK, Running, Piecing, Flushing
  <2> QED
    BY <2>1, <2>2
<1>23. ASSUME FlushedForChunk
       PROVE  BufferedOK'
  BY <1>0, <1>23
     DEF FlushedForChunk, streamVars, Continue, metaVars, dorisVars, bufferVars,
         BufferedOK, PlaceOK, Running,
     Piecing, Flushing
<1>24. ASSUME SaveProgress
       PROVE  BufferedOK'
  BY <1>0, <1>24
     DEF SaveProgress, dorisVars, bufferVars, handlerVars, BufferedOK,
         PlaceOK, Running,
     Piecing, Flushing
<1>25. ASSUME Confirm
       PROVE  BufferedOK'
  BY <1>0, <1>25
     DEF Confirm, streamVars, dorisVars, bufferVars, handlerVars, BufferedOK, PlaceOK,
         Running,
     Piecing, Flushing
<1>26. ASSUME applyDDL
       PROVE  BufferedOK'
  BY <1>0, <1>26
     DEF applyDDL, streamVars, metaVars, bufferVars, handlerVars, AddColumn, Truncate,
         BufferedOK, PlaceOK, Running,
     Piecing, Flushing
<1>27. ASSUME SourceAlters
       PROVE  BufferedOK'
  BY <1>0, <1>27
     DEF SourceAlters, streamVars, metaVars, dorisVars, bufferVars, handlerVars,
         BufferedOK, PlaceOK, Running,
     Piecing, Flushing
<1>28. ASSUME UNCHANGED vars
       PROVE  BufferedOK'
  BY <1>0, <1>28
     DEF vars, streamVars, metaVars, dorisVars, bufferVars, handlerVars, BufferedOK,
         Running, Piecing, Flushing
<1>29. ASSUME SourceReconnect
       PROVE  BufferedOK'
  BY <1>0, <1>29
     DEF SourceReconnect, metaVars, dorisVars, bufferVars, handlerVars,
         BufferedOK, PlaceOK, Running, Piecing, Flushing
<1> QED
  BY <1>1, <1>2, <1>3, <1>4, <1>5, <1>6, <1>7, <1>8, <1>9, <1>10, <1>11,
     <1>12, <1>13, <1>14, <1>15, <1>16, <1>17, <1>18, <1>19, <1>20, <1>21,
     <1>22, <1>23, <1>24, <1>25, <1>26, <1>27, <1>28, <1>29
  DEF Next, RunStep

(* No batch is larger than its size.                                       *)
LEMMA SizeStep ==
  ASSUME TypeOK, SizeOK,
         [Next]_vars
  PROVE  SizeOK'
<1>0. /\ BatchSize \in Nat \ {0} /\ batches \in [Targets -> Seq(Index)]
      /\ \A i \in Index : log[i] \in Event
      /\ \A t \in Targets : Len(batches[t]) \in Nat
  <2>1. batches \in [Targets -> Seq(Index)]
    BY DEF TypeOK
  <2>2. \A t \in Targets : batches[t] \in Seq(Index)
    BY <2>1
  <2>3. \A t \in Targets : Len(batches[t]) \in Nat
    BY <2>2
  <2>4. \A i \in Index : log[i] \in Event
    BY LogFacts DEF TypeOK
  <2> QED
    BY <2>1, <2>3, <2>4, DorisAssumption
<1>1. ASSUME StartRun
      PROVE  SizeOK'
  BY <1>0, <1>1
     DEF StartRun, streamVars, metaVars, dorisVars, bufferVars, handlerVars, SizeOK
<1>2. ASSUME EnsureTables
      PROVE  SizeOK'
  BY <1>0, <1>2 DEF EnsureTables, metaVars, handlerVars, SizeOK
<1>3. ASSUME RunFails
      PROVE  SizeOK'
  <2>1. batches' = [t \in Targets |-> <<>>]
    BY <1>3 DEF RunFails, EndRun
  <2> QED
    BY <1>0, <2>1 DEF SizeOK
<1>4. ASSUME RunReturns
      PROVE  SizeOK'
  <2>1. batches' = [t \in Targets |-> <<>>]
    BY <1>4 DEF RunReturns, EndRun
  <2> QED
    BY <1>0, <2>1 DEF SizeOK
<1>5. ASSUME GiveUp
      PROVE  SizeOK'
  <2>1. batches' = [t \in Targets |-> <<>>]
    BY <1>5 DEF GiveUp, EndRun
  <2> QED
    BY <1>0, <2>1 DEF SizeOK
<1>6. ASSUME Cancel
      PROVE  SizeOK'
  BY <1>0, <1>6 DEF Cancel, streamVars, metaVars, dorisVars, handlerVars, SizeOK
<1>7. ASSUME NEW i \in Index, TakeChunk(i)
      PROVE  SizeOK'
  BY <1>0, <1>7
     DEF TakeChunk, Take, Flush, metaVars, dorisVars, bufferVars, SizeOK
<1>8. ASSUME NEW i \in Index, TakeComplete(i)
      PROVE  SizeOK'
  BY <1>0, <1>8
     DEF TakeComplete, Take, Flush, metaVars, dorisVars, bufferVars, SizeOK
<1>9. ASSUME NEW i \in Index, TakeCheckpoint(i)
      PROVE  SizeOK'
  BY <1>0, <1>9
     DEF TakeCheckpoint, Take, metaVars, dorisVars, handlerVars, SizeOK
<1>10. ASSUME NEW i \in Index, TakeDDL(i)
       PROVE  SizeOK'
  BY <1>0, <1>10
     DEF TakeDDL, Take, Flush, metaVars, dorisVars, bufferVars, FlushedBy,
         SizeOK
<1>11. ASSUME NEW i \in Index, TakeRow(i)
       PROVE  SizeOK'
  <2> DEFINE t == log[i].target
  <2>1. /\ pc = "idle" /\ t \in Targets
        /\ batches' = [batches EXCEPT ![t] = Append(@, i)]
        /\ \/ BatchFull(batches'[t]) /\ pc' = "flush" /\ todo' = {t}
           \/ ~BatchFull(batches'[t])
    BY <1>0, <1>11 DEF TakeRow, Take, Flush, Event
  <2>2. /\ Len(batches'[t]) = Len(batches[t]) + 1
        /\ \A s \in Targets \ {t} : batches'[s] = batches[s]
    BY <1>0, <2>1
  <2>3. \A s \in Targets : Len(batches[s]) < BatchSize
    BY <1>0, <2>1 DEF SizeOK
  <2> HIDE DEF t
  <2>4. \A s \in Targets : Len(batches'[s]) >= BatchSize =>
          s = t /\ Len(batches'[s]) = BatchSize
    BY <1>0, <2>1, <2>2, <2>3
  <2>5. Len(batches'[t]) >= BatchSize => pc' = "flush" /\ todo' = {t}
    BY <2>1 DEF BatchFull
  <2> QED
    BY <2>4, <2>5 DEF SizeOK
<1>12. ASSUME Tick
       PROVE  SizeOK'
  BY <1>0, <1>12
     DEF Tick, streamVars, Flush, metaVars, dorisVars, bufferVars, TickFlushes, SizeOK
<1>13. ASSUME SourceCloses
       PROVE  SizeOK'
  BY <1>0, <1>13
     DEF SourceCloses, streamVars, Flush, metaVars, dorisVars, bufferVars, SizeOK
<1>14. ASSUME NEW t \in Targets, SendBatch(t)
       PROVE  SizeOK'
  BY <1>0, <1>14
     DEF SendBatch, streamVars, metaVars, dorisVars, bufferVars, handlerVars, SizeOK
<1>15. ASSUME SendPiece
       PROVE  SizeOK'
  BY <1>0, <1>15 DEF SendPiece, streamVars, metaVars, dorisVars, bufferVars, SizeOK
<1>16. ASSUME LoadAnswered
       PROVE  SizeOK'
  <2>1. CASE todo = {}
    BY <1>0, <1>16, <2>1 DEF LoadAnswered, streamVars, SizeOK
  <2>2. CASE todo # {}
    <3>1. pc = "call" /\ pc' = "flush"
          /\ todo' = todo \ {load.target}
          /\ batches' = [batches EXCEPT ![load.target] = <<>>]
      BY <1>16, <2>2 DEF LoadAnswered, streamVars
    <3>2. \A t \in Targets : batches'[t] = IF t = load.target THEN <<>> ELSE batches[t]
      BY <3>1, <1>0
    <3> QED
      BY <1>0, <3>1, <3>2 DEF SizeOK
  <2> QED
    BY <2>1, <2>2
<1>17. ASSUME LoadLands
       PROVE  SizeOK'
  BY <1>0, <1>17 DEF LoadLands, streamVars, metaVars, bufferVars, handlerVars, SizeOK
<1>18. ASSUME LoadLost
       PROVE  SizeOK'
  BY <1>0, <1>18
     DEF LoadLost, streamVars, metaVars, dorisVars, bufferVars, handlerVars, SizeOK
<1>19. ASSUME NEW l \in late, LateLands(l)
       PROVE  SizeOK'
  BY <1>0, <1>19 DEF LateLands, streamVars, metaVars, bufferVars, handlerVars, SizeOK
<1>20. ASSUME NEW l \in late, LateLost(l)
       PROVE  SizeOK'
  BY <1>0, <1>20 DEF LateLost, streamVars, metaVars, bufferVars, handlerVars, SizeOK
<1>21. ASSUME Resend
       PROVE  SizeOK'
  BY <1>0, <1>21 DEF Resend, streamVars, metaVars, bufferVars, handlerVars, SizeOK
<1>22. ASSUME CommitOffset
       PROVE  SizeOK'
  <2>1. ((pc = "flush" /\ todo = {}) \/ pc = "chunk") /\ batches' = batches
    BY <1>22 DEF CommitOffset, streamVars
  <2>2. \A t \in Targets : Len(batches[t]) < BatchSize
    BY <1>0, <2>1 DEF SizeOK
  <2> QED
    BY <1>0, <2>1, <2>2 DEF SizeOK
<1>23. ASSUME FlushedForChunk
       PROVE  SizeOK'
  BY <1>0, <1>23
     DEF FlushedForChunk, streamVars, Continue, metaVars, dorisVars, bufferVars, SizeOK
<1>24. ASSUME SaveProgress
       PROVE  SizeOK'
  BY <1>0, <1>24 DEF SaveProgress, dorisVars, bufferVars, handlerVars, SizeOK
<1>25. ASSUME Confirm
       PROVE  SizeOK'
  BY <1>0, <1>25 DEF Confirm, streamVars, dorisVars, bufferVars, handlerVars, SizeOK
<1>26. ASSUME applyDDL
       PROVE  SizeOK'
  BY <1>0, <1>26
     DEF applyDDL, streamVars, metaVars, bufferVars, handlerVars, AddColumn, Truncate,
         SizeOK
<1>27. ASSUME SourceAlters
       PROVE  SizeOK'
  BY <1>0, <1>27
     DEF SourceAlters, streamVars, metaVars, dorisVars, bufferVars, handlerVars, SizeOK
<1>28. ASSUME UNCHANGED vars
       PROVE  SizeOK'
  BY <1>0, <1>28 DEF vars, streamVars, metaVars, dorisVars, bufferVars, handlerVars, SizeOK
<1>29. ASSUME SourceReconnect
       PROVE  SizeOK'
  BY <1>0, <1>29
     DEF SourceReconnect, metaVars, dorisVars, bufferVars, handlerVars, SizeOK
<1> QED
  BY <1>1, <1>2, <1>3, <1>4, <1>5, <1>6, <1>7, <1>8, <1>9, <1>10, <1>11,
     <1>12, <1>13, <1>14, <1>15, <1>16, <1>17, <1>18, <1>19, <1>20, <1>21,
     <1>22, <1>23, <1>24, <1>25, <1>26, <1>27, <1>28, <1>29
  DEF Next, RunStep

-----------------------------------------------------------------------------
(* What is done *)

(* The events that are done are some first ones of the log.                *)
LEMMA DoneFacts ==
  ASSUME TypeOK, PlaceOK
  PROVE  /\ Len(log) \in Nat /\ Index = 1..Len(log)
         /\ cursor \in 0..Len(log) /\ (InHand => cursor \in Index)
         /\ Done \in 0..Len(log)
         /\ Resume \in 0..Len(log)
         /\ CompleteAt \in Index
<1>1. Len(log) \in Nat /\ Index = 1..Len(log) /\ CompleteAt \in Index
      /\ cursor \in 0..Len(log) /\ offset \in 0..Len(log)
      /\ progress \in 0..Len(log)
  BY LogFacts DEF TypeOK
<1>2. InHand => cursor \in Index
  BY DEF InHand, PlaceOK
<1>3. Done \in 0..Len(log)
  BY <1>1, <1>2 DEF Done
<1>4. Resume \in 0..Len(log)
  BY <1>1 DEF Resume
<1> QED
  BY <1>1, <1>2, <1>3, <1>4

(* While the snapshot is read no stream has failed.                        *)
LEMMA ChunkStream ==
  ASSUME TypeOK, StreamOK, Running, cursor \in Index, log[cursor].kind = "chunk"
  PROVE  reached = 0 /\ cursor < CompleteAt /\ cursor < started
<1>1. /\ Len(log) \in Nat /\ Index = 1..Len(log) /\ CompleteAt \in Index
      /\ cursor < CompleteAt
  BY LogFacts DEF TypeOK
<1>2. started \in Nat /\ cursor \in Nat /\ started >= CompleteAt
      /\ (reached # 0 => cursor >= started)
  BY <1>1 DEF StreamOK, TypeOK
<1> QED
  BY <1>1, <1>2

(* A step that leaves the stream where it is.                              *)
LEMMA StreamSame ==
  ASSUME StreamOK, AlterOK, UNCHANGED <<log, cursor, started, reached, again>>,
         Running' <=> Running, Altering' => Altering
  PROVE  StreamOK' /\ AlterOK'
<1>1. /\ Index' = Index /\ CompleteAt' = CompleteAt
      /\ \A i, t : Decides(i, t)' = Decides(i, t)
  BY SameLog
<1> QED
  BY <1>1 DEF StreamOK, AlterOK

(* Where the stream of a run begins, and what a schema change that is      *)
(* delivered again has marked.                                             *)
LEMMA StreamStep ==
  ASSUME TypeOK, PlaceOK, StreamOK, AlterOK,
         [Next]_vars
  PROVE  StreamOK' /\ AlterOK'
<1>0. /\ Len(log) \in Nat /\ Index = 1..Len(log) /\ CompleteAt \in Index
      /\ CompleteAt' = CompleteAt
      /\ {cursor, started, reached, Resume} \subseteq 0..Len(log)
      /\ then \in {"none", "chunk", "ddl", "confirm", "end"}
      /\ \A i, t : Decides(i, t)' = Decides(i, t)
  BY DoneFacts, LogStep, SameLog DEF TypeOK, PlaceOK
<1>1. ASSUME StartRun
      PROVE  StreamOK' /\ AlterOK'
  <2>1. /\ UNCHANGED <<log, cursor, started, reached, again>>
        /\ Running' <=> Running
        /\ Altering' => Altering
    BY <1>0, <1>1 DEF StartRun, streamVars, dorisVars, bufferVars,
        handlerVars, Running, Altering, Flushing
  <2> QED
    BY <2>1, StreamSame
<1>2. ASSUME EnsureTables
      PROVE  StreamOK' /\ AlterOK'
  <2>1. /\ pc = "ensure" /\ pc' = "idle" /\ reached' = reached
        /\ started' = Max({Resume, CompleteAt})
    BY <1>2 DEF EnsureTables
  <2>2. reached = 0 /\ started' >= CompleteAt
    BY <1>0, <2>1, MaxOfTwo DEF StreamOK, Running
  <2> QED
    BY <1>0, <2>1, <2>2 DEF StreamOK, AlterOK, Running, Altering, Flushing
<1>3. ASSUME RunFails
      PROVE  StreamOK' /\ AlterOK'
  <2>1. pc' = "down" /\ started' = 0 /\ reached' = 0
    BY <1>3 DEF RunFails, EndRun
  <2> QED
    BY <2>1 DEF StreamOK, AlterOK, Running, Altering, Flushing
<1>4. ASSUME RunReturns
      PROVE  StreamOK' /\ AlterOK'
  <2>1. pc' = "down" /\ started' = 0 /\ reached' = 0
    BY <1>4 DEF RunReturns, EndRun
  <2> QED
    BY <2>1 DEF StreamOK, AlterOK, Running, Altering, Flushing
<1>5. ASSUME GiveUp
      PROVE  StreamOK' /\ AlterOK'
  <2>1. pc' = "down" /\ started' = 0 /\ reached' = 0
    BY <1>5 DEF GiveUp, EndRun
  <2> QED
    BY <2>1 DEF StreamOK, AlterOK, Running, Altering, Flushing
<1>6. ASSUME Cancel
      PROVE  StreamOK' /\ AlterOK'
  <2>1. /\ UNCHANGED <<log, cursor, started, reached, again>>
        /\ Running' <=> Running
        /\ Altering' => Altering
    BY <1>0, <1>6 DEF Cancel, streamVars, handlerVars, Running, Altering,
        Flushing
  <2> QED
    BY <2>1, StreamSame
<1>7. ASSUME NEW i \in Index, TakeChunk(i)
      PROVE  StreamOK' /\ AlterOK'
  <2>1. /\ pc = "idle" /\ pc' \in {"idle", "flush"} /\ cursor' = cursor + 1
        /\ started' = started /\ reached' = reached
        /\ pc' = "flush" => then' # "ddl"
    BY <1>7 DEF TakeChunk, Take, Flush
  <2> QED
    BY <1>0, <2>1 DEF StreamOK, AlterOK, Running, Altering, Flushing
<1>8. ASSUME NEW i \in Index, TakeComplete(i)
      PROVE  StreamOK' /\ AlterOK'
  <2>1. /\ pc = "idle" /\ pc' \in {"idle", "flush"} /\ cursor' = cursor + 1
        /\ started' = started /\ reached' = reached
        /\ pc' = "flush" => then' # "ddl"
    BY <1>8 DEF TakeComplete, Take, Flush
  <2> QED
    BY <1>0, <2>1 DEF StreamOK, AlterOK, Running, Altering, Flushing
<1>9. ASSUME NEW i \in Index, TakeCheckpoint(i)
      PROVE  StreamOK' /\ AlterOK'
  <2>1. /\ pc = "idle" /\ pc' \in {"idle", "flush"} /\ cursor' = cursor + 1
        /\ started' = started /\ reached' = reached
        /\ pc' = "flush" => then' # "ddl"
    BY <1>9 DEF TakeCheckpoint, Take, handlerVars
  <2> QED
    BY <1>0, <2>1 DEF StreamOK, AlterOK, Running, Altering, Flushing
<1>10. ASSUME NEW i \in Index, TakeDDL(i)
       PROVE  StreamOK' /\ AlterOK'
  <2>1. /\ pc = "idle" /\ pc' = "flush" /\ cursor' = i /\ i = cursor + 1
        /\ started' = started /\ reached' = reached /\ Take(i)
    BY <1>10 DEF TakeDDL, Take, Flush
  <2>2. i <= reached =>
          \A t \in Targets, k \in Keys : k \in Decides(i, t) =>
            \A j \in 1..reached : k \in Decides(j, t) => j <= again'[t][k]
    BY <2>1, TakenAgain
  <2>3. StreamOK'
    BY <1>0, <2>1 DEF StreamOK, Running
  <2>4. AlterOK'
    BY <1>0, <2>1, <2>2 DEF AlterOK
  <2> QED
    BY <2>3, <2>4
<1>11. ASSUME NEW i \in Index, TakeRow(i)
       PROVE  StreamOK' /\ AlterOK'
  <2>1. /\ pc = "idle" /\ pc' \in {"idle", "flush"} /\ cursor' = cursor + 1
        /\ started' = started /\ reached' = reached
        /\ pc' = "flush" => then' # "ddl"
    BY <1>11 DEF TakeRow, Take, Flush
  <2> QED
    BY <1>0, <2>1 DEF StreamOK, AlterOK, Running, Altering, Flushing
<1>12. ASSUME Tick
       PROVE  StreamOK' /\ AlterOK'
  <2>1. /\ UNCHANGED <<log, cursor, started, reached, again>>
        /\ Running' <=> Running
        /\ Altering' => Altering
    BY <1>0, <1>12 DEF Tick, streamVars, Flush, Running, Altering, Flushing
  <2> QED
    BY <2>1, StreamSame
<1>13. ASSUME SourceCloses
       PROVE  StreamOK' /\ AlterOK'
  <2>1. /\ UNCHANGED <<log, cursor, started, reached, again>>
        /\ Running' <=> Running
        /\ Altering' => Altering
    BY <1>0, <1>13 DEF SourceCloses, streamVars, Flush, Running, Altering,
        Flushing
  <2> QED
    BY <2>1, StreamSame
<1>14. ASSUME NEW t \in Targets, SendBatch(t)
       PROVE  StreamOK' /\ AlterOK'
  <2>1. /\ UNCHANGED <<log, cursor, started, reached, again>>
        /\ Running' <=> Running
        /\ Altering' => Altering
    BY <1>0, <1>14 DEF SendBatch, streamVars, handlerVars, Running, Altering,
        Flushing
  <2> QED
    BY <2>1, StreamSame
<1>15. ASSUME SendPiece
       PROVE  StreamOK' /\ AlterOK'
  <2>1. /\ UNCHANGED <<log, cursor, started, reached, again>>
        /\ Running' <=> Running
        /\ Altering' => Altering
    BY <1>0, <1>15
       DEF SendPiece, streamVars, Running, Altering, Flushing, PlaceOK, Piecing
  <2> QED
    BY <2>1, StreamSame
<1>16. ASSUME LoadAnswered
       PROVE  StreamOK' /\ AlterOK'
  <2>1. /\ UNCHANGED <<log, cursor, started, reached, again>>
        /\ Running' <=> Running
        /\ Altering' => Altering
    BY <1>0, <1>16 DEF LoadAnswered, streamVars, Running, Altering, Flushing
  <2> QED
    BY <2>1, StreamSame
<1>17. ASSUME LoadLands
       PROVE  StreamOK' /\ AlterOK'
  <2>1. /\ UNCHANGED <<log, cursor, started, reached, again>>
        /\ Running' <=> Running
        /\ Altering' => Altering
    BY <1>0, <1>17 DEF LoadLands, streamVars, handlerVars, Running, Altering,
        Flushing
  <2> QED
    BY <2>1, StreamSame
<1>18. ASSUME LoadLost
       PROVE  StreamOK' /\ AlterOK'
  <2>1. /\ UNCHANGED <<log, cursor, started, reached, again>>
        /\ Running' <=> Running
        /\ Altering' => Altering
    BY <1>0, <1>18 DEF LoadLost, streamVars, handlerVars, Running, Altering,
        Flushing
  <2> QED
    BY <2>1, StreamSame
<1>19. ASSUME NEW l \in late, LateLands(l)
       PROVE  StreamOK' /\ AlterOK'
  <2>1. /\ UNCHANGED <<log, cursor, started, reached, again>>
        /\ Running' <=> Running
        /\ Altering' => Altering
    BY <1>0, <1>19 DEF LateLands, streamVars, handlerVars, Running, Altering,
        Flushing
  <2> QED
    BY <2>1, StreamSame
<1>20. ASSUME NEW l \in late, LateLost(l)
       PROVE  StreamOK' /\ AlterOK'
  <2>1. /\ UNCHANGED <<log, cursor, started, reached, again>>
        /\ Running' <=> Running
        /\ Altering' => Altering
    BY <1>0, <1>20 DEF LateLost, streamVars, handlerVars, Running, Altering,
        Flushing
  <2> QED
    BY <2>1, StreamSame
<1>21. ASSUME Resend
       PROVE  StreamOK' /\ AlterOK'
  <2>1. /\ UNCHANGED <<log, cursor, started, reached, again>>
        /\ Running' <=> Running
        /\ Altering' => Altering
    BY <1>0, <1>21 DEF Resend, streamVars, handlerVars, Running, Altering,
        Flushing
  <2> QED
    BY <2>1, StreamSame
<1>22. ASSUME CommitOffset
       PROVE  StreamOK' /\ AlterOK'
  <2>1. /\ UNCHANGED <<log, cursor, started, reached, again>>
        /\ pc \in {"flush", "chunk"} /\ pc' \notin {"down", "ensure"}
        /\ Altering' => Altering
    BY <1>0, <1>22
       DEF CommitOffset, streamVars, Continue, Altering, Flushing
  <2> QED
    BY <2>1, StreamSame DEF Running
<1>23. ASSUME FlushedForChunk
       PROVE  StreamOK' /\ AlterOK'
  <2>1. /\ UNCHANGED <<log, cursor, started, reached, again>>
        /\ Running' <=> Running
        /\ Altering' => Altering
    BY <1>0, <1>23 DEF FlushedForChunk, streamVars, Continue, Running,
        Altering, Flushing
  <2> QED
    BY <2>1, StreamSame
<1>24. ASSUME SaveProgress
       PROVE  StreamOK' /\ AlterOK'
  <2>1. /\ pc = "save" /\ pc' = "idle"
        /\ started' = started /\ reached' = reached
    BY <1>24 DEF SaveProgress
  <2>2. reached = 0
    BY <2>1, ChunkStream DEF PlaceOK, Running
  <2> QED
    BY <1>0, <2>1, <2>2 DEF StreamOK, AlterOK, Running, Altering, Flushing
<1>25. ASSUME Confirm
       PROVE  StreamOK' /\ AlterOK'
  <2>1. /\ UNCHANGED <<log, cursor, started, reached, again>>
        /\ Running' <=> Running
        /\ Altering' => Altering
    BY <1>0, <1>25 DEF Confirm, streamVars, handlerVars, Running, Altering,
        Flushing
  <2> QED
    BY <2>1, StreamSame
<1>26. ASSUME applyDDL
       PROVE  StreamOK' /\ AlterOK'
  <2>1. /\ UNCHANGED <<log, cursor, started, reached, again>>
        /\ Running' <=> Running
        /\ Altering' => Altering
    BY <1>0, <1>26 DEF applyDDL, streamVars, handlerVars, Running, Altering,
        Flushing
  <2> QED
    BY <2>1, StreamSame
<1>27. ASSUME SourceAlters
       PROVE  StreamOK' /\ AlterOK'
  <2>1. /\ UNCHANGED <<log, cursor, started, reached, again>>
        /\ Running' <=> Running
        /\ Altering' => Altering
    BY <1>0, <1>27 DEF SourceAlters, streamVars, handlerVars, Running,
        Altering, Flushing
  <2> QED
    BY <2>1, StreamSame
<1>28. ASSUME UNCHANGED vars
       PROVE  StreamOK' /\ AlterOK'
  <2>1. /\ UNCHANGED <<log, cursor, started, reached, again>>
        /\ Running' <=> Running
        /\ Altering' => Altering
    BY <1>0, <1>28 DEF vars, streamVars, handlerVars, Running, Altering,
        Flushing
  <2> QED
    BY <2>1, StreamSame
<1>29. ASSUME SourceReconnect
       PROVE  StreamOK' /\ AlterOK'
  <2>1. /\ pc = "idle" /\ pc' = "idle" /\ cursor' = started
        /\ started' = started
    BY <1>29 DEF SourceReconnect, handlerVars
  <2> QED
    BY <1>0, <2>1 DEF StreamOK, AlterOK, Running, Altering, Flushing
<1> QED
  BY <1>1, <1>2, <1>3, <1>4, <1>5, <1>6, <1>7, <1>8, <1>9, <1>10, <1>11,
     <1>12, <1>13, <1>14, <1>15, <1>16, <1>17, <1>18, <1>19, <1>20, <1>21,
     <1>22, <1>23, <1>24, <1>25, <1>26, <1>27, <1>28, <1>29
  DEF Next, RunStep

\* What Doris has and will have of what is done and saved.
DataOK == CellsOK /\ LateOK /\ StreamedOK /\ PassedOK /\ CoverOK

(* The next run resumes where it would have, if nothing is saved.          *)
LEMMA SameResume ==
  ASSUME log' = log, UNCHANGED metaVars
  PROVE  Resume' = Resume
BY SameLog DEF Resume, metaVars

(* A row that keeps what it has, or gets all the run has been handed of    *)
(* it, keeps up with a stream that gets no further with it.                *)
LEMMA HeldKeeps ==
  ASSUME TypeOK, StreamedOK, PassedOK, log' = log, Running' => Running, Grown,
         \A i \in Index :
           \/ \A t \in Targets : Decides(i, t) = {}
           \/ /\ Passed(i)' => Passed(i)
              /\ started' < i /\ i <= Done' => started < i /\ i <= Done,
         Running' =>
           \A t \in Targets, k \in Keys : Known(t, k)' =>
             /\ Held(t, k)' \in Nat
             /\ \/ Known(t, k) /\ Held(t, k) <= Held(t, k)'
                \/ \A i \in Index : Passed(i) => i <= Held(t, k)'
  PROVE  StreamedOK' /\ PassedOK'
<1>1. Index' = Index /\ \A i, t : Decides(i, t)' = Decides(i, t)
  BY SameLog
<1>2. \A i \in Index : i <= Done => Passed(i)
  BY DEF Passed
<1>3. ASSUME Running', NEW t \in Targets, NEW k \in Keys, Known(t, k)',
             NEW i \in Index, k \in Decides(i, t)
      PROVE  /\ Passed(i)' => i <= Held(t, k)' \/ i <= again'[t][k]
             /\ started' < i /\ i <= Done' => i <= Held(t, k)'
  <2>1. /\ Held(t, k) \in Nat /\ Held(t, k)' \in Nat /\ i \in Nat
        /\ again[t][k] \in Nat /\ again'[t][k] \in Nat
        /\ again[t][k] <= again'[t][k]
    BY <1>3, HeldFacts DEF Grown
  <2>2. /\ Passed(i)' => Passed(i)
        /\ started' < i /\ i <= Done' => started < i /\ i <= Done /\ Passed(i)
    BY <1>2, <1>3
  <2>3. CASE Known(t, k) /\ Held(t, k) <= Held(t, k)'
    <3>1. /\ Passed(i) => i <= Held(t, k) \/ i <= again[t][k]
          /\ started < i /\ i <= Done => i <= Held(t, k)
      BY <1>3, <2>3 DEF PassedOK, StreamedOK
    <3> QED
      BY <2>1, <2>2, <2>3, <3>1
  <2>4. CASE \A j \in Index : Passed(j) => j <= Held(t, k)'
    BY <2>2, <2>4
  <2> QED
    BY <1>3, <2>3, <2>4
<1>4. StreamedOK'
  BY <1>1, <1>3 DEF StreamedOK
<1>5. PassedOK'
  BY <1>1, <1>3 DEF PassedOK
<1> QED
  BY <1>4, <1>5

\* A step that writes nothing, saves nothing and buffers nothing.  What it has
\* done more decides no row.
Quiet ==
  /\ UNCHANGED <<log, metaVars, table, stale, late, run, batches, started,
                 reached>>
  /\ pc' = "down" <=> pc = "down"
  /\ Running' <=> Running
  /\ Done' \in Done..Len(log)
  /\ \A i \in (Done + 1)..Done' : \A t \in Targets : Decides(i, t) = {}
  /\ Grown

(* A quiet step leaves what Doris has and what is buffered as it was.      *)
LEMMA QuietKeeps ==
  ASSUME TypeOK, PlaceOK, Quiet, DataOK
  PROVE  DataOK'
<1>1. /\ log' = log /\ Index' = Index /\ Resume' = Resume
      /\ table' = table /\ stale' = stale /\ late' = late /\ run' = run
      /\ batches' = batches /\ started' = started /\ reached' = reached
      /\ Grown
      /\ \A i, t : Decides(i, t)' = Decides(i, t)
      /\ \A t, k : Waiting(t, k)' = Waiting(t, k)
  BY SameLog, SameResume, SameWaiting DEF Quiet
<1>2. \A t \in Targets, k \in Keys :
        /\ Held(t, k)' = Held(t, k) /\ Held(t, k) \in Nat
        /\ Known(t, k)' <=> Known(t, k)
  <2>1. \A t \in Targets, k \in Keys : Held(t, k) \in Nat
    BY HeldFacts
  <2> QED
    BY <1>1, <2>1 DEF Held, Known
<1>3. \A i \in Index :
        \/ \A t \in Targets : Decides(i, t) = {}
        \/ (Passed(i)' => Passed(i)) /\ (i <= Done' => i <= Done)
  <2>1. /\ Done \in Nat /\ Done' \in Nat /\ Done <= Done'
        /\ \A i \in (Done + 1)..Done' : \A t \in Targets : Decides(i, t) = {}
        /\ Index = 1..Len(log) /\ Len(log) \in Nat
    BY DoneFacts DEF Quiet
  <2>2. \A i \in Index : i <= Done' => i <= Done \/ i \in (Done + 1)..Done'
    BY <2>1
  <2> QED
    BY <1>1, <2>1, <2>2 DEF Passed
<1>4. StreamedOK' /\ PassedOK'
  BY <1>1, <1>2, <1>3, HeldKeeps DEF Quiet, DataOK
<1>5. CellsOK'
  BY <1>1 DEF DataOK, CellsOK
<1>6. \A t \in Targets, k \in Keys, i \in Index :
        i <= again[t][k] => i <= again'[t][k]
  BY <1>1, HeldFacts DEF Grown
<1>7. 1..Resume \subseteq Index
  BY DoneFacts
<1>8. LateOK'
  <2>1. \A l \in late : l.target \in Targets
    BY DEF TypeOK, LoadRecord
  <2> QED
    BY <1>1, <1>6, <1>7, <2>1 DEF DataOK, LateOK, LoadCells, Quiet
<1>9. CoverOK'
  BY <1>1, <1>6, <1>7 DEF DataOK, CoverOK
<1> QED
  BY <1>4, <1>5, <1>8, <1>9 DEF DataOK

(* A run that starts makes the loads of all earlier ones old.              *)
LEMMA StartRunData ==
  ASSUME TypeOK, PlaceOK, BufferedOK, DataOK, StartRun
  PROVE  DataOK'
<1>1. /\ UNCHANGED <<log, metaVars, dorisVars, batches, again>> /\ run' = run + 1
      /\ pc = "down" /\ pc' = "ensure" /\ ~Running'
      /\ run \in Nat
  BY DEF StartRun, streamVars, bufferVars, Running, TypeOK
<1>2. /\ Resume' = Resume /\ Index' = Index
      /\ \A i, t : Decides(i, t)' = Decides(i, t)
  BY <1>1, SameLog, SameResume
<1>3. LateOK'
  <2>0. \A l \in late : l.run \in Nat
    BY DEF TypeOK, LoadRecord
  <2>1. \A l \in late : l.run <= run /\ LoadCells(l)'
    BY <1>2 DEF DataOK, LateOK, LoadCells
  <2>2. \A l \in late : l.run <= run' /\ l.run # run'
    BY <1>1, <2>0, <2>1
  <2> QED
    BY <1>1, <2>1, <2>2 DEF LateOK, dorisVars
<1>4. StreamedOK' /\ PassedOK'
  BY <1>1 DEF StreamedOK, PassedOK
<1>5. CellsOK' /\ CoverOK'
  BY <1>1, <1>2 DEF DataOK, CellsOK, CoverOK, dorisVars
<1> QED
  BY <1>3, <1>4, <1>5 DEF DataOK

(* A run that has ensured the tables begins where the last one has saved.  *)
LEMMA EnsureTablesData ==
  ASSUME TypeOK, PlaceOK, BufferedOK, StreamOK, DataOK, EnsureTables
  PROVE  DataOK'
<1>1. /\ UNCHANGED <<log, metaVars, table, stale, late, run, batches, again>>
      /\ reached' = reached /\ started' = Max({Resume, CompleteAt})
      /\ pc = "ensure" /\ pc' = "idle" /\ ~Running /\ cursor' = Resume
      /\ Buffered = {}
  BY DEF EnsureTables, Running, BufferedOK
<1>2. /\ Resume' = Resume /\ Index' = Index
      /\ \A i, t : Decides(i, t)' = Decides(i, t)
      /\ \A t, k : Waiting(t, k)' = Waiting(t, k)
  BY <1>1, SameLog, SameResume, SameWaiting
<1>3. Done' = Resume /\ reached' = 0 /\ started' >= Resume /\ started' \in Nat
      /\ Resume \in Nat /\ Index = 1..Len(log) /\ Len(log) \in Nat
  <2>1. Done' = Resume
    BY <1>1 DEF Done, InHand, Chunking, Altering, Piecing, Flushing
  <2> QED
    BY <1>1, <2>1, DoneFacts, MaxOfTwo DEF StreamOK
<1>4. StreamedOK'
  BY <1>2, <1>3 DEF StreamedOK
<1>5. PassedOK'
  <2> SUFFICES ASSUME NEW t \in Targets, NEW k \in Keys, Known(t, k)',
                      NEW i \in Index, Passed(i)', k \in Decides(i, t)
               PROVE  i <= Held(t, k)' \/ i <= again'[t][k]
    BY <1>2 DEF PassedOK
  <2>1. Waiting(t, k) = 0
    BY <1>1, HeldFacts DEF Buffered
  <2>2. <<t, k>> \notin stale /\ Held(t, k)' = table[t][k]
    BY <1>1, <1>2, <2>1 DEF Known, Held
  <2>3. i \in 1..Resume
    BY <1>3 DEF Passed
  <2> QED
    BY <1>1, <2>2, <2>3 DEF DataOK, CoverOK
<1>6. LateOK'
  <2>1. \A l \in late : l.run # run
    BY <1>1 DEF DataOK, LateOK
  <2> QED
    BY <1>1, <1>2, <2>1 DEF DataOK, LateOK, LoadCells
<1>7. CellsOK' /\ CoverOK'
  BY <1>1, <1>2 DEF DataOK, CellsOK, CoverOK
<1> QED
  BY <1>4, <1>5, <1>6, <1>7 DEF DataOK

(* What a run has sent or is about to send leaves no row behind the        *)
(* checkpoint, other than those that have been delivered again.            *)
LEMMA SentCells ==
  ASSUME TypeOK, PlaceOK, StreamOK, OffsetsOK, LoadOK, DataOK
  PROVE  /\ \A t \in Targets, k \in Keys :
              prepareBatch(batches[t], t)[k] # 0 =>
                /\ prepareBatch(batches[t], t)[k] \in Index
                /\ k \in Decides(prepareBatch(batches[t], t)[k], t)
                /\ Running => \A i \in 1..Resume : k \in Decides(i, t) =>
                     i <= prepareBatch(batches[t], t)[k] \/ i <= again[t][k]
         /\ load.state = "inflight" =>
              /\ LoadCells(load) /\ load.run = run
              /\ \A k \in Keys : load.rows[k] # 0 =>
                   \A i \in 1..Resume : k \in Decides(i, load.target) =>
                     i <= load.rows[k] \/ i <= again[load.target][k]
<1>0. /\ Len(log) \in Nat /\ Index = 1..Len(log) /\ Resume \in 0..Len(log)
      /\ cursor \in Nat /\ Done \in Nat /\ reached \in Nat
  <2>1. reached \in 0..Len(log)
    BY DEF TypeOK
  <2> QED
    BY <2>1, DoneFacts
<1>1. ASSUME NEW t \in Targets, NEW k \in Keys,
             prepareBatch(batches[t], t)[k] # 0
      PROVE  /\ prepareBatch(batches[t], t)[k] \in Index
             /\ k \in Decides(prepareBatch(batches[t], t)[k], t)
             /\ Running => \A i \in 1..Resume : k \in Decides(i, t) =>
                  i <= prepareBatch(batches[t], t)[k] \/ i <= again[t][k]
  <2>1. Waiting(t, k) = prepareBatch(batches[t], t)[k]
    BY DEF Waiting
  <2>2. /\ Waiting(t, k) # 0 /\ Waiting(t, k) \in Index
        /\ k \in Decides(Waiting(t, k), t)
        /\ Known(t, k) /\ Held(t, k) = Waiting(t, k)
    BY <1>1, <2>1, HeldFacts DEF Known, Held
  <2>3. ASSUME Running, NEW i \in 1..Resume, k \in Decides(i, t)
        PROVE  i <= Waiting(t, k) \/ i <= again[t][k]
    <3>1. i \in Index /\ Passed(i)
      BY <1>0, <2>3 DEF OffsetsOK, Passed
    <3> QED
      BY <2>2, <2>3, <3>1 DEF DataOK, PassedOK
  <2> QED
    BY <2>1, <2>2, <2>3
<1>2. ASSUME load.state = "inflight"
      PROVE  /\ LoadCells(load) /\ load.run = run
             /\ \A k \in Keys : load.rows[k] # 0 =>
                  \A i \in 1..Resume : k \in Decides(i, load.target) =>
                    i <= load.rows[k] \/ i <= again[load.target][k]
  <2>1. pc = "call" /\ load.run = run /\ Running /\ load.target \in Targets
    BY <1>2 DEF LoadOK, Running, TypeOK, LoadRecord
  <2>2. CASE todo # {}
    <3>1. load.rows = prepareBatch(batches[load.target], load.target)
      BY <2>1, <2>2 DEF LoadOK
    <3> QED
      BY <1>1, <2>1, <3>1 DEF LoadCells
  <2>3. CASE todo = {}
    <3>1. /\ load.target = log[cursor].target /\ Chunking /\ InHand
          /\ \A k \in Keys : load.rows[k] # 0 =>
               load.rows[k] = cursor /\ k \in Range(log[cursor].keys)
      BY <2>1, <2>3 DEF LoadOK, Chunking, Piecing, InHand
    <3>2. cursor \in Index /\ log[cursor].kind = "chunk"
          /\ Decides(cursor, load.target) = Range(log[cursor].keys)
      BY <2>1, <3>1, DecidesFacts DEF PlaceOK, TypeOK
    <3>3. Resume <= cursor
      <4>1. reached = 0
        BY <2>1, <3>2, ChunkStream
      <4>2. Done = cursor - 1
        BY <3>1 DEF Done
      <4> QED
        BY <1>0, <2>1, <4>1, <4>2 DEF OffsetsOK, Passed
    <3> QED
      BY <1>0, <2>1, <3>1, <3>2, <3>3 DEF LoadCells
  <2> QED
    BY <2>2, <2>3
<1> QED
  BY <1>1, <1>2

(* What a run leaves behind when it ends leaves no other row behind the    *)
(* checkpoint.                                                             *)
LEMMA EndRunData ==
  ASSUME TypeOK, PlaceOK, StreamOK, OffsetsOK, LoadOK, DataOK, pc # "down",
         NEW left,
         left \subseteq {LoadOf(t, prepareBatch(batches[t], t)) : t \in Buffered}
                          \cup InFlight,
         left # {} => Running,
         EndRun(left),
         UNCHANGED <<log, metaVars, table, stale, run>>
  PROVE  DataOK'
<1>1. /\ late' = late \cup left /\ pc' = "down" /\ ~Running' /\ again' = again
  BY DEF EndRun, Running
<1>2. /\ Resume' = Resume /\ Index' = Index
      /\ \A i, t : Decides(i, t)' = Decides(i, t)
  BY SameLog, SameResume
<1>3. StreamedOK' /\ PassedOK'
  BY <1>1 DEF StreamedOK, PassedOK
<1>4. CellsOK' /\ CoverOK'
  BY <1>1, <1>2 DEF DataOK, CellsOK, CoverOK
<1>5. \A l \in left :
        /\ LoadCells(l) /\ l.run = run
        /\ \A k \in Keys : l.rows[k] # 0 =>
             \A i \in 1..Resume : k \in Decides(i, l.target) =>
               i <= l.rows[k] \/ i <= again[l.target][k]
  <2> SUFFICES ASSUME NEW l \in left
               PROVE  /\ LoadCells(l) /\ l.run = run
                      /\ \A k \in Keys : l.rows[k] # 0 =>
                           \A i \in 1..Resume : k \in Decides(i, l.target) =>
                             i <= l.rows[k] \/ i <= again[l.target][k]
    OBVIOUS
  <2>1. CASE \E t \in Targets : l = LoadOf(t, prepareBatch(batches[t], t))
    <3>1. PICK t \in Targets : l = LoadOf(t, prepareBatch(batches[t], t))
      BY <2>1
    <3>2. l.target = t /\ l.run = run /\ l.rows = prepareBatch(batches[t], t)
      BY <3>1 DEF LoadOf
    <3>3. Running
      OBVIOUS
    <3> QED
      BY <3>2, <3>3, SentCells DEF LoadCells
  <2>2. CASE l \in InFlight
    BY <2>2, SentCells DEF InFlight
  <2> QED
    BY <2>1, <2>2 DEF Buffered
<1>6. LateOK'
  <2>1. \A l \in late : LoadCells(l) /\ l.run <= run /\ l.run # run
    BY DEF DataOK, LateOK
  <2>2. \A l : LoadCells(l)' <=> LoadCells(l)
    BY <1>2 DEF LoadCells
  <2>3. run \in Nat
    BY DEF TypeOK
  <2> QED
    BY <1>1, <1>2, <1>5, <2>1, <2>2, <2>3 DEF LateOK
<1> QED
  BY <1>3, <1>4, <1>6 DEF DataOK

(* A row that is taken waits behind the others of its table.               *)
LEMMA TakeRowData ==
  ASSUME TypeOK, PlaceOK, StreamOK, OffsetsOK, DataOK, NEW i \in Index, TakeRow(i)
  PROVE  DataOK'
<1> DEFINE t == log[i].target
<1>1. /\ UNCHANGED <<log, metaVars, table, stale, late, run, started, reached>>
      /\ pc = "idle" /\ cursor' = i /\ i = cursor + 1 /\ Take(i)
      /\ pc' = "idle" \/ (pc' = "flush" /\ then' = "none")
      /\ log[i].kind \in {"put", "delete"} /\ t \in Targets
      /\ batches' = [batches EXCEPT ![t] = Append(@, i)]
  <2>1. log[i].kind \in {"put", "delete"}
    BY DEF TakeRow
  <2>2. t \in Targets
    BY <2>1, LogFacts DEF TypeOK, Event
  <2> QED
    BY <2>1, <2>2 DEF TakeRow, Take, Flush, dorisVars
<1>2. /\ Resume' = Resume /\ Index' = Index
      /\ \A j, s : Decides(j, s)' = Decides(j, s)
  BY <1>1, SameLog, SameResume
<1>3. Done = cursor /\ Done' = i /\ Running /\ Running' /\ cursor \in Nat
  <2>1. Done = cursor /\ Done' = cursor' /\ Running /\ Running'
    BY <1>1 DEF Done, InHand, Chunking, Altering, Piecing, Flushing, Running
  <2> QED
    BY <1>1, <2>1, DoneFacts
<1>4. /\ Grown
      /\ i <= reached =>
           \A s \in Targets, k \in Keys : k \in Decides(i, s) =>
             \A j \in 1..reached : k \in Decides(j, s) => j <= again'[s][k]
  BY <1>1, TakenAgain
<1>5. ASSUME NEW s \in Targets, NEW k \in Keys
      PROVE  /\ Waiting(s, k)' = IF k \in Decides(i, s) THEN i ELSE Waiting(s, k)
             /\ Held(s, k) \in Nat /\ Waiting(s, k) \in Nat /\ again[s][k] \in Nat
             /\ table[s][k] \in Nat
  <2>1. /\ Held(s, k) \in Nat /\ Waiting(s, k) \in Nat /\ again[s][k] \in Nat
        /\ table[s][k] \in Nat
    BY HeldFacts
  <2>3. Waiting(s, k)' = prepareBatch(batches'[s], s)[k]
    BY <1>1, NewWaiting
  <2>4. CASE s = t
    <3>1. batches'[s] = Append(batches[s], i) /\ batches[s] \in Seq(Index)
          /\ log \in Logs
      BY <1>1, <2>4 DEF TypeOK
    <3> QED
      BY <2>1, <2>3, <3>1, Appended DEF Waiting
  <2>5. CASE s # t
    <3>1. batches'[s] = batches[s]
      BY <1>1, <2>5 DEF TypeOK
    <3>2. Decides(i, s) = {}
      BY <2>5, DecidesFacts DEF TypeOK
    <3> QED
      BY <2>1, <2>3, <3>1, <3>2 DEF Waiting
  <2> QED
    BY <2>4, <2>5
<1> HIDE DEF t
<1>6. ASSUME NEW s \in Targets, NEW k \in Keys, Known(s, k)',
             NEW j \in Index, k \in Decides(j, s)
      PROVE  /\ started < j /\ j <= i => j <= Held(s, k)'
             /\ j <= i \/ j <= reached => j <= Held(s, k)' \/ j <= again'[s][k]
  <2>1. i \in Nat /\ j \in Nat /\ j >= 1 /\ i # 0 /\ reached \in Nat
    BY <1>1, <1>3, <1>6, LogFacts DEF TypeOK
  <2>2. CASE k \in Decides(i, s)
    <3>1. Held(s, k)' = i
      BY <1>1, <1>5, <2>1, <2>2 DEF Held
    <3>2. j <= reached /\ ~(j <= i) => j <= again'[s][k]
      <4> SUFFICES ASSUME j <= reached, ~(j <= i)
                   PROVE  j <= again'[s][k]
        OBVIOUS
      <4>1. i <= reached /\ j \in 1..reached
        BY <2>1
      <4> QED
        BY <1>4, <1>6, <2>2, <4>1
    <3> QED
      BY <2>1, <3>1, <3>2
  <2>3. CASE k \notin Decides(i, s)
    <3>1. Known(s, k) /\ Held(s, k)' = Held(s, k) /\ j # i
      BY <1>1, <1>5, <1>6, <2>3 DEF Held, Known
    <3>2. j <= i => j <= Done
      BY <1>1, <1>3, <2>1, <3>1
    <3>3. started < j /\ j <= i => j <= Held(s, k)
      BY <1>3, <1>6, <3>1, <3>2 DEF DataOK, StreamedOK
    <3>4. j <= i \/ j <= reached => j <= Held(s, k) \/ j <= again[s][k]
      BY <1>3, <1>6, <3>1, <3>2 DEF DataOK, PassedOK, Passed
    <3>5. j <= again[s][k] => j <= again'[s][k]
      BY <1>4, <1>5, <2>1 DEF Grown
    <3> QED
      BY <3>1, <3>3, <3>4, <3>5
  <2> QED
    BY <2>2, <2>3
<1>7. StreamedOK'
  BY <1>1, <1>2, <1>3, <1>6 DEF StreamedOK
<1>8. PassedOK'
  BY <1>1, <1>2, <1>3, <1>6 DEF PassedOK, Passed
<1>9. \A s \in Targets, k \in Keys, j \in Index :
        j <= again[s][k] => j <= again'[s][k]
  BY <1>4, HeldFacts DEF Grown
<1>10. 1..Resume \subseteq Index
  BY DoneFacts
<1>11. CellsOK' /\ CoverOK'
  BY <1>1, <1>2, <1>9, <1>10 DEF DataOK, CellsOK, CoverOK
<1>12. LateOK'
  <2>1. \A l \in late : l.run # run
    BY <1>1 DEF DataOK, LateOK
  <2> QED
    BY <1>1, <1>2, <2>1 DEF DataOK, LateOK, LoadCells
<1> QED
  BY <1>7, <1>8, <1>11, <1>12 DEF DataOK

(* A batch is cleared when its load has landed.                            *)
LEMMA LoadAnsweredData ==
  ASSUME TypeOK, PlaceOK, BufferedOK, LoadOK, DataOK, LoadAnswered
  PROVE  DataOK'
<1>1. /\ UNCHANGED <<log, metaVars, table, stale, late, run, started, reached,
                     again, cursor, then>>
      /\ pc = "call" /\ pc' \in {"chunk", "flush"} /\ load.state = "landed"
  BY DEF LoadAnswered, streamVars, LabelDone, dorisVars
<1>2. /\ Resume' = Resume /\ Index' = Index
      /\ \A j, s : Decides(j, s)' = Decides(j, s)
  BY <1>1, SameLog, SameResume
<1>3. Done' = Done
  <2>1. CASE todo = {}
    BY <1>1, <2>1 DEF LoadAnswered, Done, InHand, Chunking, Piecing
  <2>2. CASE todo # {}
    BY <1>1, <2>2 DEF LoadAnswered, Done, InHand, Chunking, Piecing, Altering,
       Flushing
  <2> QED
    BY <2>1, <2>2
<1>4. Running /\ Running' /\ Grown
  BY <1>1, HeldFacts DEF Running, Grown
<1>5. \A s \in Targets, k \in Keys :
        /\ Held(s, k) \in Nat /\ Waiting(s, k) \in Nat /\ table[s][k] \in Nat
        /\ batches[s] = <<>> => Waiting(s, k) = 0
  BY HeldFacts
<1>6. ASSUME NEW s \in Targets, NEW k \in Keys, Known(s, k)'
      PROVE  /\ Held(s, k)' \in Nat
             /\ Known(s, k) /\ Held(s, k) <= Held(s, k)'
  <2>2. Waiting(s, k)' = prepareBatch(batches'[s], s)[k]
    BY <1>1, NewWaiting
  <2>3. CASE todo = {} \/ s # load.target
    <3>1. batches'[s] = batches[s]
      BY <2>3 DEF LoadAnswered, TypeOK
    <3>2. Waiting(s, k)' = Waiting(s, k)
      BY <2>2, <3>1 DEF Waiting
    <3> QED
      BY <1>1, <1>5, <1>6, <3>2 DEF Known, Held
  <2>4. CASE todo # {} /\ s = load.target
    <3>1. load.rows = prepareBatch(batches[s], s)
      BY <1>1, <2>4 DEF LoadOK
    <3>2. batches'[s] = <<>>
      BY <2>4 DEF LoadAnswered, TypeOK
    <3>3. prepareBatch(<<>>, s)[k] = 0
      <4>1. <<>> \in Seq(Index) /\ log \in Logs
        BY DEF TypeOK
      <4> QED
        BY <4>1, BatchFacts
    <3>4. <<s, k>> \notin stale /\ Held(s, k)' = table[s][k]
      BY <1>1, <1>6, <2>2, <3>2, <3>3 DEF Known, Held
    <3>5. Waiting(s, k) # 0 => table[s][k] >= Waiting(s, k)
      BY <1>1, <2>4, <3>1, <3>4 DEF LoadOK, Waiting
    <3> QED
      BY <1>5, <3>4, <3>5 DEF Known, Held
  <2> QED
    BY <2>3, <2>4
<1>7. StreamedOK' /\ PassedOK'
  BY <1>1, <1>3, <1>4, <1>6, HeldKeeps DEF DataOK, Passed
<1>8. CellsOK' /\ CoverOK'
  BY <1>1, <1>2 DEF DataOK, CellsOK, CoverOK
<1>9. LateOK'
  <2>1. \A l \in late : l.run # run
    BY <1>1 DEF DataOK, LateOK
  <2> QED
    BY <1>1, <1>2, <2>1 DEF DataOK, LateOK, LoadCells
<1> QED
  BY <1>7, <1>8, <1>9 DEF DataOK

(* What a load that lands changes.                                         *)
LEMMA ApplyFacts ==
  ASSUME TypeOK, NEW l \in LoadRecord, Apply(l)
  PROVE  /\ \A t \in Targets, k \in Keys :
              table'[t][k] = IF t = l.target /\ l.rows[k] # 0 THEN l.rows[k]
                             ELSE table[t][k]
         /\ \A t \in Targets, k \in Keys : <<t, k>> \notin stale' =>
              IF t = l.target /\ l.rows[k] # 0
              THEN l.run < run => <<t, k>> \notin stale /\ ~(l.rows[k] < table[t][k])
              ELSE <<t, k>> \notin stale
<1> DEFINE written == {k \in Keys : l.rows[k] # 0}
           back == {k \in written : l.run < run /\ l.rows[k] < table[l.target][k]}
<1>1. l.target \in Targets /\ l.run \in Int /\ run \in Int
  BY DEF LoadRecord, TypeOK
<1>2. table' = [table EXCEPT ![l.target] =
                  [k \in Keys |-> IF l.rows[k] = 0 THEN @[k] ELSE l.rows[k]]]
      /\ stale' = (stale \ {<<l.target, k>> : k \in {j \in written : l.run = run}})
                    \cup ({l.target} \X back)
  BY DEF Apply
<1>3. \A t \in Targets, k \in Keys :
        table'[t][k] = IF t = l.target /\ l.rows[k] # 0 THEN l.rows[k]
                       ELSE table[t][k]
  BY <1>1, <1>2 DEF TypeOK
<1>4. ASSUME NEW t \in Targets, NEW k \in Keys, <<t, k>> \notin stale'
      PROVE  IF t = l.target /\ l.rows[k] # 0
             THEN l.run < run => <<t, k>> \notin stale /\ ~(l.rows[k] < table[t][k])
             ELSE <<t, k>> \notin stale
  <2>1. <<t, k>> \in stale => t = l.target /\ k \in written /\ l.run = run
    BY <1>2, <1>4
  <2>2. t = l.target => k \notin back
    BY <1>2, <1>4
  <2> QED
    BY <1>1, <2>1, <2>2
<1> QED
  BY <1>3, <1>4

(* A load of the run brings the rows of a table forward, or puts a row     *)
(* that an old load has set back in place again.                           *)
LEMMA LoadLandsData ==
  ASSUME TypeOK, PlaceOK, BufferedOK, StreamOK, OffsetsOK, LoadOK, DataOK,
         LoadLands
  PROVE  DataOK'
<1> DEFINE t == load.target
<1>1. /\ UNCHANGED <<log, metaVars, late, run, pc, cursor, started, reached, again,
                     batches, todo, then>>
      /\ load.state = "inflight" /\ Apply(load) /\ load \in LoadRecord
      /\ t \in Targets
  BY DEF LoadLands, streamVars, bufferVars, handlerVars, TypeOK, LoadRecord
<1>2. pc = "call" /\ load.run = run /\ Running /\ Running' /\ Done' = Done
  BY <1>1
     DEF LoadOK, Running, Done, InHand, Chunking, Piecing, Altering, Flushing
<1>3. /\ Resume' = Resume /\ Index' = Index
      /\ \A j, s : Decides(j, s)' = Decides(j, s)
      /\ \A s, k : Waiting(s, k)' = Waiting(s, k)
  BY <1>1, SameLog, SameResume, SameWaiting
<1>4. \A s \in Targets, k \in Keys :
        Held(s, k) \in Nat /\ table[s][k] \in Nat /\ Waiting(s, k) \in Nat
  BY HeldFacts
<1>5. /\ \A s \in Targets, k \in Keys :
           table'[s][k] = IF s = t /\ load.rows[k] # 0 THEN load.rows[k]
                          ELSE table[s][k]
      /\ \A s \in Targets, k \in Keys :
           ~(s = t /\ load.rows[k] # 0) /\ <<s, k>> \notin stale' =>
             <<s, k>> \notin stale
  BY <1>1, ApplyFacts
<1>6. /\ \A k \in Keys : load.rows[k] # 0 =>
           load.rows[k] \in Index /\ k \in Decides(load.rows[k], t)
      /\ \A k \in Keys : load.rows[k] # 0 =>
           \A i \in 1..Resume : k \in Decides(i, t) =>
             i <= load.rows[k] \/ i <= again[t][k]
  BY <1>1, SentCells DEF LoadCells
<1> HIDE DEF t
<1>7. ASSUME NEW s \in Targets, NEW k \in Keys, Known(s, k)'
      PROVE  /\ Held(s, k)' \in Nat
             /\ \/ Known(s, k) /\ Held(s, k) <= Held(s, k)'
                \/ \A i \in Index : Passed(i) => i <= Held(s, k)'
  <2>1. CASE ~(s = t /\ load.rows[k] # 0)
    BY <1>3, <1>4, <1>5, <1>7, <2>1 DEF Known, Held
  <2>2. CASE s = t /\ load.rows[k] # 0 /\ todo # {}
    <3>1. load.rows[k] = Waiting(s, k)
      BY <1>2, <2>2 DEF LoadOK, Waiting, t
    <3> QED
      BY <1>3, <1>4, <2>2, <3>1 DEF Known, Held
  <2>3. CASE s = t /\ load.rows[k] # 0 /\ todo = {}
    <3>1. /\ Piecing /\ Chunking /\ InHand /\ load.rows[k] = cursor
          /\ batches[s] = <<>>
      BY <1>2, <2>3
         DEF LoadOK, Chunking, Piecing, InHand, BufferedOK, Buffered
    <3>2. cursor \in Index /\ log[cursor].kind = "chunk" /\ Done = cursor - 1
      BY <3>1 DEF PlaceOK, Done
    <3>3. reached = 0 /\ Index \subseteq Nat \ {0}
      <4>1. reached = 0
        BY <1>2, <3>2, ChunkStream
      <4> QED
        BY <4>1, DoneFacts
    <3>4. Held(s, k)' = cursor
      BY <1>3, <1>5, <2>3, <3>1, HeldFacts DEF Held
    <3>5. \A i \in Index : Passed(i) => i <= cursor
      BY <3>2, <3>3 DEF Passed
    <3> QED
      BY <3>2, <3>3, <3>4, <3>5
  <2> QED
    BY <2>1, <2>2, <2>3
<1>8. StreamedOK' /\ PassedOK'
  <2>1. Grown
    BY <1>1, HeldFacts DEF Grown
  <2> QED
    BY <1>1, <1>2, <1>7, <2>1, HeldKeeps DEF DataOK, Passed
<1>9. LateOK'
  BY <1>1, <1>2, <1>3 DEF DataOK, LateOK, LoadCells
<1>10. CellsOK'
  BY <1>3, <1>5, <1>6 DEF DataOK, CellsOK
<1>11. CoverOK'
  BY <1>1, <1>3, <1>5, <1>6 DEF DataOK, CoverOK
<1> QED
  BY <1>8, <1>9, <1>10, <1>11 DEF DataOK

(* A load of an ended run either is not behind the checkpoint, or what it  *)
(* sets back is marked.                                                    *)
LEMMA LateLandsData ==
  ASSUME TypeOK, PlaceOK, DataOK, NEW l \in late, LateLands(l)
  PROVE  DataOK'
<1> DEFINE t == l.target
<1>1. /\ UNCHANGED <<log, metaVars, run, pc, cursor, started, reached, again,
                     batches, todo, then>>
      /\ late' = late \ {l} /\ Apply(l) /\ l \in LoadRecord
      /\ t \in Targets /\ l.run \in Nat /\ run \in Nat
  <2>1. /\ UNCHANGED <<log, metaVars, run, pc, cursor, started, reached, again,
                       batches, todo, then>>
        /\ late' = late \ {l} /\ Apply(l)
    BY DEF LateLands, streamVars, bufferVars, handlerVars
  <2> QED
    BY <2>1, LateFacts
<1>2. (Running' <=> Running) /\ Done' = Done
  BY <1>1 DEF Running, Done, InHand, Chunking, Piecing, Altering, Flushing
<1>3. /\ Resume' = Resume /\ Index' = Index
      /\ \A j, s : Decides(j, s)' = Decides(j, s)
      /\ \A s, k : Waiting(s, k)' = Waiting(s, k)
  BY <1>1, SameLog, SameResume, SameWaiting
<1>4. \A s \in Targets, k \in Keys :
        /\ Held(s, k) \in Nat /\ table[s][k] \in Nat /\ Waiting(s, k) \in Nat
        /\ again[s][k] \in Nat
  BY HeldFacts
<1>5. /\ \A k \in Keys : l.rows[k] # 0 =>
           l.rows[k] \in Index /\ k \in Decides(l.rows[k], t)
      /\ l.run < run \/ (l.run = run /\ ~Running)
      /\ l.run = run =>
           \A k \in Keys : l.rows[k] # 0 =>
             \A i \in 1..Resume : k \in Decides(i, t) =>
               i <= l.rows[k] \/ i <= again[t][k]
  BY <1>1 DEF DataOK, LateOK, LoadCells, Running
<1>6. \A s \in Targets, k \in Keys :
        /\ table'[s][k] = IF s = t /\ l.rows[k] # 0 THEN l.rows[k] ELSE table[s][k]
        /\ <<s, k>> \notin stale' =>
             IF s = t /\ l.rows[k] # 0
             THEN l.run < run => <<s, k>> \notin stale /\ ~(l.rows[k] < table[s][k])
             ELSE <<s, k>> \notin stale
  BY <1>1, ApplyFacts
<1>7. Index \subseteq Nat /\ 1..Resume \subseteq Index
  BY DoneFacts
<1> HIDE DEF t
<1>8. ASSUME NEW s \in Targets, NEW k \in Keys, l.run < run, <<s, k>> \notin stale'
      PROVE  /\ <<s, k>> \notin stale
             /\ table'[s][k] \in Nat /\ table[s][k] <= table'[s][k]
  <2>1. CASE s = t /\ l.rows[k] # 0
    <3>1. l.rows[k] \in Nat /\ table[s][k] \in Nat
      BY <1>4, <1>5, <1>7, <2>1
    <3>2. <<s, k>> \notin stale /\ ~(l.rows[k] < table[s][k])
      BY <1>6, <1>8, <2>1
    <3>3. table'[s][k] = l.rows[k]
      BY <1>6, <2>1
    <3> QED
      BY <3>1, <3>2, <3>3
  <2>2. CASE ~(s = t /\ l.rows[k] # 0)
    BY <1>4, <1>6, <1>8, <2>2
  <2> QED
    BY <2>1, <2>2
<1>9. ASSUME NEW s \in Targets, NEW k \in Keys
      PROVE  table'[s][k] \in Nat
  BY <1>4, <1>5, <1>6, <1>7
<1>10. StreamedOK' /\ PassedOK'
  <2>1. Grown
    BY <1>1, HeldFacts DEF Grown
  <2>2. ASSUME Running, NEW s \in Targets, NEW k \in Keys, Known(s, k)'
        PROVE  Held(s, k)' \in Nat /\ Known(s, k) /\ Held(s, k) <= Held(s, k)'
    <3>1. l.run < run
      BY <1>5, <2>2
    <3>2. Waiting(s, k)' = Waiting(s, k)
      BY <1>3
    <3>3. CASE Waiting(s, k) # 0
      BY <1>4, <3>2, <3>3 DEF Known, Held
    <3>4. CASE Waiting(s, k) = 0
      BY <1>4, <1>8, <2>2, <3>1, <3>2, <3>4 DEF Known, Held
    <3> QED
      BY <3>3, <3>4
  <2> QED
    BY <1>1, <1>2, <2>1, <2>2, HeldKeeps DEF DataOK, Passed
<1>11. LateOK'
  BY <1>1, <1>3 DEF DataOK, LateOK, LoadCells
<1>12. CellsOK'
  BY <1>3, <1>5, <1>6 DEF DataOK, CellsOK
<1>13. CoverOK'
  <2> SUFFICES ASSUME NEW s \in Targets, NEW k \in Keys, <<s, k>> \notin stale',
                      NEW i \in 1..Resume, k \in Decides(i, s)
               PROVE  i <= table'[s][k] \/ i <= again[s][k]
    BY <1>1, <1>3 DEF CoverOK
  <2>1. CASE l.run < run
    <3>1. i <= table[s][k] \/ i <= again[s][k]
      BY <1>8, <2>1 DEF DataOK, CoverOK
    <3>2. i \in Nat
      BY <1>7
    <3> QED
      BY <1>4, <1>8, <2>1, <3>1, <3>2
  <2>2. CASE l.run = run /\ s = t /\ l.rows[k] # 0
    BY <1>5, <1>6, <2>2
  <2>3. CASE ~(s = t /\ l.rows[k] # 0)
    BY <1>6, <2>3 DEF DataOK, CoverOK
  <2> QED
    BY <1>5, <2>1, <2>2, <2>3
<1> QED
  BY <1>10, <1>11, <1>12, <1>13 DEF DataOK

(* A load of an ended run that is lost changes nothing.                    *)
LEMMA LateLostData ==
  ASSUME TypeOK, PlaceOK, DataOK, NEW l \in late, LateLost(l)
  PROVE  DataOK'
<1>1. /\ UNCHANGED <<log, metaVars, table, stale, run, pc, cursor, started,
                     reached, again, batches, todo, then>>
      /\ late' = late \ {l}
  BY DEF LateLost, streamVars, bufferVars, handlerVars
<1>2. (Running' <=> Running) /\ Done' = Done
  BY <1>1 DEF Running, Done, InHand, Chunking, Piecing, Altering, Flushing
<1>3. /\ Resume' = Resume /\ Index' = Index
      /\ \A j, s : Decides(j, s)' = Decides(j, s)
      /\ \A s, k : Waiting(s, k)' = Waiting(s, k)
  BY <1>1, SameLog, SameResume, SameWaiting
<1>4. StreamedOK' /\ PassedOK'
  <2>1. Grown
    BY <1>1, HeldFacts DEF Grown
  <2>2. \A s \in Targets, k \in Keys :
          Held(s, k)' = Held(s, k) /\ (Known(s, k)' <=> Known(s, k))
    BY <1>1, <1>3 DEF Held, Known
  <2>3. \A s \in Targets, k \in Keys : Held(s, k) \in Nat
    BY HeldFacts
  <2> QED
    BY <1>1, <1>2, <2>1, <2>2, <2>3, HeldKeeps DEF DataOK, Passed
<1> QED
  BY <1>1, <1>3, <1>4 DEF DataOK, CellsOK, LateOK, LoadCells, CoverOK

(* While a chunk is at work the stream has not begun.                      *)
LEMMA BeforeComplete ==
  ASSUME TypeOK, PlaceOK, StreamOK, OffsetsOK, Running, cursor \in Index,
         log[cursor].kind = "chunk"
  PROVE  /\ offset = 0 /\ ~confirmed /\ pending = 0 /\ Resume = progress
         /\ Resume <= Done /\ reached = 0
<1>0. reached = 0 /\ cursor < CompleteAt
  BY ChunkStream
<1>1. /\ Len(log) \in Nat /\ Index = 1..Len(log) /\ CompleteAt \in Index
      /\ \A i \in Index : i < CompleteAt <=> log[i].kind = "chunk"
      /\ offset \in 0..Len(log) /\ pending \in 0..Len(log)
      /\ Done \in 0..Len(log) /\ Done <= cursor /\ cursor \in Nat
      /\ Resume \in 0..Len(log)
  <2>1. cursor \in Nat /\ Done \in 0..Len(log) /\ Resume \in 0..Len(log)
    BY DoneFacts
  <2>2. Done <= cursor
    BY <2>1 DEF Done
  <2>3. /\ log \in Logs /\ offset \in 0..Len(log) /\ pending \in 0..Len(log)
    BY DEF TypeOK
  <2> QED
    BY <2>1, <2>2, <2>3, LogFacts
<1>2. Resume <= Done /\ Resume < CompleteAt
  <2>1. Resume <= Done \/ Resume <= 0
    BY <1>0 DEF OffsetsOK, Passed
  <2> QED
    BY <1>0, <1>1, <2>1
<1>3. pending = 0
  <2> SUFFICES ASSUME pending # 0 PROVE FALSE
    OBVIOUS
  <2>1. pending \in Index /\ log[pending].kind = "checkpoint" /\ pending <= Done
    BY <1>0, <1>1 DEF OffsetsOK, Passed
  <2> QED
    BY <1>0, <1>1, <2>1
<1>4. offset = 0
  <2> SUFFICES ASSUME offset # 0 PROVE FALSE
    OBVIOUS
  <2>1. offset \in Index /\ log[offset].kind = "checkpoint" /\ Resume = offset
    BY <1>1 DEF OffsetsOK, Resume
  <2> QED
    BY <1>1, <1>2, <2>1
<1>5. ~confirmed
  BY <1>1, <1>2, <1>4 DEF Resume
<1> QED
  BY <1>0, <1>2, <1>3, <1>4, <1>5 DEF Resume

(* The offset is saved when nothing is buffered, so that Doris has what    *)
(* lies before it, and a chunk is done when its last piece is there.       *)
LEMMA CommitOffsetData ==
  ASSUME TypeOK, PlaceOK, BufferedOK, StreamOK, OffsetsOK, PieceOK, DataOK,
         CommitOffset
  PROVE  DataOK'
<1>1. /\ UNCHANGED <<log, progress, confirmed, table, stale, late, run, cursor,
                     started, reached, again, batches, todo>>
      /\ \/ pc = "flush" /\ then # "chunk" /\ then' = "none"
              /\ pc' = (IF then = "none" THEN "idle" ELSE then)
         \/ pc = "chunk" /\ pc' = "save" /\ then' = then /\ piece = <<>>
  BY DEF CommitOffset, streamVars, Continue, dorisVars
<1>2. offset' = offset \/ (offset' = pending /\ pending # 0 /\ Buffered = {})
  BY DEF CommitOffset, SaveOffset, allBatchesEmpty
<1>3. /\ Index' = Index /\ CompleteAt' = CompleteAt
      /\ \A j, s : Decides(j, s)' = Decides(j, s)
      /\ \A s, k : Waiting(s, k)' = Waiting(s, k)
  BY <1>1, SameLog, SameWaiting
<1>4. /\ Done \in 0..Len(log) /\ Resume \in 0..Len(log) /\ Len(log) \in Nat
      /\ Index = 1..Len(log) /\ cursor \in 0..Len(log)
      /\ pending \in 0..Len(log) /\ offset \in 0..Len(log)
      /\ reached \in 0..Len(log)
  BY DoneFacts DEF TypeOK
<1>5. then \in {"none", "chunk", "ddl", "confirm", "end"}
  BY DEF TypeOK, PlaceOK
<1>6. Running /\ Running' /\ pc # "down" /\ pc' # "down"
  BY <1>1, <1>5 DEF Running
<1>7. Resume' = Resume \/ (Resume' \in 0..Len(log) /\ Passed(Resume') /\ Buffered = {})
  <2>1. offset' = offset => Resume' = Resume
    BY <1>1, <1>3 DEF Resume
  <2>2. pending # 0 /\ offset' = pending => Resume' = pending
    BY <1>4 DEF Resume
  <2> QED
    BY <1>2, <1>4, <2>1, <2>2 DEF OffsetsOK
<1>8. \A s \in Targets, k \in Keys :
        /\ Held(s, k)' = Held(s, k) /\ Held(s, k) \in Nat
        /\ Known(s, k)' <=> Known(s, k)
        /\ batches[s] = <<>> => Held(s, k) = table[s][k]
  <2>1. \A s \in Targets, k \in Keys :
          Held(s, k) \in Nat /\ (batches[s] = <<>> => Waiting(s, k) = 0)
    BY HeldFacts
  <2> QED
    BY <1>1, <1>3, <2>1 DEF Held, Known
<1>9. StreamedOK' /\ PassedOK'
  <2>1. CASE pc = "flush"
    <3>1. Done' = Done
      BY <1>1, <1>5, <2>1 DEF Done, InHand, Chunking, Altering, Piecing, Flushing
    <3>2. Grown
      BY <1>1, HeldFacts DEF Grown
    <3> QED
      BY <1>1, <1>6, <1>8, <3>1, <3>2, HeldKeeps DEF DataOK, Passed
  <2>2. CASE pc = "chunk"
    <3>1. /\ Chunking /\ Done = cursor - 1 /\ Done' = cursor /\ piece = <<>>
          /\ cursor \in Index /\ log[cursor].kind = "chunk"
      BY <1>1, <2>2 DEF Done, InHand, Chunking, Altering, Piecing, Flushing, PlaceOK
    <3>2. reached = 0 /\ cursor < started /\ started \in Nat
      <4>1. reached = 0 /\ cursor < started
        BY <1>6, <3>1, ChunkStream
      <4>2. started \in Nat
        BY <1>4 DEF TypeOK
      <4> QED
        BY <4>1, <4>2
    <3>3. StreamedOK'
      BY <1>1, <1>3, <1>4, <3>1, <3>2 DEF StreamedOK
    <3>4. ASSUME NEW s \in Targets, NEW k \in Keys, Known(s, k),
                 k \in Decides(cursor, s)
          PROVE  cursor <= Held(s, k)
      <4>1. s = log[cursor].target /\ k \in Range(log[cursor].keys)
        BY <3>1, <3>4, DecidesFacts DEF TypeOK
      <4>2. k \notin Range(piece) /\ batches[s] = <<>>
        BY <2>2, <3>1 DEF Range, BufferedOK, Buffered
      <4>3. Held(s, k) = table[s][k] /\ <<s, k>> \notin stale
        BY <1>8, <3>4, <4>2, HeldFacts DEF Known
      <4>4. table[s][k] >= cursor
        BY <2>2, <3>1, <4>1, <4>2, <4>3 DEF PieceOK
      <4> QED
        BY <1>4, <1>8, <4>3, <4>4
    <3>5. \A i \in Index : Passed(i)' => Passed(i) \/ i = cursor
      BY <1>1, <1>4, <3>1, <3>2 DEF Passed
    <3>6. PassedOK'
      BY <1>1, <1>3, <1>6, <1>8, <3>4, <3>5 DEF DataOK, PassedOK
    <3> QED
      BY <3>3, <3>6
  <2> QED
    BY <1>1, <2>1, <2>2
<1>10. CoverOK'
  <2> SUFFICES ASSUME NEW s \in Targets, NEW k \in Keys, <<s, k>> \notin stale,
                      NEW i \in 1..Resume', k \in Decides(i, s)
               PROVE  i <= table[s][k] \/ i <= again[s][k]
    BY <1>1, <1>3 DEF CoverOK
  <2>1. CASE Resume' = Resume
    BY <2>1 DEF DataOK, CoverOK
  <2>2. CASE Resume' \in 0..Len(log) /\ Passed(Resume') /\ Buffered = {}
    <3>1. i \in Index /\ Passed(i)
      BY <1>4, <2>2 DEF Passed
    <3>2. Known(s, k) /\ Held(s, k) = table[s][k]
      BY <1>8, <2>2 DEF Buffered, Known
    <3> QED
      BY <1>6, <3>1, <3>2 DEF DataOK, PassedOK
  <2> QED
    BY <1>7, <2>1, <2>2
<1>11. CellsOK'
  BY <1>1, <1>3 DEF DataOK, CellsOK
<1>12. LateOK'
  BY <1>1, <1>3, <1>6 DEF DataOK, LateOK, LoadCells
<1> QED
  BY <1>9, <1>10, <1>11, <1>12 DEF DataOK

(* Progress and completion are saved behind what is done, with nothing     *)
(* buffered.                                                               *)
LEMMA SavedData ==
  ASSUME TypeOK, PlaceOK, OffsetsOK, DataOK,
         UNCHANGED <<log, table, stale, late, run, batches, started, reached,
                     again>>,
         Buffered = {}, Running, Running',
         Resume' \in Nat, Passed(Resume'), Done' \in 0..Done
  PROVE  DataOK'
<1>1. /\ Index' = Index
      /\ \A j, s : Decides(j, s)' = Decides(j, s)
      /\ \A s, k : Waiting(s, k)' = Waiting(s, k)
  BY SameLog, SameWaiting
<1>2. /\ Done \in 0..Len(log) /\ Len(log) \in Nat /\ Index = 1..Len(log)
      /\ reached \in 0..Len(log)
  BY DoneFacts DEF TypeOK
<1>3. pc # "down"
  BY DEF Running
<1>4. \A s \in Targets, k \in Keys :
        /\ Held(s, k)' = Held(s, k) /\ Held(s, k) \in Nat
        /\ Known(s, k)' <=> Known(s, k)
        /\ Held(s, k) = table[s][k]
  <2>1. \A s \in Targets, k \in Keys : Held(s, k) \in Nat /\ Waiting(s, k) = 0
    BY HeldFacts DEF Buffered
  <2> QED
    BY <1>1, <2>1 DEF Held, Known
<1>5. StreamedOK' /\ PassedOK'
  <2>1. Grown
    BY HeldFacts DEF Grown
  <2>2. \A i \in Index : i <= Done' => i <= Done
    BY <1>2
  <2> QED
    BY <1>4, <2>1, <2>2, HeldKeeps DEF DataOK, Passed
<1>6. CellsOK'
  BY <1>1 DEF DataOK, CellsOK
<1>7. LateOK'
  BY <1>1, <1>3 DEF DataOK, LateOK, LoadCells, Running
<1>8. CoverOK'
  <2> SUFFICES ASSUME NEW s \in Targets, NEW k \in Keys, <<s, k>> \notin stale,
                      NEW i \in 1..Resume', k \in Decides(i, s)
               PROVE  i <= table[s][k] \/ i <= again[s][k]
    BY <1>1 DEF CoverOK
  <2>1. i \in Index /\ Passed(i)
    BY <1>2 DEF Passed
  <2>2. Known(s, k) /\ Held(s, k) = table[s][k]
    BY <1>4 DEF Known
  <2> QED
    BY <2>1, <2>2 DEF DataOK, PassedOK
<1> QED
  BY <1>5, <1>6, <1>7, <1>8 DEF DataOK

(* A chunk's progress is saved when the chunk is done.                     *)
LEMMA SaveProgressStep ==
  ASSUME TypeOK, PlaceOK, BufferedOK, StreamOK, OffsetsOK, SaveProgress
  PROVE  /\ UNCHANGED <<log, table, stale, late, run, batches, offset, pending,
                        started, reached, again>>
         /\ Buffered = {} /\ Running /\ Running'
         /\ Done = cursor /\ Done' = cursor' /\ Done' \in 0..Done
         /\ Resume' = progress' /\ Resume' \in 0..Done' /\ pending = 0
         /\ progress' \in 0..Len(log) /\ offset = 0
<1>1. /\ UNCHANGED <<log, confirmed, table, stale, late, run, batches, offset,
                     pending, then, todo, started, reached, again>>
      /\ pc = "save" /\ pc' = "idle"
      /\ \/ progress' = cursor /\ cursor' = cursor
         \/ progress' \in {progress, cursor} /\ cursor' = progress'
  BY DEF SaveProgress, bufferVars, handlerVars, dorisVars
<1>2. Running /\ Running' /\ Buffered = {} /\ Done = cursor /\ Done' = cursor'
  BY <1>1 DEF Running, BufferedOK, Done, InHand, Chunking, Altering, Piecing,
     Flushing
<1>3. cursor \in Index /\ log[cursor].kind = "chunk"
  BY <1>1 DEF PlaceOK
<1>4. /\ offset = 0 /\ ~confirmed /\ pending = 0 /\ Resume = progress
      /\ Resume <= Done
  BY <1>2, <1>3, BeforeComplete
<1>5. Resume' = progress'
  BY <1>1, <1>4 DEF Resume
<1>6. progress \in Nat /\ progress <= cursor /\ cursor \in 0..Len(log)
      /\ Len(log) \in Nat
  BY <1>2, <1>4, DoneFacts
<1> QED
  BY <1>1, <1>2, <1>4, <1>5, <1>6

(* The snapshot is confirmed when all its chunks are done.                 *)
LEMMA ConfirmStep ==
  ASSUME TypeOK, PlaceOK, BufferedOK, OffsetsOK, Confirm
  PROVE  /\ UNCHANGED <<log, table, stale, late, run, batches, offset, pending,
                        started, reached, again>>
         /\ Buffered = {} /\ Running /\ Running'
         /\ Done' = Done /\ Passed(Resume') /\ Resume' \in Nat
<1>1. /\ UNCHANGED <<log, progress, table, stale, late, run, batches, offset,
                     pending, then, todo, cursor, started, reached, again>>
      /\ pc = "confirm" /\ pc' = "idle" /\ confirmed' = TRUE
  BY DEF Confirm, streamVars, bufferVars, handlerVars, dorisVars
<1>2. Running /\ Running' /\ Buffered = {} /\ Done = cursor /\ Done' = cursor
  BY <1>1 DEF Running, BufferedOK, Done, InHand, Chunking, Altering, Piecing,
     Flushing
<1>3. cursor = CompleteAt /\ CompleteAt' = CompleteAt
  BY <1>1, SameLog DEF PlaceOK, Confirming
<1>4. Resume' = Resume \/ Resume' = CompleteAt
  BY <1>1, <1>3 DEF Resume
<1>5. Passed(Resume) /\ Passed(CompleteAt)
  <2>1. CompleteAt <= Done
    BY <1>2, <1>3, DoneFacts
  <2> QED
    BY <1>2, <2>1 DEF OffsetsOK, Passed
<1>6. Resume \in Nat /\ CompleteAt \in Nat
  BY DoneFacts
<1> QED
  BY <1>1, <1>2, <1>4, <1>5, <1>6

(* A schema change meets tables that have everything before it.            *)
LEMMA applyDDLData ==
  ASSUME TypeOK, PlaceOK, BufferedOK, AlterOK, OffsetsOK, DataOK, applyDDL
  PROVE  DataOK'
<1> DEFINE t == log[cursor].target
<1>1. /\ UNCHANGED <<log, metaVars, late, run, batches, cursor, started, reached,
                     again, then, todo>>
      /\ pc = "ddl" /\ pc' \in {"idle", "ddl"}
  BY DEF applyDDL, streamVars, bufferVars, handlerVars
<1>2. /\ Resume' = Resume /\ Index' = Index
      /\ \A j, s : Decides(j, s)' = Decides(j, s)
      /\ \A s, k : Waiting(s, k)' = Waiting(s, k)
  BY <1>1, SameLog, SameResume, SameWaiting
<1>3. /\ Running /\ Running' /\ Buffered = {} /\ cursor \in Index /\ Altering
      /\ IsDDL(cursor) /\ Done = cursor - 1 /\ Done' \in {cursor - 1, cursor}
  BY <1>1 DEF Running, BufferedOK, PlaceOK, Done, InHand, Chunking, Altering,
     Piecing, Flushing
<1>4. /\ Resume \in 0..Len(log) /\ Len(log) \in Nat /\ Index = 1..Len(log)
      /\ reached \in 0..Len(log) /\ Passed(Resume)
  BY <1>3, DoneFacts DEF OffsetsOK, TypeOK
<1>5. \A s \in Targets, k \in Keys :
        /\ Waiting(s, k) = 0 /\ Held(s, k) = table[s][k] /\ table[s][k] \in Nat
        /\ again[s][k] \in Nat
        /\ Held(s, k)' = table'[s][k]
        /\ Known(s, k) <=> <<s, k>> \notin stale
        /\ Known(s, k)' <=> <<s, k>> \notin stale'
  <2>1. \A s \in Targets, k \in Keys :
          Waiting(s, k) = 0 /\ table[s][k] \in Nat /\ again[s][k] \in Nat
    BY <1>3, HeldFacts DEF Buffered
  <2> QED
    BY <1>2, <2>1 DEF Held, Known
<1>6. \A i \in Index : i <= Done' => i <= Done \/ i = cursor
  BY <1>3, <1>4
<1>7. LateOK'
  BY <1>1, <1>2 DEF DataOK, LateOK, LoadCells
<1>8. CASE AddColumn(t)
  <2>1. table' = table /\ stale' = stale /\ log[cursor].kind = "add"
    BY <1>8 DEF AddColumn
  <2>2. \A s \in Targets : Decides(cursor, s) = {}
    BY <1>3, <2>1, DecidesFacts DEF TypeOK
  <2>3. StreamedOK' /\ PassedOK'
    <3>1. Grown
      BY <1>1, HeldFacts DEF Grown
    <3>2. \A i \in Index :
            \/ \A s \in Targets : Decides(i, s) = {}
            \/ /\ Passed(i)' => Passed(i)
               /\ started' < i /\ i <= Done' => started < i /\ i <= Done
      BY <1>1, <1>6, <2>2 DEF Passed
    <3>3. \A s \in Targets, k \in Keys : Known(s, k)' =>
            /\ Held(s, k)' \in Nat
            /\ \/ Known(s, k) /\ Held(s, k) <= Held(s, k)'
               \/ \A i \in Index : Passed(i) => i <= Held(s, k)'
      <4>1. ASSUME NEW s \in Targets, NEW k \in Keys, Known(s, k)'
            PROVE  /\ Held(s, k)' \in Nat
                   /\ Known(s, k) /\ Held(s, k) <= Held(s, k)'
        <5>1. Held(s, k)' = Held(s, k) /\ Held(s, k) \in Nat
          BY <1>5, <2>1
        <5>2. Known(s, k)
          BY <1>5, <2>1, <4>1
        <5> QED
          BY <5>1, <5>2
      <4> QED
        BY <4>1
    <3>4. log' = log /\ (Running' => Running) /\ StreamedOK /\ PassedOK
      BY <1>1, <1>3 DEF DataOK
    <3> QED
      BY <3>1, <3>2, <3>3, <3>4, HeldKeeps
  <2>4. CellsOK' /\ CoverOK'
    BY <1>1, <1>2, <2>1 DEF DataOK, CellsOK, CoverOK
  <2> QED
    BY <1>7, <2>3, <2>4 DEF DataOK
<1>9. CASE Truncate(t)
  <2>1. /\ log[cursor].kind = "truncate" /\ t \in Targets
    BY <1>3, <1>9, LogFacts DEF Truncate, TypeOK, Event
  <2>2. Decides(cursor, t) = Keys /\ \A s \in Targets \ {t} : Decides(cursor, s) = {}
    BY <1>3, <2>1, DecidesFacts DEF TypeOK
  <2>3. /\ \A s \in Targets, k \in Keys :
             table'[s][k] = IF s = t THEN cursor ELSE table[s][k]
        /\ stale' = stale \ ({t} \X Keys)
    BY <1>9, <2>1 DEF Truncate, TypeOK
  <2>4. \A s \in Targets, k \in Keys :
          <<s, k>> \notin stale' => s = t \/ <<s, k>> \notin stale
    BY <2>3
  <2>5. \A k \in Keys : \A i \in Index :
          i <= reached /\ k \in Decides(i, t) => i <= cursor \/ i <= again[t][k]
    <3> SUFFICES ASSUME NEW k \in Keys, NEW i \in Index, i <= reached,
                        k \in Decides(i, t), ~(i <= cursor)
                 PROVE  i <= again[t][k]
      OBVIOUS
    <3>1. cursor <= reached /\ i \in 1..reached
      BY <1>3, <1>4
    <3> QED
      BY <1>3, <2>1, <2>2, <3>1 DEF AlterOK
  <2> HIDE DEF t
  <2>6. CellsOK'
    BY <1>2, <1>3, <2>2, <2>3 DEF DataOK, CellsOK
  <2>7. ASSUME NEW s \in Targets, NEW k \in Keys, <<s, k>> \notin stale',
               NEW i \in Index, k \in Decides(i, s)
        PROVE  /\ started < i /\ i <= Done' => i <= table'[s][k]
               /\ i <= Done' \/ i <= reached =>
                    i <= table'[s][k] \/ i <= again[s][k]
    <3>1. CASE s = t
      <4>1. i <= Done' => i <= cursor
        BY <1>3, <1>4, <1>6
      <4> QED
        BY <2>3, <2>5, <2>7, <3>1, <4>1
    <3>2. CASE s # t
      <4>1. i # cursor /\ <<s, k>> \notin stale /\ table'[s][k] = table[s][k]
        BY <2>2, <2>3, <2>4, <2>7, <3>2
      <4>2. i <= Done' => i <= Done
        BY <1>6, <4>1
      <4> QED
        BY <1>3, <1>5, <2>7, <4>1, <4>2 DEF DataOK, StreamedOK, PassedOK, Passed
    <3> QED
      BY <3>1, <3>2
  <2>8. StreamedOK'
    BY <1>1, <1>2, <1>5, <2>7 DEF StreamedOK
  <2>9. PassedOK'
    BY <1>1, <1>2, <1>5, <2>7 DEF PassedOK, Passed
  <2>10. CoverOK'
    <3> SUFFICES ASSUME NEW s \in Targets, NEW k \in Keys, <<s, k>> \notin stale',
                        NEW i \in 1..Resume, k \in Decides(i, s)
                 PROVE  i <= table'[s][k] \/ i <= again[s][k]
      BY <1>1, <1>2 DEF CoverOK
    <3>1. CASE s = t
      <4>1. i \in Index /\ (i <= cursor \/ i <= reached)
        BY <1>3, <1>4 DEF Passed
      <4> QED
        BY <2>3, <2>5, <3>1, <4>1
    <3>2. CASE s # t
      BY <2>3, <2>4, <3>2 DEF DataOK, CoverOK
    <3> QED
      BY <3>1, <3>2
  <2> QED
    BY <1>7, <2>6, <2>8, <2>9, <2>10 DEF DataOK
<1> QED
  BY <1>8, <1>9 DEF applyDDL

(* A stream that starts again has still been handed what it had, and has   *)
(* nothing to show for itself yet.                                         *)
LEMMA SourceReconnectData ==
  ASSUME TypeOK, PlaceOK, DataOK, SourceReconnect
  PROVE  DataOK'
<1>1. /\ UNCHANGED <<log, metaVars, table, stale, late, run, batches, started,
                     again>>
      /\ pc = "idle" /\ pc' = "idle"
      /\ cursor' = started /\ cursor > started
      /\ reached' = Max({reached, cursor})
  BY DEF SourceReconnect, dorisVars, bufferVars
<1>2. /\ Resume' = Resume /\ Index' = Index
      /\ \A j, s : Decides(j, s)' = Decides(j, s)
      /\ \A s, k : Waiting(s, k)' = Waiting(s, k)
  BY <1>1, SameLog, SameResume, SameWaiting
<1>3. Done = cursor /\ Done' = started
  BY <1>1 DEF Done, InHand, Chunking, Altering, Piecing, Flushing
<1>4. /\ cursor \in Nat /\ started \in Nat /\ reached \in Nat
      /\ Index \subseteq Nat
  <2>1. {cursor, started, reached} \subseteq 0..Len(log)
    BY DEF TypeOK
  <2> QED
    BY <2>1, DoneFacts
<1>5. \A i \in Index : Passed(i)' => Passed(i)
  <2>1. reached' \in {reached, cursor}
    BY <1>1, <1>4, MaxOfTwo
  <2> QED
    BY <1>1, <1>3, <1>4, <2>1 DEF Passed
<1>6. \A i \in Index : ~(started' < i /\ i <= Done')
  BY <1>1, <1>3, <1>4
<1>7. StreamedOK' /\ PassedOK'
  <2>1. Grown
    BY <1>1, HeldFacts DEF Grown
  <2>2. \A s \in Targets, k \in Keys :
          /\ Held(s, k)' = Held(s, k) /\ Held(s, k) \in Nat
          /\ Known(s, k)' <=> Known(s, k)
    BY <1>1, <1>2, HeldFacts DEF Held, Known
  <2>3. Running' => Running
    BY <1>1 DEF Running
  <2> QED
    BY <1>1, <1>5, <1>6, <2>1, <2>2, <2>3, HeldKeeps DEF DataOK
<1>8. CellsOK' /\ CoverOK'
  BY <1>1, <1>2 DEF DataOK, CellsOK, CoverOK
<1>9. LateOK'
  BY <1>1, <1>2 DEF DataOK, LateOK, LoadCells
<1> QED
  BY <1>7, <1>8, <1>9 DEF DataOK

(* What Doris has of what is done and saved, through every step.           *)
LEMMA DataStep ==
  ASSUME TypeOK, PlaceOK, BufferedOK, StreamOK, OffsetsOK, LoadOK, PieceOK,
         AlterOK, DataOK, [Next]_vars
  PROVE  DataOK'
<1>0. /\ Len(log) \in Nat /\ Index = 1..Len(log)
      /\ cursor \in 0..Len(log) /\ (InHand => cursor \in Index)
      /\ Done \in 0..Len(log)
      /\ \A i \in Index : \A t \in Targets :
           log[i].kind \in {"complete", "checkpoint"} => Decides(i, t) = {}
      /\ again' = again => Grown
      /\ \A i \in Index : Take(i) => Grown
  <2>1. again' = again => Grown
    BY HeldFacts DEF Grown
  <2> QED
    BY <2>1, DoneFacts, DecidesFacts, TakenAgain DEF TypeOK
<1>1. ASSUME StartRun
      PROVE  DataOK'
  BY <1>1, StartRunData
<1>2. ASSUME EnsureTables
      PROVE  DataOK'
  BY <1>2, EnsureTablesData
<1>3. ASSUME RunFails
      PROVE  DataOK'
  <2>1. PICK left \in {{}, {LoadOf(t, prepareBatch(batches[t], t)) : t \in Buffered}} :
          /\ left # {} => draining /\ pc \in {"idle", "flush"}
          /\ EndRun(left \cup InFlight)
    BY <1>3 DEF RunFails
  <2>2. UNCHANGED <<log, metaVars, table, stale, run>> /\ pc # "down"
    BY <1>3 DEF RunFails
  <2>3. left \cup InFlight # {} => Running
    BY <2>1 DEF InFlight, LoadOK, Running
  <2> QED
    BY <2>1, <2>2, <2>3, EndRunData
<1>4. ASSUME RunReturns
      PROVE  DataOK'
  <2>1. UNCHANGED <<log, metaVars, table, stale, run>> /\ EndRun({}) /\ pc # "down"
    BY <1>4 DEF RunReturns, LoadOK
  <2> QED
    BY <2>1, EndRunData
<1>5. ASSUME GiveUp
      PROVE  DataOK'
  <2>1. UNCHANGED <<log, metaVars, table, stale, run>> /\ EndRun({}) /\ pc # "down"
    BY <1>5 DEF GiveUp, LoadOK
  <2> QED
    BY <2>1, EndRunData
<1>6. ASSUME Cancel
      PROVE  DataOK'
  <2>1. Quiet
    BY <1>0, <1>6 DEF Cancel, streamVars, dorisVars, handlerVars, PlaceOK, BufferedOK,
       IsDDL, Quiet, Running, Done, InHand, Chunking, Altering,
       Piecing, Flushing, metaVars
  <2> QED
    BY <2>1, QuietKeeps DEF DataOK
<1>7. ASSUME NEW i \in Index, TakeChunk(i)
      PROVE  DataOK'
  <2>1. Quiet
    BY <1>0, <1>7
       DEF TakeChunk, Take, Flush, dorisVars, bufferVars, PlaceOK, BufferedOK,
       IsDDL, Quiet, Running, Done, InHand, Chunking, Altering,
       Piecing, Flushing, metaVars
  <2> QED
    BY <2>1, QuietKeeps DEF DataOK
<1>8. ASSUME NEW i \in Index, TakeComplete(i)
      PROVE  DataOK'
  <2>1. Quiet
    BY <1>0, <1>8
       DEF TakeComplete, Take, Flush, dorisVars, bufferVars, PlaceOK,
           BufferedOK,
       IsDDL, Quiet, Running, Done, InHand, Chunking, Altering,
       Piecing, Flushing, metaVars
  <2> QED
    BY <2>1, QuietKeeps DEF DataOK
<1>9. ASSUME NEW i \in Index, TakeCheckpoint(i)
      PROVE  DataOK'
  <2>1. Quiet
    BY <1>0, <1>9
       DEF TakeCheckpoint, Take, dorisVars, handlerVars, PlaceOK, BufferedOK,
       IsDDL, Quiet, Running, Done, InHand, Chunking, Altering,
       Piecing, Flushing, metaVars
  <2> QED
    BY <2>1, QuietKeeps DEF DataOK
<1>10. ASSUME NEW i \in Index, TakeDDL(i)
       PROVE  DataOK'
  <2>1. Quiet
    BY <1>0, <1>10
       DEF TakeDDL, Take, Flush, dorisVars, bufferVars, FlushedBy, PlaceOK,
           BufferedOK,
       IsDDL, Quiet, Running, Done, InHand, Chunking, Altering,
       Piecing, Flushing, metaVars
  <2> QED
    BY <2>1, QuietKeeps DEF DataOK
<1>11. ASSUME NEW i \in Index, TakeRow(i)
       PROVE  DataOK'
  BY <1>11, TakeRowData
<1>12. ASSUME Tick
       PROVE  DataOK'
  <2>1. Quiet
    BY <1>0, <1>12
       DEF Tick, streamVars, Flush, dorisVars, bufferVars, TickFlushes, PlaceOK,
           BufferedOK,
       IsDDL, Quiet, Running, Done, InHand, Chunking, Altering,
       Piecing, Flushing, metaVars
  <2> QED
    BY <2>1, QuietKeeps DEF DataOK
<1>13. ASSUME SourceCloses
       PROVE  DataOK'
  <2>1. Quiet
    BY <1>0, <1>13
       DEF SourceCloses, streamVars, Flush, dorisVars, bufferVars, PlaceOK, BufferedOK,
       IsDDL, Quiet, Running, Done, InHand, Chunking, Altering,
       Piecing, Flushing, metaVars
  <2> QED
    BY <2>1, QuietKeeps DEF DataOK
<1>14. ASSUME NEW t \in Targets, SendBatch(t)
       PROVE  DataOK'
  <2>1. Quiet
    BY <1>0, <1>14
       DEF SendBatch, streamVars, dorisVars, bufferVars, handlerVars, PlaceOK, BufferedOK,
       IsDDL, Quiet, Running, Done, InHand, Chunking, Altering,
       Piecing, Flushing, metaVars
  <2> QED
    BY <2>1, QuietKeeps DEF DataOK
<1>15. ASSUME SendPiece
       PROVE  DataOK'
  <2>1. Quiet
    BY <1>0, <1>15 DEF SendPiece, streamVars, dorisVars, bufferVars, PlaceOK, BufferedOK,
       IsDDL, Quiet, Running, Done, InHand, Chunking, Altering,
       Piecing, Flushing, metaVars
  <2> QED
    BY <2>1, QuietKeeps DEF DataOK
<1>16. ASSUME LoadAnswered
       PROVE  DataOK'
  BY <1>16, LoadAnsweredData
<1>17. ASSUME LoadLands
       PROVE  DataOK'
  BY <1>17, LoadLandsData
<1>18. ASSUME LoadLost
       PROVE  DataOK'
  <2>1. Quiet
    BY <1>0, <1>18
       DEF LoadLost, streamVars, dorisVars, bufferVars, handlerVars, PlaceOK, BufferedOK,
       IsDDL, Quiet, Running, Done, InHand, Chunking, Altering,
       Piecing, Flushing, metaVars
  <2> QED
    BY <2>1, QuietKeeps DEF DataOK
<1>19. ASSUME NEW l \in late, LateLands(l)
       PROVE  DataOK'
  BY <1>19, LateLandsData
<1>20. ASSUME NEW l \in late, LateLost(l)
       PROVE  DataOK'
  BY <1>20, LateLostData
<1>21. ASSUME Resend
       PROVE  DataOK'
  <2>1. Quiet
    BY <1>0, <1>21
       DEF Resend, streamVars, SameLabel, bufferVars, handlerVars, PlaceOK, BufferedOK,
       IsDDL, Quiet, Running, Done, InHand, Chunking, Altering,
       Piecing, Flushing, metaVars
  <2> QED
    BY <2>1, QuietKeeps DEF DataOK
<1>22. ASSUME CommitOffset
       PROVE  DataOK'
  BY <1>22, CommitOffsetData
<1>23. ASSUME FlushedForChunk
       PROVE  DataOK'
  <2>1. Quiet
    BY <1>0, <1>23
       DEF FlushedForChunk, streamVars, Continue, dorisVars, bufferVars, PlaceOK,
           BufferedOK,
       IsDDL, Quiet, Running, Done, InHand, Chunking, Altering,
       Piecing, Flushing, metaVars
  <2> QED
    BY <2>1, QuietKeeps DEF DataOK
<1>24. ASSUME SaveProgress
       PROVE  DataOK'
  <2>1. /\ UNCHANGED <<log, table, stale, late, run, batches, started, reached,
                       again>>
        /\ Buffered = {} /\ Running /\ Running'
        /\ Resume' \in 0..Done' /\ Done' \in 0..Done
    BY <1>0, <1>24, SaveProgressStep
  <2>2. Resume' \in Nat /\ Passed(Resume')
    BY <1>0, <2>1 DEF Passed
  <2> QED
    BY <2>1, <2>2, SavedData
<1>25. ASSUME Confirm
       PROVE  DataOK'
  <2>1. /\ UNCHANGED <<log, table, stale, late, run, batches, started, reached,
                       again>>
        /\ Buffered = {} /\ Running /\ Running'
        /\ Passed(Resume') /\ Resume' \in Nat /\ Done' \in 0..Done
    BY <1>0, <1>25, ConfirmStep
  <2> QED
    BY <2>1, SavedData
<1>26. ASSUME applyDDL
       PROVE  DataOK'
  BY <1>26, applyDDLData
<1>27. ASSUME SourceAlters
       PROVE  DataOK'
  <2>1. Quiet
    BY <1>0, <1>27
       DEF SourceAlters, streamVars, dorisVars, bufferVars, handlerVars, PlaceOK,
           BufferedOK,
       IsDDL, Quiet, Running, Done, InHand, Chunking, Altering,
       Piecing, Flushing, metaVars
  <2> QED
    BY <2>1, QuietKeeps DEF DataOK
<1>28. ASSUME UNCHANGED vars
       PROVE  DataOK'
  <2>1. Quiet
    BY <1>0, <1>28 DEF vars, streamVars, dorisVars, bufferVars, handlerVars,
       Quiet, Running, Done, InHand, Chunking, Altering,
       Piecing, Flushing, metaVars
  <2> QED
    BY <2>1, QuietKeeps DEF DataOK
<1>29. ASSUME SourceReconnect
       PROVE  DataOK'
  BY <1>29, SourceReconnectData
<1> QED
  BY <1>1, <1>2, <1>3, <1>4, <1>5, <1>6, <1>7, <1>8, <1>9, <1>10, <1>11,
     <1>12, <1>13, <1>14, <1>15, <1>16, <1>17, <1>18, <1>19, <1>20, <1>21,
     <1>22, <1>23, <1>24, <1>25, <1>26, <1>27, <1>28, <1>29
  DEF Next, RunStep

(* The checkpoint stays behind a run that goes on.                         *)
LEMMA Ahead ==
  ASSUME TypeOK, PlaceOK, OffsetsOK, UNCHANGED <<log, metaVars, reached>>,
         pending' \in {pending, 0}, Running' => Running, Done' \in Done..Len(log)
  PROVE  OffsetsOK'
<1>1. Resume' = Resume
  BY SameResume
<1>2. /\ Done \in 0..Len(log) /\ Resume \in 0..Len(log) /\ Len(log) \in Nat
      /\ pending \in 0..Len(log)
  BY DoneFacts DEF TypeOK
<1>3. \A i \in 0..Len(log) : Passed(i) => Passed(i)'
  BY <1>2 DEF Passed
<1>4. Running' => Passed(Resume)'
  BY <1>1, <1>2, <1>3 DEF OffsetsOK
<1>5. pending' # 0 => Passed(pending)' /\ log[pending'].kind = "checkpoint"
  BY <1>2, <1>3 DEF OffsetsOK
<1> QED
  BY <1>1, <1>4, <1>5 DEF OffsetsOK, metaVars, Passed

LEMMA OffsetsStep ==
  ASSUME TypeOK, PlaceOK, BufferedOK, StreamOK, OffsetsOK,
         [Next]_vars
  PROVE  OffsetsOK'
<1>0. /\ Len(log) \in Nat /\ Index = 1..Len(log)
      /\ cursor \in 0..Len(log) /\ (InHand => cursor \in Index)
      /\ Done \in 0..Len(log) /\ Resume \in 0..Len(log)
  BY DoneFacts
<1>1. ASSUME StartRun
      PROVE  OffsetsOK'
  <2>1. UNCHANGED <<log, metaVars>> /\ pc' = "ensure" /\ pending' = 0
    BY <1>1 DEF StartRun, streamVars, bufferVars, BufferedOK, Running
  <2> QED
    BY <2>1 DEF OffsetsOK, Running, metaVars
<1>2. ASSUME EnsureTables
      PROVE  OffsetsOK'
  <2>1. UNCHANGED <<log, metaVars>> /\ pc' = "idle" /\ pending' = 0 /\ cursor' = Resume
    BY <1>2 DEF EnsureTables, BufferedOK, Running
  <2>2. Done' = Resume /\ Resume' = Resume
    BY <2>1, SameResume DEF Done, InHand, Chunking, Altering, Piecing, Flushing
  <2> QED
    BY <1>0, <2>1, <2>2 DEF OffsetsOK, metaVars, Passed
<1>3. ASSUME RunFails
      PROVE  OffsetsOK'
  <2>1. UNCHANGED <<log, metaVars>> /\ pc' = "down" /\ pending' = 0
    BY <1>3 DEF RunFails, EndRun
  <2> QED
    BY <2>1 DEF OffsetsOK, Running, metaVars
<1>4. ASSUME RunReturns
      PROVE  OffsetsOK'
  <2>1. UNCHANGED <<log, metaVars>> /\ pc' = "down" /\ pending' = 0
    BY <1>4 DEF RunReturns, EndRun
  <2> QED
    BY <2>1 DEF OffsetsOK, Running, metaVars
<1>5. ASSUME GiveUp
      PROVE  OffsetsOK'
  <2>1. UNCHANGED <<log, metaVars>> /\ pc' = "down" /\ pending' = 0
    BY <1>5 DEF GiveUp, EndRun
  <2> QED
    BY <2>1 DEF OffsetsOK, Running, metaVars
<1>6. ASSUME Cancel
      PROVE  OffsetsOK'
  <2>1. /\ UNCHANGED <<log, metaVars, reached>> /\ pending' \in {pending, 0}
        /\ (Running' => Running) /\ Done' \in Done..Len(log)
    BY <1>0, <1>6 DEF Cancel, streamVars, dorisVars, handlerVars, IsDDL,
       Running, Done, InHand, Chunking, Altering, Piecing,
       Flushing, PlaceOK, BufferedOK, metaVars
  <2> QED
    BY <2>1, Ahead
<1>7. ASSUME NEW i \in Index, TakeChunk(i)
      PROVE  OffsetsOK'
  <2>1. /\ UNCHANGED <<log, metaVars, reached>> /\ pending' \in {pending, 0}
        /\ (Running' => Running) /\ Done' \in Done..Len(log)
    BY <1>0, <1>7 DEF TakeChunk, Take, Flush, dorisVars, bufferVars, IsDDL,
       Running, Done, InHand, Chunking, Altering, Piecing,
       Flushing, PlaceOK, BufferedOK, metaVars
  <2> QED
    BY <2>1, Ahead
<1>8. ASSUME NEW i \in Index, TakeComplete(i)
      PROVE  OffsetsOK'
  <2>1. /\ UNCHANGED <<log, metaVars, reached>> /\ pending' \in {pending, 0}
        /\ (Running' => Running) /\ Done' \in Done..Len(log)
    BY <1>0, <1>8 DEF TakeComplete, Take, Flush, dorisVars, bufferVars, IsDDL,
       Running, Done, InHand, Chunking, Altering, Piecing,
       Flushing, PlaceOK, BufferedOK, metaVars
  <2> QED
    BY <2>1, Ahead
<1>9. ASSUME NEW i \in Index, TakeCheckpoint(i)
      PROVE  OffsetsOK'
  <2>1. /\ UNCHANGED <<log, metaVars, reached>> /\ pending' = i
        /\ pc = "idle" /\ pc' = pc
        /\ cursor' = i /\ i = cursor + 1 /\ log[i].kind = "checkpoint"
    BY <1>9 DEF TakeCheckpoint, Take
  <2>2. Done = cursor /\ Done' = i /\ Resume' = Resume /\ Running
    BY <2>1, SameResume
       DEF Done, InHand, Chunking, Altering, Piecing, Flushing,
       Running
  <2>3. Passed(Resume) /\ Resume \in Nat
    BY <1>0, <2>2 DEF OffsetsOK
  <2>4. Passed(Resume)'
    BY <1>0, <2>1, <2>2, <2>3 DEF Passed
  <2>5. Passed(pending)'
    BY <1>0, <2>1, <2>2 DEF Passed
  <2> QED
    BY <2>1, <2>4, <2>5 DEF OffsetsOK, metaVars, Passed
<1>10. ASSUME NEW i \in Index, TakeDDL(i)
       PROVE  OffsetsOK'
  <2>1. /\ UNCHANGED <<log, metaVars, reached>> /\ pending' \in {pending, 0}
        /\ (Running' => Running) /\ Done' \in Done..Len(log)
    BY <1>0, <1>10
       DEF TakeDDL, Take, Flush, dorisVars, bufferVars, FlushedBy, IsDDL,
       Running, Done, InHand, Chunking, Altering, Piecing,
       Flushing, PlaceOK, BufferedOK, metaVars
  <2> QED
    BY <2>1, Ahead
<1>11. ASSUME NEW i \in Index, TakeRow(i)
       PROVE  OffsetsOK'
  <2>1. /\ UNCHANGED <<log, metaVars, reached>> /\ pending' \in {pending, 0}
        /\ (Running' => Running) /\ Done' \in Done..Len(log)
    BY <1>0, <1>11 DEF TakeRow, Take, Flush, dorisVars, IsDDL,
       Running, Done, InHand, Chunking, Altering, Piecing,
       Flushing, PlaceOK, BufferedOK, metaVars
  <2> QED
    BY <2>1, Ahead
<1>12. ASSUME Tick
       PROVE  OffsetsOK'
  <2>1. /\ UNCHANGED <<log, metaVars, reached>> /\ pending' \in {pending, 0}
        /\ (Running' => Running) /\ Done' \in Done..Len(log)
    BY <1>0, <1>12 DEF Tick, streamVars, Flush, dorisVars, bufferVars, TickFlushes, IsDDL,
       Running, Done, InHand, Chunking, Altering, Piecing,
       Flushing, PlaceOK, BufferedOK, metaVars
  <2> QED
    BY <2>1, Ahead
<1>13. ASSUME SourceCloses
       PROVE  OffsetsOK'
  <2>1. /\ UNCHANGED <<log, metaVars, reached>> /\ pending' \in {pending, 0}
        /\ (Running' => Running) /\ Done' \in Done..Len(log)
    BY <1>0, <1>13 DEF SourceCloses, streamVars, Flush, dorisVars, bufferVars, IsDDL,
       Running, Done, InHand, Chunking, Altering, Piecing,
       Flushing, PlaceOK, BufferedOK, metaVars
  <2> QED
    BY <2>1, Ahead
<1>14. ASSUME NEW t \in Targets, SendBatch(t)
       PROVE  OffsetsOK'
  <2>1. /\ UNCHANGED <<log, metaVars, reached>> /\ pending' \in {pending, 0}
        /\ (Running' => Running) /\ Done' \in Done..Len(log)
    BY <1>0, <1>14 DEF SendBatch, streamVars, dorisVars, bufferVars, handlerVars, IsDDL,
       Running, Done, InHand, Chunking, Altering, Piecing,
       Flushing, PlaceOK, BufferedOK, metaVars
  <2> QED
    BY <2>1, Ahead
<1>15. ASSUME SendPiece
       PROVE  OffsetsOK'
  <2>1. /\ UNCHANGED <<log, metaVars, reached>> /\ pending' \in {pending, 0}
        /\ (Running' => Running) /\ Done' \in Done..Len(log)
    BY <1>0, <1>15 DEF SendPiece, streamVars, dorisVars, bufferVars, IsDDL,
       Running, Done, InHand, Chunking, Altering, Piecing,
       Flushing, PlaceOK, BufferedOK, metaVars
  <2> QED
    BY <2>1, Ahead
<1>16. ASSUME LoadAnswered
       PROVE  OffsetsOK'
  <2>1. /\ UNCHANGED <<log, metaVars, reached>> /\ pending' \in {pending, 0}
        /\ (Running' => Running) /\ Done' \in Done..Len(log)
    BY <1>0, <1>16 DEF LoadAnswered, streamVars, dorisVars, IsDDL,
       Running, Done, InHand, Chunking, Altering, Piecing,
       Flushing, PlaceOK, BufferedOK, metaVars
  <2> QED
    BY <2>1, Ahead
<1>17. ASSUME LoadLands
       PROVE  OffsetsOK'
  <2>1. /\ UNCHANGED <<log, metaVars, reached>> /\ pending' \in {pending, 0}
        /\ (Running' => Running) /\ Done' \in Done..Len(log)
    BY <1>0, <1>17 DEF LoadLands, streamVars, bufferVars, handlerVars, IsDDL,
       Running, Done, InHand, Chunking, Altering, Piecing,
       Flushing, PlaceOK, BufferedOK, metaVars
  <2> QED
    BY <2>1, Ahead
<1>18. ASSUME LoadLost
       PROVE  OffsetsOK'
  <2>1. /\ UNCHANGED <<log, metaVars, reached>> /\ pending' \in {pending, 0}
        /\ (Running' => Running) /\ Done' \in Done..Len(log)
    BY <1>0, <1>18 DEF LoadLost, streamVars, dorisVars, bufferVars, handlerVars, IsDDL,
       Running, Done, InHand, Chunking, Altering, Piecing,
       Flushing, PlaceOK, BufferedOK, metaVars
  <2> QED
    BY <2>1, Ahead
<1>19. ASSUME NEW l \in late, LateLands(l)
       PROVE  OffsetsOK'
  <2>1. /\ UNCHANGED <<log, metaVars, reached>> /\ pending' \in {pending, 0}
        /\ (Running' => Running) /\ Done' \in Done..Len(log)
    BY <1>0, <1>19 DEF LateLands, streamVars, bufferVars, handlerVars, IsDDL,
       Running, Done, InHand, Chunking, Altering, Piecing,
       Flushing, PlaceOK, BufferedOK, metaVars
  <2> QED
    BY <2>1, Ahead
<1>20. ASSUME NEW l \in late, LateLost(l)
       PROVE  OffsetsOK'
  <2>1. /\ UNCHANGED <<log, metaVars, reached>> /\ pending' \in {pending, 0}
        /\ (Running' => Running) /\ Done' \in Done..Len(log)
    BY <1>0, <1>20 DEF LateLost, streamVars, bufferVars, handlerVars, IsDDL,
       Running, Done, InHand, Chunking, Altering, Piecing,
       Flushing, PlaceOK, BufferedOK, metaVars
  <2> QED
    BY <2>1, Ahead
<1>21. ASSUME Resend
       PROVE  OffsetsOK'
  <2>1. /\ UNCHANGED <<log, metaVars, reached>> /\ pending' \in {pending, 0}
        /\ (Running' => Running) /\ Done' \in Done..Len(log)
    BY <1>0, <1>21 DEF Resend, streamVars, bufferVars, handlerVars, SameLabel, IsDDL,
       Running, Done, InHand, Chunking, Altering, Piecing,
       Flushing, PlaceOK, BufferedOK, metaVars
  <2> QED
    BY <2>1, Ahead
<1>22. ASSUME CommitOffset
       PROVE  OffsetsOK'
  <2>1. /\ UNCHANGED <<log, progress, confirmed, cursor, reached, todo>>
        /\ \/ pc = "flush" /\ then # "chunk" /\ then' = "none"
                /\ pc' = (IF then = "none" THEN "idle" ELSE then)
           \/ pc = "chunk" /\ pc' = "save" /\ then' = then
    BY <1>22 DEF CommitOffset, streamVars, Continue
  <2>2. then \in {"none", "chunk", "ddl", "confirm", "end"}
    BY DEF TypeOK, PlaceOK
  <2>3. Done' \in Done..Len(log) /\ Running
    <3>1. CASE pc = "flush"
      BY <1>0, <2>1, <2>2, <3>1 DEF Done, InHand, Chunking, Altering, Piecing,
         Flushing, Running
    <3>2. CASE pc = "chunk"
      BY <1>0, <2>1, <3>2
         DEF Done, InHand, Chunking, Altering, Piecing, Flushing,
         Running
    <3> QED
      BY <2>1, <3>1, <3>2
  <2>4. /\ pending \in 0..Len(log) /\ offset \in 0..Len(log)
        /\ pending # 0 => Passed(pending) /\ log[pending].kind = "checkpoint"
        /\ Passed(Resume)
    BY <2>3 DEF OffsetsOK, TypeOK
  <2>5. \A i \in 0..Len(log) : Passed(i) => Passed(i)'
    BY <1>0, <2>1, <2>3 DEF Passed
  <2>6. CASE offset' = offset /\ pending' = pending
    <3>1. Resume' = Resume
      BY <2>1, <2>6, SameResume DEF metaVars
    <3>2. Passed(Resume)' /\ (pending' # 0 => Passed(pending)')
      BY <1>0, <2>4, <2>5, <2>6, <3>1
    <3> QED
      BY <2>1, <2>4, <2>6, <3>2 DEF OffsetsOK, Passed
  <2>7. CASE pending # 0 /\ offset' = pending /\ pending' \in {0, pending}
    <3>1. Resume' = pending
      BY <2>4, <2>7 DEF Resume
    <3>2. Passed(Resume)' /\ (pending' # 0 => Passed(pending)')
      BY <2>4, <2>5, <2>7, <3>1
    <3> QED
      BY <2>1, <2>4, <2>7, <3>2 DEF OffsetsOK, Passed
  <2> QED
    BY <1>22, <2>6, <2>7 DEF CommitOffset, SaveOffset
<1>23. ASSUME FlushedForChunk
       PROVE  OffsetsOK'
  <2>1. /\ UNCHANGED <<log, metaVars, reached>> /\ pending' \in {pending, 0}
        /\ (Running' => Running) /\ Done' \in Done..Len(log)
    BY <1>0, <1>23 DEF FlushedForChunk, streamVars, Continue, dorisVars, bufferVars, IsDDL,
       Running, Done, InHand, Chunking, Altering, Piecing,
       Flushing, PlaceOK, BufferedOK, metaVars
  <2> QED
    BY <2>1, Ahead
<1>24. ASSUME SaveProgress
       PROVE  OffsetsOK'
  <2>1. /\ UNCHANGED <<log, offset, pending>> /\ Running' /\ pending = 0
        /\ offset = 0 /\ Resume' \in 0..Done'
    BY <1>24, SaveProgressStep
  <2> QED
    BY <2>1 DEF OffsetsOK, Passed
<1>25. ASSUME Confirm
       PROVE  OffsetsOK'
  <2>1. /\ UNCHANGED <<log, offset, pending, reached>> /\ Running /\ Running'
        /\ Passed(Resume') /\ Done' = Done
    BY <1>25, ConfirmStep
  <2> QED
    BY <2>1 DEF OffsetsOK, Passed
<1>26. ASSUME applyDDL
       PROVE  OffsetsOK'
  <2>1. /\ UNCHANGED <<log, metaVars, reached>> /\ pending' \in {pending, 0}
        /\ (Running' => Running) /\ Done' \in Done..Len(log)
    BY <1>0, <1>26
       DEF applyDDL, streamVars, bufferVars, handlerVars, AddColumn, Truncate, IsDDL,
       Running, Done, InHand, Chunking, Altering, Piecing,
       Flushing, PlaceOK, BufferedOK, metaVars
  <2> QED
    BY <2>1, Ahead
<1>27. ASSUME SourceAlters
       PROVE  OffsetsOK'
  <2>1. /\ UNCHANGED <<log, metaVars, reached>> /\ pending' \in {pending, 0}
        /\ (Running' => Running) /\ Done' \in Done..Len(log)
    BY <1>0, <1>27 DEF SourceAlters, streamVars, dorisVars, bufferVars, handlerVars, IsDDL,
       Running, Done, InHand, Chunking, Altering, Piecing,
       Flushing, PlaceOK, BufferedOK, metaVars
  <2> QED
    BY <2>1, Ahead
<1>28. ASSUME UNCHANGED vars
       PROVE  OffsetsOK'
  <2>1. /\ UNCHANGED <<log, metaVars, reached>> /\ pending' \in {pending, 0}
        /\ (Running' => Running) /\ Done' \in Done..Len(log)
    BY <1>0, <1>28 DEF vars, streamVars, dorisVars, bufferVars, handlerVars, IsDDL,
       Running, Done, InHand, Chunking, Altering, Piecing,
       Flushing, PlaceOK, BufferedOK, metaVars
  <2> QED
    BY <2>1, Ahead
<1>29. ASSUME SourceReconnect
       PROVE  OffsetsOK'
  <2>1. /\ UNCHANGED <<log, metaVars, pending>> /\ pc = "idle" /\ pc' = "idle"
        /\ reached' = Max({reached, cursor})
    BY <1>29 DEF SourceReconnect, bufferVars
  <2>2. Done = cursor /\ Running /\ Resume' = Resume
    BY <2>1, SameResume
       DEF Done, InHand, Chunking, Altering, Piecing, Flushing, Running
  <2>3. /\ reached \in Nat /\ reached <= reached' /\ cursor <= reached'
        /\ reached' \in Nat /\ pending \in Nat
    <3>1. reached \in Nat /\ cursor \in Nat /\ pending \in Nat
      BY <1>0 DEF TypeOK
    <3> QED
      BY <2>1, <3>1, MaxOfTwo
  <2>4. \A i \in Nat : Passed(i) => Passed(i)'
    BY <1>0, <2>2, <2>3 DEF Passed
  <2>5. Passed(Resume)' /\ (pending' # 0 => Passed(pending)')
    BY <1>0, <2>1, <2>2, <2>3, <2>4 DEF OffsetsOK
  <2> QED
    BY <2>1, <2>5 DEF OffsetsOK, metaVars, Passed
<1> QED
  BY <1>1, <1>2, <1>3, <1>4, <1>5, <1>6, <1>7, <1>8, <1>9, <1>10, <1>11,
     <1>12, <1>13, <1>14, <1>15, <1>16, <1>17, <1>18, <1>19, <1>20, <1>21,
     <1>22, <1>23, <1>24, <1>25, <1>26, <1>27, <1>28, <1>29
  DEF Next, RunStep

(* The same batch is prepared to the same rows.                            *)
LEMMA SameBatch ==
  ASSUME log' = log, UNCHANGED batches, NEW t, load'.target = t
  PROVE  (prepareBatch(batches[load.target], load.target))' =
           prepareBatch(batches[t], t)
BY SameLog DEF prepareBatch

(* A chunk that is sent is cut in two.                                     *)
LEMMA PieceFacts ==
  ASSUME NEW s \in Seq(Keys), s # <<>>
  PROVE  LET n == Min({BatchSize, Len(s)})
             now == SubSeq(s, 1, n)
             rest == SubSeq(s, n + 1, Len(s))
         IN  /\ now \in Seq(Keys) /\ rest \in Seq(Keys)
             /\ Range(s) = Range(now) \cup Range(rest)
<1> DEFINE n == Min({BatchSize, Len(s)})
<1>1. Len(s) \in Nat \ {0} /\ BatchSize \in Nat \ {0}
  BY DorisAssumption, EmptySeq
<1>2. n \in 1..Len(s)
  <2>1. CASE BatchSize <= Len(s)
    <3>1. n = BatchSize
      BY <1>1, <2>1 DEF Min
    <3> QED
      BY <1>1, <2>1, <3>1
  <2>2. CASE ~(BatchSize <= Len(s))
    <3>1. n = Len(s)
      BY <1>1, <2>2 DEF Min
    <3> QED
      BY <1>1, <2>2, <3>1
  <2> QED
    BY <2>1, <2>2
<1> HIDE DEF n
<1> DEFINE now == SubSeq(s, 1, n)
           rest == SubSeq(s, n + 1, Len(s))
<1>3. /\ now \in Seq(Keys) /\ Len(now) = n /\ \A i \in 1..n : now[i] = s[i]
      /\ rest \in Seq(Keys) /\ Len(rest) = Len(s) - n
      /\ \A i \in 1..(Len(s) - n) : rest[i] = s[n + i]
  BY <1>1, <1>2
<1>4. DOMAIN s = 1..Len(s) /\ DOMAIN now = 1..n /\ DOMAIN rest = 1..(Len(s) - n)
  BY <1>3
<1> HIDE DEF now, rest
<1>5. ASSUME NEW x \in Range(s) PROVE x \in Range(now) \cup Range(rest)
  <2>1. PICK i \in 1..Len(s) : x = s[i]
    BY <1>4 DEF Range
  <2>2. CASE i <= n
    <3>1. i \in 1..n /\ now[i] = x
      BY <1>1, <1>2, <1>3, <2>1, <2>2
    <3> QED
      BY <1>4, <3>1 DEF Range
  <2>3. CASE i > n
    <3>1. i - n \in 1..(Len(s) - n) /\ rest[i - n] = x
      BY <1>1, <1>2, <1>3, <2>1, <2>3
    <3> QED
      BY <1>4, <3>1 DEF Range
  <2> QED
    BY <1>2, <2>1, <2>2, <2>3
<1>6. ASSUME NEW x \in Range(now) PROVE x \in Range(s)
  <2>1. PICK i \in 1..n : x = now[i]
    BY <1>4 DEF Range
  <2>2. i \in 1..Len(s) /\ s[i] = x
    BY <1>1, <1>2, <1>3, <2>1
  <2> QED
    BY <1>4, <2>2 DEF Range
<1>7. ASSUME NEW x \in Range(rest) PROVE x \in Range(s)
  <2>1. PICK i \in 1..(Len(s) - n) : x = rest[i]
    BY <1>4 DEF Range
  <2>2. n + i \in 1..Len(s) /\ s[n + i] = x
    BY <1>1, <1>2, <1>3, <2>1
  <2> QED
    BY <1>4, <2>2 DEF Range
<1> QED
  BY <1>3, <1>5, <1>6, <1>7 DEF n, now, rest

(* The load at work is what its handler has sent.                          *)
LEMMA LoadStep ==
  ASSUME TypeOK, PlaceOK, BufferedOK, LoadOK, PieceOK, DataOK,
         [Next]_vars
  PROVE  LoadOK'
<1>1. ASSUME StartRun
      PROVE  LoadOK'
  <2>1. pc # "call" /\ pc' # "call" /\ load' = load
    BY <1>1 DEF StartRun, streamVars, TypeOK, PlaceOK
  <2> QED
    BY <2>1 DEF LoadOK
<1>2. ASSUME EnsureTables
      PROVE  LoadOK'
  <2>1. pc # "call" /\ pc' # "call" /\ load' = load
    BY <1>2 DEF EnsureTables, TypeOK, PlaceOK
  <2> QED
    BY <2>1 DEF LoadOK
<1>3. ASSUME RunFails
      PROVE  LoadOK'
  <2>1. pc' = "down" /\ load' = NoLoad
    BY <1>3 DEF RunFails, EndRun
  <2> QED
    BY <2>1 DEF LoadOK, NoLoad
<1>4. ASSUME RunReturns
      PROVE  LoadOK'
  <2>1. pc' = "down" /\ load' = NoLoad
    BY <1>4 DEF RunReturns, EndRun
  <2> QED
    BY <2>1 DEF LoadOK, NoLoad
<1>5. ASSUME GiveUp
      PROVE  LoadOK'
  <2>1. pc' = "down" /\ load' = NoLoad
    BY <1>5 DEF GiveUp, EndRun
  <2> QED
    BY <2>1 DEF LoadOK, NoLoad
<1>6. ASSUME Cancel
      PROVE  LoadOK'
  <2>1. pc # "call" /\ pc' # "call" /\ load' = load
    BY <1>6 DEF Cancel, streamVars, TypeOK, PlaceOK
  <2> QED
    BY <2>1 DEF LoadOK
<1>7. ASSUME NEW i \in Index, TakeChunk(i)
      PROVE  LoadOK'
  <2>1. pc # "call" /\ pc' # "call" /\ load' = load
    BY <1>7 DEF TakeChunk, Take, Flush, TypeOK, PlaceOK
  <2> QED
    BY <2>1 DEF LoadOK
<1>8. ASSUME NEW i \in Index, TakeComplete(i)
      PROVE  LoadOK'
  <2>1. pc # "call" /\ pc' # "call" /\ load' = load
    BY <1>8 DEF TakeComplete, Take, Flush, TypeOK, PlaceOK
  <2> QED
    BY <2>1 DEF LoadOK
<1>9. ASSUME NEW i \in Index, TakeCheckpoint(i)
      PROVE  LoadOK'
  <2>1. pc # "call" /\ pc' # "call" /\ load' = load
    BY <1>9 DEF TakeCheckpoint, Take, TypeOK, PlaceOK
  <2> QED
    BY <2>1 DEF LoadOK
<1>10. ASSUME NEW i \in Index, TakeDDL(i)
       PROVE  LoadOK'
  <2>1. pc # "call" /\ pc' # "call" /\ load' = load
    BY <1>10 DEF TakeDDL, Take, Flush, TypeOK, PlaceOK
  <2> QED
    BY <2>1 DEF LoadOK
<1>11. ASSUME NEW i \in Index, TakeRow(i)
       PROVE  LoadOK'
  <2>1. pc # "call" /\ pc' # "call" /\ load' = load
    BY <1>11 DEF TakeRow, Take, Flush, TypeOK, PlaceOK
  <2> QED
    BY <2>1 DEF LoadOK
<1>12. ASSUME Tick
       PROVE  LoadOK'
  <2>1. pc # "call" /\ pc' # "call" /\ load' = load
    BY <1>12 DEF Tick, streamVars, Flush, TypeOK, PlaceOK
  <2> QED
    BY <2>1 DEF LoadOK
<1>13. ASSUME SourceCloses
       PROVE  LoadOK'
  <2>1. pc # "call" /\ pc' # "call" /\ load' = load
    BY <1>13 DEF SourceCloses, streamVars, Flush, TypeOK, PlaceOK
  <2> QED
    BY <2>1 DEF LoadOK
<1>14. ASSUME NEW t \in Targets, SendBatch(t)
       PROVE  LoadOK'
  <2>1. /\ UNCHANGED <<log, run, batches, todo>> /\ t \in todo /\ pc' = "call"
        /\ load' = LoadOf(t, prepareBatch(batches[t], t))
    BY <1>14 DEF SendBatch, streamVars, bufferVars, handlerVars
  <2>2. /\ load'.target = t /\ load'.run = run /\ load'.state = "inflight"
        /\ load'.rows = prepareBatch(batches[t], t)
    BY <2>1 DEF LoadOf
  <2>3. (prepareBatch(batches[load.target], load.target))' = prepareBatch(batches[t], t)
    BY <2>1, <2>2, SameBatch
  <2> QED
    BY <2>1, <2>2, <2>3 DEF LoadOK
<1>15. ASSUME SendPiece
       PROVE  LoadOK'
  <2> DEFINE n == Min({BatchSize, Len(piece)})
             now == SubSeq(piece, 1, n)
             rows == [k \in Keys |-> IF k \in Range(now) THEN cursor ELSE 0]
  <2>1. /\ UNCHANGED <<log, run, cursor, todo>> /\ pc = "chunk" /\ pc' = "call"
        /\ load' = LoadOf(log[cursor].target, rows) /\ piece # <<>>
    BY <1>15 DEF SendPiece, streamVars
  <2>2. todo = {} /\ Chunking
    BY <2>1 DEF BufferedOK, Chunking, Piecing
  <2>3. Range(now) \subseteq Range(log[cursor].keys)
    <3>1. piece \in Seq(Keys) /\ Range(piece) \subseteq Range(log[cursor].keys)
      BY <2>2 DEF PieceOK, TypeOK
    <3>2. Range(now) \subseteq Range(piece)
      BY <2>1, <3>1, PieceFacts
    <3> QED
      BY <3>1, <3>2
  <2> HIDE DEF now
  <2>4. /\ load'.target = log[cursor].target /\ load'.run = run
        /\ load'.state = "inflight" /\ load'.rows = rows
    BY <2>1 DEF LoadOf
  <2> QED
    BY <2>1, <2>2, <2>3, <2>4 DEF LoadOK
<1>16. ASSUME LoadAnswered
       PROVE  LoadOK'
  <2>1. pc' # "call" /\ load' = NoLoad
    BY <1>16 DEF LoadAnswered, streamVars
  <2> QED
    BY <2>1 DEF LoadOK, NoLoad
<1>17. ASSUME LoadLands
       PROVE  LoadOK'
  <2>1. /\ UNCHANGED <<log, run, pc, cursor, batches, todo>>
        /\ load.state = "inflight" /\ Apply(load) /\ load \in LoadRecord
        /\ load' = [load EXCEPT !.state = "landed"]
    BY <1>17 DEF LoadLands, streamVars, bufferVars, handlerVars, TypeOK
  <2>2. /\ load'.target = load.target /\ load'.rows = load.rows
        /\ load'.run = load.run /\ load'.state = "landed" /\ pc = "call"
    BY <2>1 DEF LoadOK, LoadRecord
  <2>3. (prepareBatch(batches[load.target], load.target))' =
          prepareBatch(batches[load.target], load.target)
    BY <2>1, <2>2, SameBatch
  <2>4. \A k \in Keys : load.rows[k] # 0 =>
          table'[load.target][k] = load.rows[k] /\ load.rows[k] \in Nat
    BY <2>1, ApplyFacts DEF LoadRecord
  <2> QED
    BY <2>1, <2>2, <2>3, <2>4 DEF LoadOK
<1>18. ASSUME LoadLost
       PROVE  LoadOK'
  <2>1. /\ UNCHANGED <<log, run, pc, cursor, batches, todo>> /\ load \in LoadRecord
        /\ \E s \in {"lost", "inflight"} : load' = [load EXCEPT !.state = s]
    BY <1>18 DEF LoadLost, streamVars, bufferVars, handlerVars, TypeOK
  <2>2. /\ load'.target = load.target /\ load'.rows = load.rows
        /\ load'.run = load.run /\ load'.state \in {"lost", "inflight"}
        /\ pc = "call"
    BY <1>18, <2>1 DEF LoadOK, LoadRecord, LoadLost
  <2>3. (prepareBatch(batches[load.target], load.target))' =
          prepareBatch(batches[load.target], load.target)
    BY <2>1, <2>2, SameBatch
  <2> QED
    BY <2>1, <2>2, <2>3 DEF LoadOK
<1>19. ASSUME NEW l \in late, LateLands(l)
       PROVE  LoadOK'
  <2>1. /\ UNCHANGED <<log, run, pc, cursor, batches, todo, load>>
        /\ Apply(l) /\ l \in LoadRecord /\ load \in LoadRecord
        /\ l.run \in Nat /\ run \in Nat
    BY <1>19, LateFacts DEF LateLands, streamVars, bufferVars, handlerVars, TypeOK
  <2>2. (prepareBatch(batches[load.target], load.target))' =
          prepareBatch(batches[load.target], load.target)
    BY <2>1, SameBatch
  <2>3. ASSUME load.state = "landed", NEW k \in Keys, load.rows[k] # 0,
               <<load.target, k>> \notin stale'
        PROVE  table'[load.target][k] >= load.rows[k]
    <3>1. pc = "call" /\ l.run < run
      BY <2>1, <2>3 DEF LoadOK, DataOK, LateOK
    <3>2. load.target \in Targets /\ table[load.target][k] \in 0..Len(log)
          /\ Len(log) \in Nat /\ load.rows[k] \in Nat /\ l.rows[k] \in Nat
      BY <2>1, LogFacts DEF LoadRecord, TypeOK
    <3>3. <<load.target, k>> \notin stale
          /\ table'[load.target][k] >= table[load.target][k]
          /\ table'[load.target][k] \in Nat
      BY <2>1, <2>3, <3>1, <3>2, ApplyFacts
    <3>4. table[load.target][k] >= load.rows[k]
      BY <2>3, <3>3 DEF LoadOK
    <3> QED
      BY <3>2, <3>3, <3>4
  <2> QED
    BY <2>1, <2>2, <2>3 DEF LoadOK
<1>20. ASSUME NEW l \in late, LateLost(l)
       PROVE  LoadOK'
  <2>1. UNCHANGED <<log, table, stale, run, pc, cursor, batches, todo, load>>
    BY <1>20 DEF LateLost, streamVars, dorisVars, bufferVars, handlerVars
  <2>2. (prepareBatch(batches[load.target], load.target))' =
          prepareBatch(batches[load.target], load.target)
    BY <2>1, SameBatch
  <2> QED
    BY <2>1, <2>2 DEF LoadOK
<1>21. ASSUME Resend
       PROVE  LoadOK'
  <2>1. /\ UNCHANGED <<log, run, pc, cursor, batches, todo>> /\ load \in LoadRecord
        /\ \E s \in {"lost", "inflight"} : load' = [load EXCEPT !.state = s]
    BY <1>21 DEF Resend, streamVars, bufferVars, handlerVars, TypeOK
  <2>2. /\ load'.target = load.target /\ load'.rows = load.rows
        /\ load'.run = load.run /\ load'.state \in {"lost", "inflight"}
        /\ pc = "call"
    BY <1>21, <2>1 DEF LoadOK, LoadRecord, Resend
  <2>3. (prepareBatch(batches[load.target], load.target))' =
          prepareBatch(batches[load.target], load.target)
    BY <2>1, <2>2, SameBatch
  <2> QED
    BY <2>1, <2>2, <2>3 DEF LoadOK
<1>22. ASSUME CommitOffset
       PROVE  LoadOK'
  <2>1. pc # "call" /\ pc' # "call" /\ load' = load
    BY <1>22 DEF CommitOffset, streamVars, Continue, TypeOK, PlaceOK
  <2> QED
    BY <2>1 DEF LoadOK
<1>23. ASSUME FlushedForChunk
       PROVE  LoadOK'
  <2>1. pc # "call" /\ pc' # "call" /\ load' = load
    BY <1>23 DEF FlushedForChunk, streamVars, Continue, TypeOK, PlaceOK
  <2> QED
    BY <2>1 DEF LoadOK
<1>24. ASSUME SaveProgress
       PROVE  LoadOK'
  <2>1. pc # "call" /\ pc' # "call" /\ load' = load
    BY <1>24 DEF SaveProgress, TypeOK, PlaceOK
  <2> QED
    BY <2>1 DEF LoadOK
<1>25. ASSUME Confirm
       PROVE  LoadOK'
  <2>1. pc # "call" /\ pc' # "call" /\ load' = load
    BY <1>25 DEF Confirm, streamVars, TypeOK, PlaceOK
  <2> QED
    BY <2>1 DEF LoadOK
<1>26. ASSUME applyDDL
       PROVE  LoadOK'
  <2>1. pc # "call" /\ pc' # "call" /\ load' = load
    BY <1>26 DEF applyDDL, streamVars, TypeOK, PlaceOK
  <2> QED
    BY <2>1 DEF LoadOK
<1>27. ASSUME SourceAlters
       PROVE  LoadOK'
  <2>1. UNCHANGED <<log, table, stale, run, pc, cursor, batches, todo, load>>
    BY <1>27 DEF SourceAlters, streamVars, dorisVars, bufferVars, handlerVars
  <2>2. (prepareBatch(batches[load.target], load.target))' =
          prepareBatch(batches[load.target], load.target)
    BY <2>1, SameBatch
  <2> QED
    BY <2>1, <2>2 DEF LoadOK
<1>28. ASSUME UNCHANGED vars
       PROVE  LoadOK'
  <2>1. UNCHANGED <<log, table, stale, run, pc, cursor, batches, todo, load>>
    BY <1>28 DEF vars, streamVars, dorisVars, bufferVars, handlerVars
  <2>2. (prepareBatch(batches[load.target], load.target))' =
          prepareBatch(batches[load.target], load.target)
    BY <2>1, SameBatch
  <2> QED
    BY <2>1, <2>2 DEF LoadOK
<1>29. ASSUME SourceReconnect
       PROVE  LoadOK'
  <2>1. pc # "call" /\ pc' # "call" /\ load' = load
    BY <1>29 DEF SourceReconnect, TypeOK, PlaceOK
  <2> QED
    BY <2>1 DEF LoadOK
<1> QED
  BY <1>1, <1>2, <1>3, <1>4, <1>5, <1>6, <1>7, <1>8, <1>9, <1>10, <1>11,
     <1>12, <1>13, <1>14, <1>15, <1>16, <1>17, <1>18, <1>19, <1>20, <1>21,
     <1>22, <1>23, <1>24, <1>25, <1>26, <1>27, <1>28, <1>29
  DEF Next, RunStep

(* A chunk has a table and keys.                                           *)
LEMMA ChunkFacts ==
  ASSUME TypeOK, PlaceOK, Chunking
  PROVE  /\ cursor \in Nat
         /\ log[cursor].target \in Targets
         /\ Range(log[cursor].keys) \subseteq Keys
<1>1. cursor \in Index /\ log[cursor].kind = "chunk"
  BY DEF PlaceOK
<1>2. Index = 1..Len(log) /\ log[cursor] \in Event
  BY <1>1, LogFacts DEF TypeOK
<1>3. log[cursor].target \in Targets
  BY <1>1, <1>2 DEF Event
<1>4. Decides(cursor, log[cursor].target) = Range(log[cursor].keys)
      /\ Decides(cursor, log[cursor].target) \subseteq Keys
  BY <1>1, <1>3, DecidesFacts DEF TypeOK
<1> QED
  BY <1>1, <1>2, <1>3, <1>4

(* Nothing has been sent or written.                                       *)
LEMMA SamePiece ==
  ASSUME PieceOK, UNCHANGED <<log, table, stale, pc, cursor, todo, then, piece>>,
         load'.rows = load.rows
  PROVE  PieceOK'
BY DEF PieceOK, Chunking, Piecing, Flushing

(* Each key of the chunk is accounted for.                                 *)
LEMMA PieceStep ==
  ASSUME TypeOK, PlaceOK, BufferedOK, LoadOK, PieceOK, DataOK,
         [Next]_vars
  PROVE  PieceOK'
<1>0. then \in {"none", "chunk", "ddl", "confirm", "end"}
  BY DEF TypeOK, PlaceOK
<1>1. ASSUME StartRun
      PROVE  PieceOK'
  <2>1. ~Chunking'
    BY <1>0, <1>1 DEF StartRun, streamVars, handlerVars,
       Chunking, Piecing, Flushing
  <2> QED
    BY <2>1 DEF PieceOK
<1>2. ASSUME EnsureTables
      PROVE  PieceOK'
  <2>1. ~Chunking'
    BY <1>0, <1>2 DEF EnsureTables, handlerVars,
       Chunking, Piecing, Flushing
  <2> QED
    BY <2>1 DEF PieceOK
<1>3. ASSUME RunFails
      PROVE  PieceOK'
  <2>1. ~Chunking'
    BY <1>0, <1>3 DEF RunFails, EndRun, handlerVars,
       Chunking, Piecing, Flushing
  <2> QED
    BY <2>1 DEF PieceOK
<1>4. ASSUME RunReturns
      PROVE  PieceOK'
  <2>1. ~Chunking'
    BY <1>0, <1>4 DEF RunReturns, EndRun, handlerVars,
       Chunking, Piecing, Flushing
  <2> QED
    BY <2>1 DEF PieceOK
<1>5. ASSUME GiveUp
      PROVE  PieceOK'
  <2>1. ~Chunking'
    BY <1>0, <1>5 DEF GiveUp, EndRun, handlerVars,
       Chunking, Piecing, Flushing
  <2> QED
    BY <2>1 DEF PieceOK
<1>6. ASSUME Cancel
      PROVE  PieceOK'
  <2>1. ~Chunking'
    BY <1>0, <1>6 DEF Cancel, streamVars, handlerVars,
       Chunking, Piecing, Flushing
  <2> QED
    BY <2>1 DEF PieceOK
<1>7. ASSUME NEW i \in Index, TakeChunk(i)
      PROVE  PieceOK'
  <2>1. log' = log /\ cursor' = i /\ piece' = log[i].keys
    BY <1>7 DEF TakeChunk, Take
  <2> QED
    BY <2>1 DEF PieceOK
<1>8. ASSUME NEW i \in Index, TakeComplete(i)
      PROVE  PieceOK'
  <2>1. ~Chunking'
    BY <1>0, <1>8 DEF TakeComplete, Take, Flush, handlerVars,
       Chunking, Piecing, Flushing
  <2> QED
    BY <2>1 DEF PieceOK
<1>9. ASSUME NEW i \in Index, TakeCheckpoint(i)
      PROVE  PieceOK'
  <2>1. ~Chunking'
    BY <1>0, <1>9 DEF TakeCheckpoint, Take, handlerVars,
       Chunking, Piecing, Flushing
  <2> QED
    BY <2>1 DEF PieceOK
<1>10. ASSUME NEW i \in Index, TakeDDL(i)
       PROVE  PieceOK'
  <2>1. ~Chunking'
    BY <1>0, <1>10 DEF TakeDDL, Take, Flush, handlerVars,
       Chunking, Piecing, Flushing
  <2> QED
    BY <2>1 DEF PieceOK
<1>11. ASSUME NEW i \in Index, TakeRow(i)
       PROVE  PieceOK'
  <2>1. ~Chunking'
    BY <1>0, <1>11 DEF TakeRow, Take, Flush, handlerVars,
       Chunking, Piecing, Flushing
  <2> QED
    BY <2>1 DEF PieceOK
<1>12. ASSUME Tick
       PROVE  PieceOK'
  <2>1. ~Chunking'
    BY <1>0, <1>12 DEF Tick, streamVars, Flush, handlerVars,
       Chunking, Piecing, Flushing
  <2> QED
    BY <2>1 DEF PieceOK
<1>13. ASSUME SourceCloses
       PROVE  PieceOK'
  <2>1. ~Chunking'
    BY <1>0, <1>13 DEF SourceCloses, streamVars, Flush, handlerVars,
       Chunking, Piecing, Flushing
  <2> QED
    BY <2>1 DEF PieceOK
<1>14. ASSUME NEW t \in Targets, SendBatch(t)
       PROVE  PieceOK'
  <2>1. /\ UNCHANGED <<log, table, stale, cursor, todo, then, piece>>
        /\ pc = "flush" /\ pc' = "call" /\ todo # {}
    BY <1>14 DEF SendBatch, streamVars, dorisVars, handlerVars
  <2>2. Chunking' => Chunking
    BY <2>1 DEF Chunking, Piecing, Flushing
  <2> QED
    BY <2>1, <2>2 DEF PieceOK
<1>15. ASSUME SendPiece
       PROVE  PieceOK'
  <2> DEFINE n == Min({BatchSize, Len(piece)})
             now == SubSeq(piece, 1, n)
             rows == [k \in Keys |-> IF k \in Range(now) THEN cursor ELSE 0]
  <2>1. /\ UNCHANGED <<log, table, stale, cursor, todo>>
        /\ pc = "chunk" /\ pc' = "call" /\ piece # <<>> /\ then' = "none"
        /\ piece' = SubSeq(piece, n + 1, Len(piece))
        /\ load' = LoadOf(log[cursor].target, rows)
    BY <1>15 DEF SendPiece, streamVars, dorisVars, PlaceOK
  <2>2. /\ todo = {} /\ Chunking /\ piece \in Seq(Keys)
        /\ load'.rows = rows
    BY <2>1 DEF BufferedOK, Chunking, Piecing, TypeOK, LoadOf
  <2>3. Range(piece) = Range(now) \cup Range(piece')
    BY <2>1, <2>2, PieceFacts
  <2>4. Range(piece) \subseteq Keys
    BY <2>2 DEF Range
  <2> HIDE DEF now
  <2>5. \A k \in Range(now) : load'.rows[k] = cursor
    BY <2>2, <2>3, <2>4
  <2> QED
    BY <2>1, <2>2, <2>3, <2>5 DEF PieceOK
<1>16. ASSUME LoadAnswered
       PROVE  PieceOK'
  <2>1. /\ UNCHANGED <<log, table, stale, cursor, piece, then>>
        /\ pc = "call" /\ load.state = "landed"
        /\ pc' = IF todo = {} THEN "chunk" ELSE "flush"
    BY <1>16 DEF LoadAnswered, streamVars, dorisVars, LabelDone
  <2>2. CASE todo = {}
    <3>1. Chunking /\ then' = "none"
      BY <2>1, <2>2 DEF Chunking, Piecing, PlaceOK
    <3>2. cursor \in Index /\ log[cursor].kind = "chunk"
          /\ cursor # 0 /\ load.target = log[cursor].target
          /\ Range(log[cursor].keys) \subseteq Keys
      <4>1. cursor \in Index /\ log[cursor].kind = "chunk"
        BY <3>1 DEF PlaceOK
      <4>2. Decides(cursor, load.target) \subseteq Keys
            /\ (log[cursor].target = load.target =>
                  Decides(cursor, load.target) = Range(log[cursor].keys))
        BY <4>1, DecidesFacts DEF TypeOK, LoadRecord
      <4> QED
        BY <2>1, <2>2, <4>1, <4>2, LogFacts DEF LoadOK, TypeOK
    <3>3. \A k \in Range(log[cursor].keys) : load.rows[k] = cursor =>
            \/ <<log[cursor].target, k>> \in stale
            \/ table[log[cursor].target][k] >= cursor
      BY <2>1, <3>2 DEF LoadOK
    <3> QED
      BY <2>1, <3>1, <3>3 DEF PieceOK
  <2>3. CASE todo # {}
    <3>1. Chunking' => Chunking
      BY <2>1, <2>3 DEF Chunking, Piecing, Flushing
    <3> QED
      BY <2>1, <2>3, <3>1 DEF PieceOK
  <2> QED
    BY <2>2, <2>3
<1>17. ASSUME LoadLands
       PROVE  PieceOK'
  <2>1. /\ UNCHANGED <<log, pc, cursor, todo, then, piece>>
        /\ load.state = "inflight" /\ Apply(load) /\ load \in LoadRecord
        /\ load' = [load EXCEPT !.state = "landed"]
    BY <1>17 DEF LoadLands, streamVars, bufferVars, handlerVars, TypeOK
  <2>2. load'.rows = load.rows /\ (Chunking' <=> Chunking) /\ pc = "call"
    BY <2>1 DEF LoadRecord, LoadOK, Chunking, Piecing, Flushing
  <2> SUFFICES ASSUME Chunking,
                      NEW k \in Range(log[cursor].keys), k \notin Range(piece),
                      ~(todo = {} /\ load.rows[k] = cursor),
                      <<log[cursor].target, k>> \notin stale'
               PROVE  table'[log[cursor].target][k] >= cursor
    BY <2>1, <2>2 DEF PieceOK
  <2> DEFINE t == log[cursor].target
  <2>3. t \in Targets /\ k \in Keys
    BY ChunkFacts
  <2>4. ~(t = load.target /\ load.rows[k] # 0)
    <3>1. CASE todo = {}
      BY <2>2, <2>3, <3>1 DEF LoadOK
    <3>2. CASE todo # {}
      <4>1. then = "chunk"
        BY <2>2, <3>2 DEF Chunking, Piecing, Flushing
      <4> QED
        BY <4>1 DEF PieceOK
    <3> QED
      BY <3>1, <3>2
  <2>5. table'[t][k] = table[t][k] /\ <<t, k>> \notin stale
    BY <2>1, <2>3, <2>4, ApplyFacts
  <2> QED
    BY <2>2, <2>5 DEF PieceOK
<1>18. ASSUME LoadLost
       PROVE  PieceOK'
  <2>1. /\ UNCHANGED <<log, table, stale, pc, cursor, todo, then, piece>>
        /\ load'.rows = load.rows
    BY <1>18 DEF LoadLost, streamVars, dorisVars, bufferVars, handlerVars, TypeOK,
       LoadRecord
  <2> QED
    BY <2>1, SamePiece
<1>19. ASSUME NEW l \in late, LateLands(l)
       PROVE  PieceOK'
  <2>1. /\ UNCHANGED <<log, pc, cursor, todo, then, piece, load>>
        /\ Apply(l) /\ l \in LoadRecord /\ l.run \in Nat /\ run \in Nat
    BY <1>19, LateFacts DEF LateLands, streamVars, bufferVars, handlerVars
  <2>2. Chunking' <=> Chunking
    BY <2>1 DEF Chunking, Piecing, Flushing
  <2> SUFFICES ASSUME Chunking,
                      NEW k \in Range(log[cursor].keys), k \notin Range(piece),
                      ~(pc = "call" /\ todo = {} /\ load.rows[k] = cursor),
                      <<log[cursor].target, k>> \notin stale'
               PROVE  table'[log[cursor].target][k] >= cursor
    BY <2>1, <2>2 DEF PieceOK
  <2> DEFINE t == log[cursor].target
  <2>3. t \in Targets /\ k \in Keys /\ cursor \in Nat
    BY ChunkFacts
  <2>4. pc # "down" /\ l.run < run
    BY <2>1 DEF Chunking, Piecing, Flushing, DataOK, LateOK
  <2>5. table[t][k] \in Nat /\ l.rows[k] \in Nat
    <3>1. table[t][k] \in 0..Len(log) /\ Len(log) \in Nat
      BY <2>3, LogFacts DEF TypeOK
    <3> QED
      BY <2>3, <3>1, LateFacts
  <2>6. table'[t][k] >= table[t][k] /\ table'[t][k] \in Nat
        /\ <<t, k>> \notin stale
    BY <2>1, <2>3, <2>4, <2>5, ApplyFacts
  <2>7. table[t][k] >= cursor
    BY <2>6 DEF PieceOK
  <2> QED
    BY <2>3, <2>5, <2>6, <2>7
<1>20. ASSUME NEW l \in late, LateLost(l)
       PROVE  PieceOK'
  <2>1. /\ UNCHANGED <<log, table, stale, pc, cursor, todo, then, piece>>
        /\ load'.rows = load.rows
    BY <1>20 DEF LateLost, streamVars, dorisVars, bufferVars, handlerVars, TypeOK,
       LoadRecord
  <2> QED
    BY <2>1, SamePiece
<1>21. ASSUME Resend
       PROVE  PieceOK'
  <2>1. /\ UNCHANGED <<log, table, stale, pc, cursor, todo, then, piece>>
        /\ load'.rows = load.rows
    BY <1>21 DEF Resend, streamVars, dorisVars, bufferVars, handlerVars, TypeOK,
       LoadRecord
  <2> QED
    BY <2>1, SamePiece
<1>22. ASSUME CommitOffset
       PROVE  PieceOK'
  <2>1. ~Chunking'
    BY <1>0, <1>22 DEF CommitOffset, streamVars, Continue, handlerVars,
       Chunking, Piecing, Flushing
  <2> QED
    BY <2>1 DEF PieceOK
<1>23. ASSUME FlushedForChunk
       PROVE  PieceOK'
  <2>1. /\ UNCHANGED <<log, table, stale, cursor, piece>>
        /\ pc = "flush" /\ then = "chunk" /\ then' = "none"
    BY <1>23 DEF FlushedForChunk, Continue, streamVars, dorisVars
  <2> QED
    BY <2>1 DEF PieceOK, Chunking, Flushing
<1>24. ASSUME SaveProgress
       PROVE  PieceOK'
  <2>1. ~Chunking'
    BY <1>0, <1>24 DEF SaveProgress, handlerVars,
       Chunking, Piecing, Flushing
  <2> QED
    BY <2>1 DEF PieceOK
<1>25. ASSUME Confirm
       PROVE  PieceOK'
  <2>1. ~Chunking'
    BY <1>0, <1>25 DEF Confirm, streamVars, handlerVars,
       Chunking, Piecing, Flushing
  <2> QED
    BY <2>1 DEF PieceOK
<1>26. ASSUME applyDDL
       PROVE  PieceOK'
  <2>1. ~Chunking'
    BY <1>0, <1>26 DEF applyDDL, streamVars, handlerVars,
       Chunking, Piecing, Flushing
  <2> QED
    BY <2>1 DEF PieceOK
<1>27. ASSUME SourceAlters
       PROVE  PieceOK'
  <2>1. /\ UNCHANGED <<log, table, stale, pc, cursor, todo, then, piece>>
        /\ load'.rows = load.rows
    BY <1>27 DEF SourceAlters, streamVars, dorisVars, bufferVars, handlerVars, TypeOK,
       LoadRecord
  <2> QED
    BY <2>1, SamePiece
<1>28. ASSUME UNCHANGED vars
       PROVE  PieceOK'
  <2>1. /\ UNCHANGED <<log, table, stale, pc, cursor, todo, then, piece>>
        /\ load'.rows = load.rows
    BY <1>28 DEF vars, streamVars, dorisVars, bufferVars, handlerVars, TypeOK,
       LoadRecord
  <2> QED
    BY <2>1, SamePiece
<1>29. ASSUME SourceReconnect
       PROVE  PieceOK'
  <2>1. ~Chunking'
    BY <1>0, <1>29 DEF SourceReconnect, handlerVars,
       Chunking, Piecing, Flushing
  <2> QED
    BY <2>1 DEF PieceOK
<1> QED
  BY <1>1, <1>2, <1>3, <1>4, <1>5, <1>6, <1>7, <1>8, <1>9, <1>10, <1>11,
     <1>12, <1>13, <1>14, <1>15, <1>16, <1>17, <1>18, <1>19, <1>20, <1>21,
     <1>22, <1>23, <1>24, <1>25, <1>26, <1>27, <1>28, <1>29
  DEF Next, RunStep

-----------------------------------------------------------------------------
(* Types *)

\* The conjuncts of TypeOK, group by group.
CountsType ==
  /\ log \in Logs
  /\ progress \in 0..Len(log) /\ confirmed \in BOOLEAN /\ offset \in 0..Len(log)
  /\ run \in 0..MaxRuns /\ cursor \in 0..Len(log) /\ pending \in 0..Len(log)
  /\ started \in 0..Len(log) /\ reached \in 0..Len(log)
  /\ reconnects \in 0..MaxReconnects
  /\ resends \in 0..MaxResends /\ failures \in 0..MaxSaveFailures

ControlType ==
  /\ altered \in BOOLEAN /\ draining \in BOOLEAN
  /\ column \subseteq Targets /\ bound \subseteq Targets /\ todo \subseteq Targets
  /\ pc \in {"down", "ensure", "idle", "flush", "call", "commit", "chunk",
             "ddl", "confirm", "save", "end"}
  /\ then \in {"none", "chunk", "ddl", "confirm", "save", "end"}
  /\ piece \in Seq(Keys)

(* The places in the log and the bounded counts.                           *)
LEMMA CountsStep ==
  ASSUME TypeOK, PlaceOK, CountsType,
         [Next]_vars
  PROVE  CountsType'
<1>0. /\ Len(log) \in Nat /\ Index = 1..Len(log) /\ log' = log
      /\ Resume \in 0..Len(log) /\ log \in Logs /\ Index' = Index
      /\ {MaxRuns, MaxReconnects, MaxResends, MaxSaveFailures} \subseteq Nat
  BY DoneFacts, LogStep, SameLog, DorisAssumption DEF TypeOK
<1>a. /\ MaxRuns \in Nat /\ MaxReconnects \in Nat /\ MaxResends \in Nat
      /\ MaxSaveFailures \in Nat /\ run \in 0..MaxRuns
      /\ reconnects \in 0..MaxReconnects /\ resends \in 0..MaxResends
      /\ failures \in 0..MaxSaveFailures
  BY <1>0 DEF CountsType
<1>1. ASSUME StartRun
      PROVE  CountsType'
  <2>1. run' \in 0..MaxRuns
    BY <1>a, <1>1 DEF StartRun
  <2>2. UNCHANGED <<log, metaVars, streamVars, pending, resends, failures>>
    BY <1>1 DEF StartRun, bufferVars
  <2> QED
    BY <1>0, <2>1, <2>2 DEF CountsType, metaVars, streamVars
<1>2. ASSUME EnsureTables
      PROVE  CountsType'
  <2>1. started' \in {Resume, CompleteAt}
    <3>1. Resume \in Nat /\ CompleteAt \in Nat
      BY DoneFacts
    <3>2. Max({Resume, CompleteAt}) \in {Resume, CompleteAt}
      BY <3>1, MaxOfTwo
    <3>3. started' = Max({Resume, CompleteAt})
      BY <1>2 DEF EnsureTables
    <3> QED
      BY <3>2, <3>3
  <2>2. started' \in 0..Len(log) /\ cursor' \in 0..Len(log)
    <3>1. cursor' = Resume
      BY <1>2 DEF EnsureTables
    <3> QED
      BY <2>1, <3>1, DoneFacts
  <2>3. UNCHANGED <<log, metaVars, run, reached, reconnects, pending, resends,
                    failures>>
    BY <1>2 DEF EnsureTables
  <2> QED
    BY <1>0, <2>2, <2>3 DEF CountsType, metaVars
<1>3. ASSUME RunFails
      PROVE  CountsType'
  BY <1>0, <1>3 DEF RunFails, EndRun, metaVars, CountsType
<1>4. ASSUME RunReturns
      PROVE  CountsType'
  BY <1>0, <1>4 DEF RunReturns, EndRun, metaVars, CountsType
<1>5. ASSUME GiveUp
      PROVE  CountsType'
  BY <1>0, <1>5 DEF GiveUp, EndRun, metaVars, CountsType
<1>6. ASSUME Cancel
      PROVE  CountsType'
  BY <1>0, <1>6 DEF Cancel, streamVars, metaVars, dorisVars, handlerVars, CountsType
<1>7. ASSUME NEW i \in Index, TakeChunk(i)
      PROVE  CountsType'
  BY <1>0, <1>7
     DEF TakeChunk, Take, Flush, metaVars, dorisVars, bufferVars, CountsType
<1>8. ASSUME NEW i \in Index, TakeComplete(i)
      PROVE  CountsType'
  BY <1>0, <1>8
     DEF TakeComplete, Take, Flush, metaVars, dorisVars, bufferVars,
         CountsType
<1>9. ASSUME NEW i \in Index, TakeCheckpoint(i)
      PROVE  CountsType'
  BY <1>0, <1>9
     DEF TakeCheckpoint, Take, metaVars, dorisVars, handlerVars, CountsType
<1>10. ASSUME NEW i \in Index, TakeDDL(i)
       PROVE  CountsType'
  BY <1>0, <1>10
     DEF TakeDDL, Take, Flush, metaVars, dorisVars, bufferVars, FlushedBy,
         CountsType
<1>11. ASSUME NEW i \in Index, TakeRow(i)
       PROVE  CountsType'
  BY <1>0, <1>11 DEF TakeRow, Take, Flush, metaVars, dorisVars, CountsType
<1>12. ASSUME Tick
       PROVE  CountsType'
  BY <1>0, <1>12
     DEF Tick, streamVars, Flush, metaVars, dorisVars, bufferVars, TickFlushes, CountsType
<1>13. ASSUME SourceCloses
       PROVE  CountsType'
  BY <1>0, <1>13
     DEF SourceCloses, streamVars, Flush, metaVars, dorisVars, bufferVars, CountsType
<1>14. ASSUME NEW t \in Targets, SendBatch(t)
       PROVE  CountsType'
  BY <1>0, <1>14
     DEF SendBatch, streamVars, metaVars, dorisVars, bufferVars, handlerVars, CountsType
<1>15. ASSUME SendPiece
       PROVE  CountsType'
  BY <1>0, <1>15 DEF SendPiece, streamVars, metaVars, dorisVars, bufferVars, CountsType
<1>16. ASSUME LoadAnswered
       PROVE  CountsType'
  BY <1>0, <1>16 DEF LoadAnswered, streamVars, metaVars, dorisVars, CountsType
<1>17. ASSUME LoadLands
       PROVE  CountsType'
  BY <1>0, <1>17 DEF LoadLands, streamVars, metaVars, bufferVars, handlerVars, CountsType
<1>18. ASSUME LoadLost
       PROVE  CountsType'
  BY <1>0, <1>18
     DEF LoadLost, streamVars, metaVars, dorisVars, bufferVars, handlerVars, CountsType
<1>19. ASSUME NEW l \in late, LateLands(l)
       PROVE  CountsType'
  BY <1>0, <1>19 DEF LateLands, streamVars, metaVars, bufferVars, handlerVars, CountsType
<1>20. ASSUME NEW l \in late, LateLost(l)
       PROVE  CountsType'
  BY <1>0, <1>20 DEF LateLost, streamVars, metaVars, bufferVars, handlerVars, CountsType
<1>21. ASSUME Resend
       PROVE  CountsType'
  <2>1. UNCHANGED <<log, metaVars, run, streamVars, pending, failures>>
    BY <1>21 DEF Resend, bufferVars
  <2>2. resends' \in 0..MaxResends
    BY <1>a, <1>21 DEF Resend
  <2> QED
    BY <1>0, <2>1, <2>2 DEF CountsType, metaVars, streamVars
<1>22. ASSUME CommitOffset
       PROVE  CountsType'
  <2>1. UNCHANGED <<log, progress, confirmed, run, streamVars, resends>>
    BY <1>22 DEF CommitOffset
  <2>2. SaveOffset \/ UNCHANGED <<offset, pending, failures>>
    BY <1>22 DEF CommitOffset
  <2>3. /\ offset' \in {offset, pending} /\ pending' \in {0, pending}
        /\ \/ UNCHANGED failures
           \/ failures < MaxSaveFailures /\ failures' = failures + 1
    BY <2>2 DEF SaveOffset
  <2>4. failures' \in 0..MaxSaveFailures
    BY <1>a, <2>3
  <2>5. offset' \in 0..Len(log) /\ pending' \in 0..Len(log)
    <3>1. /\ offset \in 0..Len(log) /\ pending \in 0..Len(log)
          /\ 0 \in 0..Len(log)
      BY <1>0 DEF CountsType
    <3> QED
      BY <2>3, <3>1
  <2> QED
    <3>1. UNCHANGED <<cursor, started, reached, reconnects>>
      BY <2>1 DEF streamVars
    <3>2. log' = log
      BY <1>0
    <3> QED
      BY <2>1, <2>4, <2>5, <3>1, <3>2 DEF CountsType
<1>23. ASSUME FlushedForChunk
       PROVE  CountsType'
  BY <1>0, <1>23
     DEF FlushedForChunk, streamVars, Continue, metaVars, dorisVars, bufferVars,
         CountsType
<1>24. ASSUME SaveProgress
       PROVE  CountsType'
  <2>1. UNCHANGED <<log, confirmed, offset, run, started, reached, reconnects,
                    pending, resends>>
    BY <1>24 DEF SaveProgress, bufferVars
  <2>2. /\ progress' \in {progress, cursor} /\ cursor' \in {cursor, progress'}
        /\ \/ UNCHANGED failures
           \/ failures < MaxSaveFailures /\ failures' = failures + 1
    BY <1>24 DEF SaveProgress
  <2>3. failures' \in 0..MaxSaveFailures
    BY <1>a, <2>2
  <2>4. progress' \in 0..Len(log) /\ cursor' \in 0..Len(log)
    BY <1>0, <2>2 DEF CountsType
  <2> QED
    BY <1>0, <2>1, <2>3, <2>4 DEF CountsType
<1>25. ASSUME Confirm
       PROVE  CountsType'
  BY <1>0, <1>25 DEF Confirm, streamVars, dorisVars, bufferVars, handlerVars, CountsType
<1>26. ASSUME applyDDL
       PROVE  CountsType'
  <2>1. UNCHANGED <<log, metaVars, run, streamVars, pending, resends>>
    BY <1>26 DEF applyDDL, bufferVars
  <2>2. \/ UNCHANGED failures
        \/ failures < MaxSaveFailures /\ failures' = failures + 1
    BY <1>26 DEF applyDDL
  <2>3. failures' \in 0..MaxSaveFailures
    BY <1>a, <2>2
  <2> QED
    BY <1>0, <2>1, <2>3 DEF CountsType, metaVars, streamVars
<1>27. ASSUME SourceAlters
       PROVE  CountsType'
  BY <1>0, <1>27
     DEF SourceAlters, streamVars, metaVars, dorisVars, bufferVars, handlerVars,
         CountsType
<1>28. ASSUME UNCHANGED vars
       PROVE  CountsType'
  BY <1>0, <1>28
     DEF vars, streamVars, metaVars, dorisVars, bufferVars, handlerVars, CountsType
<1>29. ASSUME SourceReconnect
       PROVE  CountsType'
  <2>1. cursor \in Nat /\ started \in 0..Len(log) /\ reached \in Nat
    BY <1>0 DEF CountsType
  <2>2. reached' \in {reached, cursor}
    BY <1>29, <2>1, MaxOfTwo DEF SourceReconnect
  <2>3. reconnects' \in 0..MaxReconnects
    BY <1>a, <1>29 DEF SourceReconnect
  <2>4. /\ UNCHANGED <<log, metaVars, run, started, pending, resends, failures>>
        /\ cursor' = started
    BY <1>29 DEF SourceReconnect, bufferVars
  <2> QED
    BY <1>0, <2>2, <2>3, <2>4 DEF CountsType, metaVars
<1> QED
  BY <1>1, <1>2, <1>3, <1>4, <1>5, <1>6, <1>7, <1>8, <1>9, <1>10, <1>11,
     <1>12, <1>13, <1>14, <1>15, <1>16, <1>17, <1>18, <1>19, <1>20, <1>21,
     <1>22, <1>23, <1>24, <1>25, <1>26, <1>27, <1>28, <1>29
  DEF Next, RunStep

(* Where the run is and what its handler has still to do.                  *)
LEMMA ControlStep ==
  ASSUME TypeOK, PlaceOK, ControlType,
         [Next]_vars
  PROVE  ControlType'
<1>0. /\ Len(log) \in Nat /\ Index = 1..Len(log) /\ log' = log
      /\ Resume \in 0..Len(log) /\ log \in Logs /\ Index' = Index
      /\ {MaxRuns, MaxResends, MaxSaveFailures} \subseteq Nat
  BY DoneFacts, LogStep, SameLog, DorisAssumption DEF TypeOK
<1>a. \A i \in Index : /\ log[i].kind = "chunk" => log[i].keys \in Seq(Keys)
                       /\ log[i].kind \in {"put", "delete"} => log[i].target \in Targets
  BY LogFacts DEF TypeOK, Event
<1>b. cursor \in Index /\ log[cursor].kind = "add" => log[cursor].target \in Targets
  BY LogFacts DEF TypeOK, Event
<1>c. pc = "ddl" => cursor \in Index
  BY DEF PlaceOK, Altering
<1>1. ASSUME StartRun
      PROVE  ControlType'
  BY <1>0, <1>a, <1>b, <1>c, <1>1
     DEF StartRun, streamVars, metaVars, dorisVars, bufferVars, handlerVars, ControlType
<1>2. ASSUME EnsureTables
      PROVE  ControlType'
  BY <1>0, <1>a, <1>b, <1>c, <1>2
     DEF EnsureTables, metaVars, handlerVars, Reconciled, Missing, SourceHas,
         ControlType
<1>3. ASSUME RunFails
      PROVE  ControlType'
  <2>1. /\ UNCHANGED <<altered, column>> /\ pc' = "down" /\ bound' = {}
        /\ draining' = FALSE /\ todo' = {} /\ then' = "none" /\ piece' = <<>>
    BY <1>3 DEF RunFails, EndRun
  <2>2. <<>> \in Seq(Keys)
    OBVIOUS
  <2> QED
    BY <2>1, <2>2 DEF ControlType
<1>4. ASSUME RunReturns
      PROVE  ControlType'
  <2>1. /\ UNCHANGED <<altered, column>> /\ pc' = "down" /\ bound' = {}
        /\ draining' = FALSE /\ todo' = {} /\ then' = "none" /\ piece' = <<>>
    BY <1>4 DEF RunReturns, EndRun
  <2>2. <<>> \in Seq(Keys)
    OBVIOUS
  <2> QED
    BY <2>1, <2>2 DEF ControlType
<1>5. ASSUME GiveUp
      PROVE  ControlType'
  <2>1. /\ UNCHANGED <<altered, column>> /\ pc' = "down" /\ bound' = {}
        /\ draining' = FALSE /\ todo' = {} /\ then' = "none" /\ piece' = <<>>
    BY <1>5 DEF GiveUp, EndRun
  <2>2. <<>> \in Seq(Keys)
    OBVIOUS
  <2> QED
    BY <2>1, <2>2 DEF ControlType
<1>6. ASSUME Cancel
      PROVE  ControlType'
  BY <1>0, <1>a, <1>b, <1>c, <1>6
     DEF Cancel, streamVars, metaVars, dorisVars, handlerVars, ControlType
<1>7. ASSUME NEW i \in Index, TakeChunk(i)
      PROVE  ControlType'
  BY <1>0, <1>a, <1>b, <1>c, <1>7
     DEF TakeChunk, Take, Flush, metaVars, dorisVars, bufferVars, Buffered,
         ControlType
<1>8. ASSUME NEW i \in Index, TakeComplete(i)
      PROVE  ControlType'
  BY <1>0, <1>a, <1>b, <1>c, <1>8
     DEF TakeComplete, Take, Flush, metaVars, dorisVars, bufferVars, Buffered,
         ControlType
<1>9. ASSUME NEW i \in Index, TakeCheckpoint(i)
      PROVE  ControlType'
  BY <1>0, <1>a, <1>b, <1>c, <1>9
     DEF TakeCheckpoint, Take, metaVars, dorisVars, handlerVars, ControlType
<1>10. ASSUME NEW i \in Index, TakeDDL(i)
       PROVE  ControlType'
  BY <1>0, <1>a, <1>b, <1>c, <1>10
     DEF TakeDDL, Take, Flush, metaVars, dorisVars, bufferVars, FlushedBy,
         Buffered, ControlType
<1>11. ASSUME NEW i \in Index, TakeRow(i)
       PROVE  ControlType'
  BY <1>0, <1>a, <1>b, <1>c, <1>11
     DEF TakeRow, Take, Flush, metaVars, dorisVars, ControlType
<1>12. ASSUME Tick
       PROVE  ControlType'
  BY <1>0, <1>a, <1>b, <1>c, <1>12
     DEF Tick, streamVars, Flush, metaVars, dorisVars, bufferVars, TickFlushes, Buffered,
         ControlType
<1>13. ASSUME SourceCloses
       PROVE  ControlType'
  BY <1>0, <1>a, <1>b, <1>c, <1>13
     DEF SourceCloses, streamVars, Flush, metaVars, dorisVars, bufferVars, Buffered,
         ControlType
<1>14. ASSUME NEW t \in Targets, SendBatch(t)
       PROVE  ControlType'
  BY <1>0, <1>a, <1>b, <1>c, <1>14
     DEF SendBatch, streamVars, metaVars, dorisVars, bufferVars, handlerVars, ControlType
<1>15. ASSUME SendPiece
       PROVE  ControlType'
  <2>1. piece' \in Seq(Keys)
    BY <1>15, PieceFacts DEF SendPiece, streamVars, ControlType
  <2>2. UNCHANGED <<altered, bound, draining, column, todo, then>> /\ pc' = "call"
    BY <1>15 DEF SendPiece, streamVars, dorisVars, bufferVars
  <2> QED
    BY <2>1, <2>2 DEF ControlType
<1>16. ASSUME LoadAnswered
       PROVE  ControlType'
  BY <1>0, <1>a, <1>b, <1>c, <1>16
     DEF LoadAnswered, streamVars, metaVars, dorisVars, ControlType
<1>17. ASSUME LoadLands
       PROVE  ControlType'
  BY <1>0, <1>a, <1>b, <1>c, <1>17
     DEF LoadLands, streamVars, metaVars, bufferVars, handlerVars, ControlType
<1>18. ASSUME LoadLost
       PROVE  ControlType'
  BY <1>0, <1>a, <1>b, <1>c, <1>18
     DEF LoadLost, streamVars, metaVars, dorisVars, bufferVars, handlerVars, ControlType
<1>19. ASSUME NEW l \in late, LateLands(l)
       PROVE  ControlType'
  BY <1>0, <1>a, <1>b, <1>c, <1>19
     DEF LateLands, streamVars, metaVars, bufferVars, handlerVars, ControlType
<1>20. ASSUME NEW l \in late, LateLost(l)
       PROVE  ControlType'
  BY <1>0, <1>a, <1>b, <1>c, <1>20
     DEF LateLost, streamVars, metaVars, bufferVars, handlerVars, ControlType
<1>21. ASSUME Resend
       PROVE  ControlType'
  BY <1>0, <1>a, <1>b, <1>c, <1>21
     DEF Resend, streamVars, metaVars, bufferVars, handlerVars, SameLabel, ControlType
<1>22. ASSUME CommitOffset
       PROVE  ControlType'
  <2>1. UNCHANGED <<altered, bound, draining, column, todo, piece>>
    BY <1>22 DEF CommitOffset, streamVars, dorisVars
  <2>2. pc' \in {"idle", "chunk", "ddl", "confirm", "save", "end"}
        /\ then' \in {"none", "chunk", "ddl", "confirm", "save", "end"}
    BY <1>22 DEF CommitOffset, streamVars, Continue, ControlType
  <2> QED
    BY <2>1, <2>2 DEF ControlType
<1>23. ASSUME FlushedForChunk
       PROVE  ControlType'
  BY <1>0, <1>a, <1>b, <1>c, <1>23
     DEF FlushedForChunk, streamVars, Continue, metaVars, dorisVars, bufferVars,
         ControlType
<1>24. ASSUME SaveProgress
       PROVE  ControlType'
  BY <1>0, <1>a, <1>b, <1>c, <1>24
     DEF SaveProgress, dorisVars, bufferVars, handlerVars, ControlType
<1>25. ASSUME Confirm
       PROVE  ControlType'
  BY <1>0, <1>a, <1>b, <1>c, <1>25
     DEF Confirm, streamVars, dorisVars, bufferVars, handlerVars, ControlType
<1>26. ASSUME applyDDL
       PROVE  ControlType'
  BY <1>0, <1>a, <1>b, <1>c, <1>26
     DEF applyDDL, streamVars, metaVars, bufferVars, handlerVars, AddColumn, Truncate,
         ControlType
<1>27. ASSUME SourceAlters
       PROVE  ControlType'
  BY <1>0, <1>a, <1>b, <1>c, <1>27
     DEF SourceAlters, streamVars, metaVars, dorisVars, bufferVars, handlerVars,
         ControlType
<1>28. ASSUME UNCHANGED vars
       PROVE  ControlType'
  BY <1>0, <1>28
     DEF vars, streamVars, metaVars, dorisVars, bufferVars, handlerVars, ControlType
<1>29. ASSUME SourceReconnect
       PROVE  ControlType'
  BY <1>0, <1>a, <1>b, <1>c, <1>29
     DEF SourceReconnect, metaVars, dorisVars, bufferVars, handlerVars,
         ControlType
<1> QED
  BY <1>1, <1>2, <1>3, <1>4, <1>5, <1>6, <1>7, <1>8, <1>9, <1>10, <1>11,
     <1>12, <1>13, <1>14, <1>15, <1>16, <1>17, <1>18, <1>19, <1>20, <1>21,
     <1>22, <1>23, <1>24, <1>25, <1>26, <1>27, <1>28, <1>29
  DEF Next, RunStep

DorisType ==
  /\ table \in [Targets -> [Keys -> 0..Len(log)]]
  /\ narrow \subseteq Targets \X Keys
  /\ late \subseteq LoadRecord
  /\ stale \subseteq Targets \X Keys
  /\ load \in LoadRecord

(* What a run sends is a load.                                             *)
LEMMA SentType ==
  ASSUME TypeOK
  PROVE  /\ NoLoad \in LoadRecord
         /\ \A t \in Targets : LoadOf(t, prepareBatch(batches[t], t)) \in LoadRecord
         /\ \A t \in Targets, rows \in [Keys -> Nat] : LoadOf(t, rows) \in LoadRecord
<1>1. \A t \in Targets, rows \in [Keys -> Nat] : LoadOf(t, rows) \in LoadRecord
  BY DEF LoadOf, LoadRecord, TypeOK
<1>2. ASSUME NEW t \in Targets
      PROVE  prepareBatch(batches[t], t) \in [Keys -> Nat]
  <2>1. batches[t] \in Seq(Index) /\ log \in Logs
    BY DEF TypeOK
  <2>2. \A k \in Keys : prepareBatch(batches[t], t)[k] \in Nat
    BY <2>1, BatchFacts, LogFacts
  <2>3. prepareBatch(batches[t], t) =
          [k \in Keys |-> prepareBatch(batches[t], t)[k]]
    BY DEF prepareBatch
  <2> QED
    BY <2>2, <2>3
<1>3. NoLoad \in LoadRecord
  <2>1. (CHOOSE t \in Targets : TRUE) \in Targets
    BY DorisAssumption
  <2>2. 0 \in 0..MaxRuns
    BY DorisAssumption
  <2> QED
    BY <2>1, <2>2 DEF NoLoad, LoadRecord
<1> QED
  BY <1>1, <1>2, <1>3

(* A load that lands leaves tables and marks well-formed.                  *)
LEMMA ApplyType ==
  ASSUME TypeOK, NEW l \in LoadRecord, LoadCells(l), Apply(l)
  PROVE  /\ table' \in [Targets -> [Keys -> 0..Len(log)]]
         /\ narrow' \subseteq Targets \X Keys
         /\ stale' \subseteq Targets \X Keys
<1>1. l.target \in Targets /\ Index = 1..Len(log) /\ Len(log) \in Nat
  BY LogFacts DEF LoadRecord, TypeOK
<1>2. \A k \in Keys : l.rows[k] \in 0..Len(log)
  BY <1>1 DEF LoadCells
<1>3. [k \in Keys |-> IF l.rows[k] = 0 THEN table[l.target][k] ELSE l.rows[k]]
        \in [Keys -> 0..Len(log)]
  BY <1>1, <1>2 DEF TypeOK
<1>4. table' = [table EXCEPT ![l.target] =
         [k \in Keys |-> IF l.rows[k] = 0 THEN table[l.target][k] ELSE l.rows[k]]]
  BY <1>1 DEF Apply, TypeOK
<1>5. table' \in [Targets -> [Keys -> 0..Len(log)]]
  BY <1>1, <1>3, <1>4 DEF TypeOK
<1>6. narrow' \subseteq Targets \X Keys
  BY <1>1 DEF Apply, Lacking, TypeOK
<1>7. stale' \subseteq Targets \X Keys
  BY <1>1 DEF Apply, TypeOK
<1> QED
  BY <1>5, <1>6, <1>7

(* What Doris has and is sent.                                             *)
LEMMA DorisStep ==
  ASSUME TypeOK, PlaceOK, StreamOK, OffsetsOK, LoadOK, DataOK, DorisType,
         [Next]_vars
  PROVE  DorisType'
<1>0. log' = log
  BY LogStep
<1>1. ASSUME StartRun
      PROVE  DorisType'
  <2>1. UNCHANGED <<table, narrow, late, stale, load>>
    BY <1>1 DEF StartRun, streamVars, dorisVars
  <2> QED
    BY <1>0, <2>1 DEF DorisType
<1>2. ASSUME EnsureTables
      PROVE  DorisType'
  <2>1. UNCHANGED <<table, narrow, late, stale, load>>
    BY <1>2 DEF EnsureTables, dorisVars
  <2> QED
    BY <1>0, <2>1 DEF DorisType
<1>3. ASSUME RunFails
      PROVE  DorisType'
  <2>1. PICK left \in {{}, {LoadOf(t, prepareBatch(batches[t], t)) : t \in Buffered}} :
          EndRun(left \cup InFlight)
    BY <1>3 DEF RunFails
  <2>2. UNCHANGED <<table, narrow, stale>> /\ load' = NoLoad
        /\ late' = late \cup left \cup InFlight
    BY <1>3, <2>1 DEF RunFails, EndRun
  <2>3. left \cup InFlight \subseteq LoadRecord
    BY <2>1, SentType DEF Buffered, InFlight, DorisType
  <2>4. late' \subseteq LoadRecord /\ load' \in LoadRecord
    BY <2>2, <2>3, SentType DEF DorisType
  <2> QED
    BY <1>0, <2>2, <2>4 DEF DorisType
<1>4. ASSUME RunReturns
      PROVE  DorisType'
  <2>1. UNCHANGED <<table, narrow, stale, late>> /\ load' = NoLoad
    BY <1>4 DEF RunReturns, EndRun
  <2> QED
    BY <1>0, <2>1, SentType DEF DorisType
<1>5. ASSUME GiveUp
      PROVE  DorisType'
  <2>1. UNCHANGED <<table, narrow, stale, late>> /\ load' = NoLoad
    BY <1>5 DEF GiveUp, EndRun
  <2> QED
    BY <1>0, <2>1, SentType DEF DorisType
<1>6. ASSUME Cancel
      PROVE  DorisType'
  <2>1. UNCHANGED <<table, narrow, late, stale, load>>
    BY <1>6 DEF Cancel, streamVars, dorisVars
  <2> QED
    BY <1>0, <2>1 DEF DorisType
<1>7. ASSUME NEW i \in Index, TakeChunk(i)
      PROVE  DorisType'
  <2>1. UNCHANGED <<table, narrow, late, stale, load>>
    BY <1>7 DEF TakeChunk, dorisVars
  <2> QED
    BY <1>0, <2>1 DEF DorisType
<1>8. ASSUME NEW i \in Index, TakeComplete(i)
      PROVE  DorisType'
  <2>1. UNCHANGED <<table, narrow, late, stale, load>>
    BY <1>8 DEF TakeComplete, dorisVars
  <2> QED
    BY <1>0, <2>1 DEF DorisType
<1>9. ASSUME NEW i \in Index, TakeCheckpoint(i)
      PROVE  DorisType'
  <2>1. UNCHANGED <<table, narrow, late, stale, load>>
    BY <1>9 DEF TakeCheckpoint, dorisVars
  <2> QED
    BY <1>0, <2>1 DEF DorisType
<1>10. ASSUME NEW i \in Index, TakeDDL(i)
       PROVE  DorisType'
  <2>1. UNCHANGED <<table, narrow, late, stale, load>>
    BY <1>10 DEF TakeDDL, dorisVars
  <2> QED
    BY <1>0, <2>1 DEF DorisType
<1>11. ASSUME NEW i \in Index, TakeRow(i)
       PROVE  DorisType'
  <2>1. UNCHANGED <<table, narrow, late, stale, load>>
    BY <1>11 DEF TakeRow, dorisVars
  <2> QED
    BY <1>0, <2>1 DEF DorisType
<1>12. ASSUME Tick
       PROVE  DorisType'
  <2>1. UNCHANGED <<table, narrow, late, stale, load>>
    BY <1>12 DEF Tick, streamVars, dorisVars
  <2> QED
    BY <1>0, <2>1 DEF DorisType
<1>13. ASSUME SourceCloses
       PROVE  DorisType'
  <2>1. UNCHANGED <<table, narrow, late, stale, load>>
    BY <1>13 DEF SourceCloses, streamVars, dorisVars
  <2> QED
    BY <1>0, <2>1 DEF DorisType
<1>14. ASSUME NEW t \in Targets, SendBatch(t)
       PROVE  DorisType'
  <2>1. UNCHANGED <<table, narrow, late, stale>>
        /\ load' = LoadOf(t, prepareBatch(batches[t], t))
    BY <1>14 DEF SendBatch, streamVars, dorisVars
  <2> QED
    BY <1>0, <2>1, SentType DEF DorisType
<1>15. ASSUME SendPiece
       PROVE  DorisType'
  <2>1. UNCHANGED <<table, narrow, late, stale>> /\ pc = "chunk"
    BY <1>15 DEF SendPiece, streamVars, dorisVars
  <2>2. log[cursor].target \in Targets /\ cursor \in Nat
    BY <2>1, ChunkFacts DEF Chunking, Piecing
  <2>3. load' \in LoadRecord
    <3>1. \E rows \in [Keys -> Nat] : load' = LoadOf(log[cursor].target, rows)
      <4> DEFINE now == SubSeq(piece, 1, Min({BatchSize, Len(piece)}))
                 rows == [k \in Keys |-> IF k \in Range(now) THEN cursor ELSE 0]
      <4>1. load' = LoadOf(log[cursor].target, rows)
        BY <1>15 DEF SendPiece, streamVars
      <4> HIDE DEF now
      <4>2. rows \in [Keys -> Nat]
        BY <2>2
      <4> QED
        BY <4>1, <4>2
    <3> QED
      BY <2>2, <3>1, SentType
  <2> QED
    BY <1>0, <2>1, <2>3 DEF DorisType
<1>16. ASSUME LoadAnswered
       PROVE  DorisType'
  <2>1. UNCHANGED <<table, narrow, late, stale>> /\ load' = NoLoad
    BY <1>16 DEF LoadAnswered, streamVars, dorisVars
  <2> QED
    BY <1>0, <2>1, SentType DEF DorisType
<1>17. ASSUME LoadLands
       PROVE  DorisType'
  <2>1. Apply(load) /\ late' = late /\ load' = [load EXCEPT !.state = "landed"]
        /\ load.state = "inflight"
    BY <1>17 DEF LoadLands, streamVars
  <2>2. load \in LoadRecord /\ LoadCells(load)
    BY <2>1, SentCells DEF DorisType
  <2>3. load' \in LoadRecord
    BY <2>1, <2>2 DEF LoadRecord
  <2> QED
    BY <1>0, <2>1, <2>2, <2>3, ApplyType DEF DorisType
<1>18. ASSUME LoadLost
       PROVE  DorisType'
  <2>1. UNCHANGED <<table, narrow, late, stale>>
        /\ \E s \in {"lost", "inflight"} : load' = [load EXCEPT !.state = s]
    BY <1>18 DEF LoadLost, streamVars, dorisVars
  <2>2. load' \in LoadRecord
    BY <2>1 DEF DorisType, LoadRecord
  <2> QED
    BY <1>0, <2>1, <2>2 DEF DorisType
<1>19. ASSUME NEW l \in late, LateLands(l)
       PROVE  DorisType'
  <2>1. Apply(l) /\ late' \subseteq late /\ load' = load
    BY <1>19 DEF LateLands, streamVars
  <2>2. l \in LoadRecord /\ LoadCells(l)
    BY DEF DataOK, LateOK, DorisType
  <2> QED
    BY <1>0, <2>1, <2>2, ApplyType DEF DorisType
<1>20. ASSUME NEW l \in late, LateLost(l)
       PROVE  DorisType'
  <2>1. UNCHANGED <<table, narrow, stale, load>> /\ late' \subseteq late
    BY <1>20 DEF LateLost, streamVars
  <2> QED
    BY <1>0, <2>1 DEF DorisType
<1>21. ASSUME Resend
       PROVE  DorisType'
  <2>1. UNCHANGED <<table, narrow, late, stale>>
        /\ \E s \in {"lost", "inflight"} : load' = [load EXCEPT !.state = s]
    BY <1>21 DEF Resend, streamVars, SameLabel, dorisVars
  <2>2. load' \in LoadRecord
    BY <2>1 DEF DorisType, LoadRecord
  <2> QED
    BY <1>0, <2>1, <2>2 DEF DorisType
<1>22. ASSUME CommitOffset
       PROVE  DorisType'
  <2>1. UNCHANGED <<table, narrow, late, stale, load>>
    BY <1>22 DEF CommitOffset, streamVars, dorisVars
  <2> QED
    BY <1>0, <2>1 DEF DorisType
<1>23. ASSUME FlushedForChunk
       PROVE  DorisType'
  <2>1. UNCHANGED <<table, narrow, late, stale, load>>
    BY <1>23 DEF FlushedForChunk, streamVars, dorisVars
  <2> QED
    BY <1>0, <2>1 DEF DorisType
<1>24. ASSUME SaveProgress
       PROVE  DorisType'
  <2>1. UNCHANGED <<table, narrow, late, stale, load>>
    BY <1>24 DEF SaveProgress, dorisVars
  <2> QED
    BY <1>0, <2>1 DEF DorisType
<1>25. ASSUME Confirm
       PROVE  DorisType'
  <2>1. UNCHANGED <<table, narrow, late, stale, load>>
    BY <1>25 DEF Confirm, streamVars, dorisVars
  <2> QED
    BY <1>0, <2>1 DEF DorisType
<1>26. ASSUME applyDDL
       PROVE  DorisType'
  <2>1. late' = late /\ load' = load /\ cursor \in 0..Len(log)
    BY <1>26 DEF applyDDL, streamVars, TypeOK
  <2>2. CASE AddColumn(log[cursor].target)
    BY <1>0, <2>1, <2>2 DEF AddColumn, DorisType
  <2>3. CASE Truncate(log[cursor].target)
    BY <1>0, <2>1, <2>3 DEF Truncate, DorisType
  <2> QED
    BY <1>26, <2>2, <2>3 DEF applyDDL, streamVars
<1>27. ASSUME SourceAlters
       PROVE  DorisType'
  <2>1. UNCHANGED <<table, narrow, late, stale, load>>
    BY <1>27 DEF SourceAlters, streamVars, dorisVars
  <2> QED
    BY <1>0, <2>1 DEF DorisType
<1>28. ASSUME UNCHANGED vars
       PROVE  DorisType'
  BY <1>0, <1>28 DEF vars, streamVars, dorisVars, DorisType
<1>29. ASSUME SourceReconnect
       PROVE  DorisType'
  <2>1. UNCHANGED <<table, narrow, late, stale, load>>
    BY <1>29 DEF SourceReconnect, dorisVars
  <2> QED
    BY <1>0, <2>1 DEF DorisType
<1> QED
  BY <1>1, <1>2, <1>3, <1>4, <1>5, <1>6, <1>7, <1>8, <1>9, <1>10, <1>11,
     <1>12, <1>13, <1>14, <1>15, <1>16, <1>17, <1>18, <1>19, <1>20, <1>21,
     <1>22, <1>23, <1>24, <1>25, <1>26, <1>27, <1>28, <1>29
  DEF Next, RunStep

(* Batches hold events of the log.                                         *)
LEMMA BatchesStep ==
  ASSUME TypeOK,
         [Next]_vars
  PROVE  batches' \in [Targets -> Seq(Index')]
<1>0. Index' = Index /\ batches \in [Targets -> Seq(Index)]
  BY LogStep, SameLog DEF TypeOK
<1>1. ASSUME StartRun
      PROVE  batches' \in [Targets -> Seq(Index')]
  BY <1>0, <1>1 DEF StartRun, streamVars, bufferVars
<1>2. ASSUME EnsureTables
      PROVE  batches' \in [Targets -> Seq(Index')]
  BY <1>0, <1>2 DEF EnsureTables, bufferVars
<1>3. ASSUME RunFails
      PROVE  batches' \in [Targets -> Seq(Index')]
  BY <1>0, <1>3 DEF RunFails, EndRun
<1>4. ASSUME RunReturns
      PROVE  batches' \in [Targets -> Seq(Index')]
  BY <1>0, <1>4 DEF RunReturns, EndRun
<1>5. ASSUME GiveUp
      PROVE  batches' \in [Targets -> Seq(Index')]
  BY <1>0, <1>5 DEF GiveUp, EndRun
<1>6. ASSUME Cancel
      PROVE  batches' \in [Targets -> Seq(Index')]
  BY <1>0, <1>6 DEF Cancel, streamVars, bufferVars
<1>7. ASSUME NEW i \in Index, TakeChunk(i)
      PROVE  batches' \in [Targets -> Seq(Index')]
  BY <1>0, <1>7 DEF TakeChunk, bufferVars
<1>8. ASSUME NEW i \in Index, TakeComplete(i)
      PROVE  batches' \in [Targets -> Seq(Index')]
  BY <1>0, <1>8 DEF TakeComplete, bufferVars
<1>9. ASSUME NEW i \in Index, TakeCheckpoint(i)
      PROVE  batches' \in [Targets -> Seq(Index')]
  BY <1>0, <1>9 DEF TakeCheckpoint, bufferVars
<1>10. ASSUME NEW i \in Index, TakeDDL(i)
       PROVE  batches' \in [Targets -> Seq(Index')]
  BY <1>0, <1>10 DEF TakeDDL, bufferVars
<1>11. ASSUME NEW i \in Index, TakeRow(i)
       PROVE  batches' \in [Targets -> Seq(Index')]
  <2>1. log[i].target \in Targets
    BY <1>11, LogFacts DEF TakeRow, TypeOK, Event
  <2>2. Append(batches[log[i].target], i) \in Seq(Index)
    BY <1>0, <2>1
  <2> QED
    BY <1>0, <2>1, <2>2, <1>11 DEF TakeRow
<1>12. ASSUME Tick
       PROVE  batches' \in [Targets -> Seq(Index')]
  BY <1>0, <1>12 DEF Tick, streamVars, bufferVars
<1>13. ASSUME SourceCloses
       PROVE  batches' \in [Targets -> Seq(Index')]
  BY <1>0, <1>13 DEF SourceCloses, streamVars, bufferVars
<1>14. ASSUME NEW t \in Targets, SendBatch(t)
       PROVE  batches' \in [Targets -> Seq(Index')]
  BY <1>0, <1>14 DEF SendBatch, streamVars, bufferVars
<1>15. ASSUME SendPiece
       PROVE  batches' \in [Targets -> Seq(Index')]
  BY <1>0, <1>15 DEF SendPiece, streamVars, bufferVars
<1>16. ASSUME LoadAnswered
       PROVE  batches' \in [Targets -> Seq(Index')]
  <2>1. <<>> \in Seq(Index)
    OBVIOUS
  <2>2. batches' \in {batches, [batches EXCEPT ![load.target] = <<>>]}
    BY <1>16 DEF LoadAnswered
  <2> QED
    BY <1>0, <2>1, <2>2
<1>17. ASSUME LoadLands
       PROVE  batches' \in [Targets -> Seq(Index')]
  BY <1>0, <1>17 DEF LoadLands, streamVars, bufferVars
<1>18. ASSUME LoadLost
       PROVE  batches' \in [Targets -> Seq(Index')]
  BY <1>0, <1>18 DEF LoadLost, streamVars, bufferVars
<1>19. ASSUME NEW l \in late, LateLands(l)
       PROVE  batches' \in [Targets -> Seq(Index')]
  BY <1>0, <1>19 DEF LateLands, streamVars, bufferVars
<1>20. ASSUME NEW l \in late, LateLost(l)
       PROVE  batches' \in [Targets -> Seq(Index')]
  BY <1>0, <1>20 DEF LateLost, streamVars, bufferVars
<1>21. ASSUME Resend
       PROVE  batches' \in [Targets -> Seq(Index')]
  BY <1>0, <1>21 DEF Resend, streamVars, bufferVars
<1>22. ASSUME CommitOffset
       PROVE  batches' \in [Targets -> Seq(Index')]
  BY <1>0, <1>22 DEF CommitOffset, streamVars, bufferVars
<1>23. ASSUME FlushedForChunk
       PROVE  batches' \in [Targets -> Seq(Index')]
  BY <1>0, <1>23 DEF FlushedForChunk, streamVars, bufferVars
<1>24. ASSUME SaveProgress
       PROVE  batches' \in [Targets -> Seq(Index')]
  BY <1>0, <1>24 DEF SaveProgress, bufferVars
<1>25. ASSUME Confirm
       PROVE  batches' \in [Targets -> Seq(Index')]
  BY <1>0, <1>25 DEF Confirm, streamVars, bufferVars
<1>26. ASSUME applyDDL
       PROVE  batches' \in [Targets -> Seq(Index')]
  BY <1>0, <1>26 DEF applyDDL, streamVars, bufferVars
<1>27. ASSUME SourceAlters
       PROVE  batches' \in [Targets -> Seq(Index')]
  BY <1>0, <1>27 DEF SourceAlters, streamVars, bufferVars
<1>28. ASSUME UNCHANGED vars
       PROVE  batches' \in [Targets -> Seq(Index')]
  BY <1>0, <1>28 DEF vars, streamVars, bufferVars
<1>29. ASSUME SourceReconnect
       PROVE  batches' \in [Targets -> Seq(Index')]
  BY <1>0, <1>29 DEF SourceReconnect, bufferVars
<1> QED
  BY <1>1, <1>2, <1>3, <1>4, <1>5, <1>6, <1>7, <1>8, <1>9, <1>10, <1>11,
     <1>12, <1>13, <1>14, <1>15, <1>16, <1>17, <1>18, <1>19, <1>20, <1>21,
     <1>22, <1>23, <1>24, <1>25, <1>26, <1>27, <1>28, <1>29
  DEF Next, RunStep

(* What has been delivered again changes when an event is taken.           *)
LEMMA AgainStep ==
  ASSUME TypeOK,
         [Next]_vars
  PROVE  again' = again \/ \E i \in Index : Take(i)
<1>1. ASSUME StartRun
      PROVE  again' = again
  BY <1>1 DEF StartRun, streamVars
<1>2. ASSUME EnsureTables
      PROVE  again' = again
  BY <1>2 DEF EnsureTables
<1>3. ASSUME RunFails
      PROVE  again' = again
  BY <1>3 DEF RunFails, EndRun
<1>4. ASSUME RunReturns
      PROVE  again' = again
  BY <1>4 DEF RunReturns, EndRun
<1>5. ASSUME GiveUp
      PROVE  again' = again
  BY <1>5 DEF GiveUp, EndRun
<1>6. ASSUME Cancel
      PROVE  again' = again
  BY <1>6 DEF Cancel, streamVars
<1>7. ASSUME NEW i \in Index, TakeChunk(i)
      PROVE  Take(i)
  BY <1>7 DEF TakeChunk
<1>8. ASSUME NEW i \in Index, TakeComplete(i)
      PROVE  Take(i)
  BY <1>8 DEF TakeComplete
<1>9. ASSUME NEW i \in Index, TakeCheckpoint(i)
      PROVE  Take(i)
  BY <1>9 DEF TakeCheckpoint
<1>10. ASSUME NEW i \in Index, TakeDDL(i)
       PROVE  Take(i)
  BY <1>10 DEF TakeDDL
<1>11. ASSUME NEW i \in Index, TakeRow(i)
       PROVE  Take(i)
  BY <1>11 DEF TakeRow
<1>12. ASSUME Tick
       PROVE  again' = again
  BY <1>12 DEF Tick, streamVars
<1>13. ASSUME SourceCloses
       PROVE  again' = again
  BY <1>13 DEF SourceCloses, streamVars
<1>14. ASSUME NEW t \in Targets, SendBatch(t)
       PROVE  again' = again
  BY <1>14 DEF SendBatch, streamVars
<1>15. ASSUME SendPiece
       PROVE  again' = again
  BY <1>15 DEF SendPiece, streamVars
<1>16. ASSUME LoadAnswered
       PROVE  again' = again
  BY <1>16 DEF LoadAnswered, streamVars
<1>17. ASSUME LoadLands
       PROVE  again' = again
  BY <1>17 DEF LoadLands, streamVars
<1>18. ASSUME LoadLost
       PROVE  again' = again
  BY <1>18 DEF LoadLost, streamVars
<1>19. ASSUME NEW l \in late, LateLands(l)
       PROVE  again' = again
  BY <1>19 DEF LateLands, streamVars
<1>20. ASSUME NEW l \in late, LateLost(l)
       PROVE  again' = again
  BY <1>20 DEF LateLost, streamVars
<1>21. ASSUME Resend
       PROVE  again' = again
  BY <1>21 DEF Resend, streamVars
<1>22. ASSUME CommitOffset
       PROVE  again' = again
  BY <1>22 DEF CommitOffset, streamVars
<1>23. ASSUME FlushedForChunk
       PROVE  again' = again
  BY <1>23 DEF FlushedForChunk, streamVars
<1>24. ASSUME SaveProgress
       PROVE  again' = again
  BY <1>24 DEF SaveProgress
<1>25. ASSUME Confirm
       PROVE  again' = again
  BY <1>25 DEF Confirm, streamVars
<1>26. ASSUME applyDDL
       PROVE  again' = again
  BY <1>26 DEF applyDDL, streamVars
<1>27. ASSUME SourceAlters
       PROVE  again' = again
  BY <1>27 DEF SourceAlters, streamVars
<1>28. ASSUME UNCHANGED vars
       PROVE  again' = again
  BY <1>28 DEF vars, streamVars
<1>29. ASSUME SourceReconnect
       PROVE  again' = again
  BY <1>29 DEF SourceReconnect
<1> QED
  BY <1>1, <1>2, <1>3, <1>4, <1>5, <1>6, <1>7, <1>8, <1>9, <1>10, <1>11,
     <1>12, <1>13, <1>14, <1>15, <1>16, <1>17, <1>18, <1>19, <1>20, <1>21,
     <1>22, <1>23, <1>24, <1>25, <1>26, <1>27, <1>28, <1>29
  DEF Next, RunStep

(* The types follow from their parts and from what the batches hold.       *)
LEMMA TypeStep ==
  ASSUME TypeOK, PlaceOK, BufferedOK, SizeOK, StreamOK, OffsetsOK, LoadOK,
         DataOK, [Next]_vars
  PROVE  TypeOK'
<1>1. CountsType /\ ControlType /\ DorisType
  BY DEF TypeOK, CountsType, ControlType, DorisType
<1>2. CountsType' /\ ControlType' /\ DorisType' /\ SizeOK'
  BY <1>1, CountsStep, ControlStep, DorisStep, SizeStep
<1>3. batches' \in [Targets -> Seq(Index')]
  BY BatchesStep
<1>4. \A t \in Targets : Len(batches'[t]) <= BatchSize
  <2>1. \A t \in Targets : Len(batches'[t]) \in Nat
    BY <1>3
  <2> QED
    BY <1>2, <2>1, DorisAssumption DEF SizeOK
<1>5. again' \in [Targets -> [Keys -> 0..Len(log')]]
  BY AgainStep, TakenAgain, LogStep DEF TypeOK
<1> QED
  BY <1>2, <1>3, <1>4, <1>5 DEF TypeOK, CountsType, ControlType, DorisType

(* The parts of the invariant carry each other through every step.         *)
LEMMA DorisInvStep ==
  ASSUME DorisInv, [Next]_vars
  PROVE  DorisInv'
<1>1. /\ TypeOK /\ PlaceOK /\ BufferedOK /\ SizeOK /\ StreamOK /\ OffsetsOK
      /\ LoadOK /\ PieceOK /\ AlterOK /\ DataOK
  BY DEF DorisInv, DataOK
<1>2. TypeOK' /\ PlaceOK' /\ BufferedOK' /\ SizeOK'
  BY <1>1, TypeStep, PlaceStep, BufferedStep, SizeStep
<1>3. StreamOK' /\ AlterOK' /\ OffsetsOK' /\ LoadOK' /\ PieceOK'
  BY <1>1, StreamStep, OffsetsStep, LoadStep, PieceStep
<1>4. DataOK'
  BY <1>1, DataStep
<1> QED
  BY <1>2, <1>3, <1>4 DEF DorisInv, DataOK

(* A job that has not run yet has nothing.                                 *)
LEMMA DorisInvInit ==
  ASSUME Init
  PROVE  DorisInv
<1>1. /\ log \in Logs /\ Len(log) \in Nat /\ Index = 1..Len(log)
      /\ CompleteAt \in Index
  BY LogFacts DEF Init, Unstarted
<1>2. /\ {MaxRuns, MaxReconnects, MaxResends, MaxSaveFailures} \subseteq Nat
      /\ BatchSize \in Nat \ {0}
  BY DorisAssumption
<1>3. NoLoad \in LoadRecord /\ NoLoad.state = "none"
  <2>1. (CHOOSE t \in Targets : TRUE) \in Targets
    BY <1>2, DorisAssumption
  <2> QED
    BY <1>2, <2>1 DEF NoLoad, LoadRecord
<1>4. /\ altered = FALSE /\ progress = 0 /\ confirmed = FALSE /\ offset = 0
      /\ table = [t \in Targets |-> [k \in Keys |-> 0]]
      /\ column = {} /\ narrow = {} /\ late = {} /\ stale = {} /\ run = 0
      /\ pc = "down" /\ cursor = 0 /\ started = 0 /\ reached = 0
      /\ reconnects = 0 /\ again = [t \in Targets |-> [k \in Keys |-> 0]]
      /\ batches = [t \in Targets |-> <<>>]
      /\ pending = 0 /\ bound = {} /\ draining = FALSE /\ todo = {}
      /\ then = "none" /\ piece = <<>> /\ load = NoLoad /\ resends = 0
      /\ failures = 0
  BY DEF Init, Unstarted
<1>5. TypeOK
  <2>1. \A t \in Targets : Len(batches[t]) <= BatchSize
    BY <1>2, <1>4
  <2>2. CountsType
    <3>1. 0 \in 0..Len(log) /\ 0 \in 0..MaxRuns /\ 0 \in 0..MaxResends
          /\ 0 \in 0..MaxSaveFailures /\ 0 \in 0..MaxReconnects
      BY <1>1, <1>2
    <3> QED
      BY <1>1, <1>4, <3>1 DEF CountsType
  <2>3. ControlType
    <3>1. <<>> \in Seq(Keys)
      OBVIOUS
    <3> QED
      BY <1>4, <3>1 DEF ControlType
  <2>4. DorisType
    BY <1>1, <1>3, <1>4 DEF DorisType
  <2>5. batches \in [Targets -> Seq(Index)]
    <3>1. <<>> \in Seq(Index)
      OBVIOUS
    <3> QED
      BY <1>4, <3>1
  <2>6. again \in [Targets -> [Keys -> 0..Len(log)]]
    BY <1>1, <1>4
  <2> QED
    BY <2>1, <2>2, <2>3, <2>4, <2>5, <2>6
       DEF TypeOK, CountsType, ControlType, DorisType
<1>6. Resume = 0
  BY <1>4 DEF Resume
<1>7. PlaceOK /\ BufferedOK
  BY <1>4
     DEF PlaceOK, BufferedOK, Altering, Chunking, Piecing, Confirming,
         Flushing, Running, Buffered
<1>8. SizeOK
  BY <1>2, <1>4 DEF SizeOK
<1>9. StreamOK /\ OffsetsOK
  BY <1>4 DEF StreamOK, OffsetsOK, Running
<1>10. CellsOK /\ LateOK /\ StreamedOK /\ PassedOK
  BY <1>4 DEF CellsOK, LateOK, StreamedOK, PassedOK, Running
<1>11. CoverOK
  BY <1>6 DEF CoverOK
<1>12. LoadOK
  BY <1>3, <1>4 DEF LoadOK
<1>13. PieceOK /\ AlterOK
  BY <1>4 DEF PieceOK, AlterOK, Altering, Chunking, Piecing, Flushing
<1> QED
  BY <1>5, <1>7, <1>8, <1>9, <1>10, <1>11, <1>12, <1>13 DEF DorisInv

-----------------------------------------------------------------------------
(* Theorems *)

(* The invariant of the sink holds through flushes, loads, failures,       *)
(* streams that start again, restarts and late loads of ended runs         *)
(* (doris/sink.go, and mysql/source.go RunFrom).                           *)
THEOREM DorisInductive == Spec => []DorisInv
<1>1. Init => DorisInv
  BY DorisInvInit
<1>2. DorisInv /\ [Next]_vars => DorisInv'
  BY DorisInvStep
<1> QED
  BY <1>1, <1>2, PTL DEF Spec

(* Places in the log, loads, batches and tables are well-formed, and no    *)
(* batch outgrows cfg.BatchSize.                                           *)
THEOREM TypeCorrect == Spec => []TypeOK
<1>1. DorisInv => TypeOK
  BY DEF DorisInv
<1> QED
  BY <1>1, DorisInductive, PTL

(* A replay from the saved checkpoint repairs Doris: commitPendingOffset   *)
(* and the saved progress never run ahead of the tables, but for rows that *)
(* a load of an ended run has set back, and rows that a stream has         *)
(* delivered again and not yet brought forward to where they were.         *)
THEOREM CheckpointSafe == Spec => []CheckpointCovers
<1>1. ASSUME DorisInv PROVE CheckpointCovers
  <2> SUFFICES ASSUME NEW t \in Targets, NEW k \in Keys, <<t, k>> \notin stale,
                      ~SetBack(t, k),
                      \A i \in Index : i > Resume => k \notin Decides(i, t)
               PROVE  table[t][k] = LastOf(1..Resume, t, k)
    BY DEF CheckpointCovers
  <2> DEFINE last == LastOf(1..Resume, t, k)
  <2>1. /\ Len(log) \in Nat /\ Index = 1..Len(log) /\ Resume \in 0..Len(log)
        /\ log \in Logs /\ table[t][k] \in 0..Len(log)
        /\ again[t][k] \in 0..Len(log)
    BY <1>1, DoneFacts DEF DorisInv, TypeOK
  <2>2. 1..Resume \in SUBSET Index
    BY <2>1
  <2>3. /\ last \in 0..Len(log)
        /\ last # 0 => last \in 1..Resume /\ k \in Decides(last, t)
        /\ \A i \in 1..Resume : k \in Decides(i, t) => i <= last
    BY <2>1, <2>2, LastOfFacts
  <2>4. table[t][k] # 0 => table[t][k] \in 1..Resume /\ k \in Decides(table[t][k], t)
    BY <1>1, <2>1 DEF DorisInv, CellsOK
  <2>5. last # 0 => last <= table[t][k]
    <3>1. last # 0 => last <= table[t][k] \/ last <= again[t][k]
      BY <1>1, <2>3 DEF DorisInv, CoverOK
    <3>2. again[t][k] <= table[t][k]
      BY <2>1 DEF SetBack
    <3> HIDE DEF last
    <3> QED
      BY <2>1, <2>3, <3>1, <3>2
  <2>6. table[t][k] # 0 => table[t][k] <= last
    BY <2>3, <2>4
  <2> HIDE DEF last
  <2>7. table[t][k] = last
    BY <2>1, <2>3, <2>5, <2>6
  <2> QED
    BY <2>7 DEF last
<1> QED
  BY <1>1, DorisInductive, PTL

(* What is done and not buffered is in Doris, where HandedOver asks for    *)
(* it.                                                                     *)
LEMMA HandedLast ==
  ASSUME DorisInv, Running, NEW t \in Targets, NEW k \in Keys,
         <<t, k>> \notin stale, batches[t] = <<>>
  PROVE  table[t][k] >= HandedOver(Done, t, k)
<1> DEFINE S == IF SetBack(t, k) THEN (started + 1)..Done ELSE 1..Done
           last == LastOf(S, t, k)
<1>1. /\ Len(log) \in Nat /\ Index = 1..Len(log) /\ Done \in 0..Len(log)
      /\ log \in Logs /\ table[t][k] \in 0..Len(log)
      /\ again[t][k] \in 0..Len(log) /\ started \in 0..Len(log)
  BY DoneFacts DEF DorisInv, TypeOK
<1>2. S \in SUBSET Index
  BY <1>1
<1>3. /\ last \in 0..Len(log)
      /\ last # 0 => last \in S /\ k \in Decides(last, t)
  <2> HIDE DEF S
  <2> QED
    BY <1>1, <1>2, LastOfFacts
<1>4. Known(t, k) /\ Held(t, k) = table[t][k]
  <2>1. Waiting(t, k) = 0
    BY HeldFacts DEF DorisInv
  <2> QED
    BY <2>1 DEF Known, Held
<1>5. HandedOver(Done, t, k) = last
  BY DEF HandedOver
<1>6. last # 0 => last <= table[t][k]
  <2> SUFFICES ASSUME last # 0
               PROVE  last <= table[t][k]
    OBVIOUS
  <2>1. last \in Index /\ k \in Decides(last, t) /\ last <= Done
    BY <1>1, <1>2, <1>3
  <2>2. CASE SetBack(t, k)
    <3>1. started < last
      BY <1>1, <1>3, <2>2
    <3> QED
      BY <1>4, <2>1, <3>1 DEF DorisInv, StreamedOK
  <2>3. CASE ~SetBack(t, k)
    <3>1. last <= table[t][k] \/ last <= again[t][k]
      BY <1>4, <2>1 DEF DorisInv, PassedOK, Passed
    <3>2. again[t][k] <= table[t][k]
      BY <1>1, <2>3 DEF SetBack
    <3> HIDE DEF last
    <3> QED
      BY <1>1, <1>3, <3>1, <3>2
  <2> QED
    BY <2>2, <2>3
<1> HIDE DEF last
<1> QED
  BY <1>1, <1>3, <1>5, <1>6

(* A table without a buffered row has what the stream has handed over, or  *)
(* something newer: neither a repeated request nor another table's batch   *)
(* sets it back, and a stream that starts again brings forward what it     *)
(* sets back.                                                              *)
THEOREM ReplayNeverBackward == Spec => []ReplayInOrder
<1>1. ASSUME DorisInv PROVE ReplayInOrder
  <2> SUFFICES ASSUME NEW t \in Targets, NEW k \in Keys, pc = "idle",
                      batches[t] = <<>>, <<t, k>> \notin stale
               PROVE  table[t][k] >= HandedOver(cursor, t, k)
    BY DEF ReplayInOrder
  <2>1. Running /\ Done = cursor
    BY DEF Running, Done, InHand, Chunking, Altering, Piecing, Flushing
  <2> QED
    BY <1>1, <2>1, HandedLast
<1> QED
  BY <1>1, DorisInductive, PTL

(* applyDDL runs on tables that have all rows the stream has handed over   *)
(* before the statement, also when the statement is delivered again.       *)
THEOREM SchemaAfterRows == Spec => SchemaInOrder
<1>1. ASSUME DorisInv, applyDDL
      PROVE  \A s \in Targets, k \in Keys :
               <<s, k>> \notin stale => table[s][k] >= HandedOver(cursor - 1, s, k)
  <2>1. pc = "ddl"
    BY <1>1 DEF applyDDL
  <2>2. Running /\ Done = cursor - 1 /\ \A s \in Targets : batches[s] = <<>>
    BY <1>1, <2>1
       DEF DorisInv, BufferedOK, Buffered, Running, Done, InHand, Altering
  <2> QED
    BY <1>1, <2>2, HandedLast
<1>2. DorisInv =>
        [\A t \in Targets :
           applyDDL /\ log[cursor].target = t =>
             \A s \in Targets, k \in Keys :
               <<s, k>> \notin stale =>
                 table[s][k] >= HandedOver(cursor - 1, s, k)]_vars
  BY <1>1
<1> QED
  BY <1>2, DorisInductive, PTL DEF SchemaInOrder
=============================================================================
