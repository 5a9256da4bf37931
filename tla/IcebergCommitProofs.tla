------------------------- MODULE IcebergCommitProofs -------------------------
(***************************************************************************)
(* Proofs about IcebergCommit: for every log, every assignment of source   *)
(* tables to Iceberg tables, every batch size, and any number of claims    *)
(* and of catalog operations, with or without the expiry of evidence.      *)
(*                                                                         *)
(* BaseInv is inductive whatever happens.  It carries the theorems that    *)
(* nothing is left out and that one outcome at a time is open.             *)
(*                                                                         *)
(* ExactInv is inductive, relative to BaseInv, while the source does not   *)
(* open its stream again within a run (MaxReconnects = 0): after such a    *)
(* reconnection rows that are in memory come a second time, and the run    *)
(* reconnect_duplicates shows that they are written twice.  It carries     *)
(* the theorems that each row is written once, that what is written keeps  *)
(* its intent, that the replay check never stops the job, and that the     *)
(* sink implements ReplicationContract.                                    *)
(***************************************************************************)
EXTENDS IcebergCommit, TLAPS, FiniteSetTheorems, SequenceTheorems

(* Where a change is, and what the calls of a handler still hold *)

\* The changes in the sink's batches (BufferedTable.events).
InMemory == UNION {Range(pending[s]) : s \in Source}

\* A call that carries the event the handler was given, and those events.
HasEvent(x) == x.do \in {"append", "ddl"}
EventsOf(q) == {q[i].ev : i \in {j \in DOMAIN q : HasEvent(q[j])}}

\* Only the last call has an event, and it is e.
EventOnlyLast(q, e) == \A i \in DOMAIN q : HasEvent(q[i]) => i = Len(q) /\ q[i].ev = e

\* The event that is taken from the source and not yet in a batch.
Called == EventsOf(calls)

\* The tables that are still to be flushed.
FlushesOf(q) == {s \in Source : \E i \in DOMAIN q : q[i] = FlushCall(s)}

Increasing(q) == \A i, j \in DOMAIN q : i < j => q[i] < q[j]

Streaming == pc \in {"stream", "call", "prove"}

-----------------------------------------------------------------------------
(* The invariant of every behaviour *)

\* Between the intent and the answer there is an operation and its call.
BusyOK == pc \in {"call", "prove"} => cur \in Op /\ calls # <<>>

\* Operations are numbered as they begin; each writes a batch of rows or one
\* schema change, and is accepted at most once.  Receipts are retained for
\* accepted operations only.
OpsInv ==
  /\ \A o \in Op : o >= nextOp => /\ batch[o] = <<>> /\ status[o] = "none"
                                  /\ o \notin landed \cup inflight
  /\ \A o \in Op : o < nextOp => batch[o] # <<>>
  /\ \A o \in Op : Range(batch[o]) \subseteq Row \/ \E d \in Ddl : batch[o] = <<d>>
  /\ inflight \cap landed = {}
  /\ loaded \subseteq landed

\* What may still be accepted has a PREPARED intent, a COMMITTED one has been
\* accepted, and a PREPARED one is either still to be recovered or the
\* operation in progress.
StatusInv ==
  /\ \A o \in inflight : status[o] = "PREPARED"
  /\ \A o \in Op : status[o] = "COMMITTED" => o \in landed
  /\ \A o \in Op : status[o] = "PREPARED" =>
       (pc = "recover" => o \in todo) /\ (Streaming => o = cur)

\* A run that is over, or still recovers, has taken nothing from its source.
RestInv ==
  /\ pc \in {"down", "recover"} =>
       /\ calls = <<>> /\ pending = [s \in Source |-> <<>>]
       /\ pendingOffset = NoOffset /\ cleanupOffset = NoOffset
  /\ pc = "recover" => cursor = Cardinality(Prefix(ckpt))
  /\ pc = "down" => cursor = 0
  /\ pc \in {"down", "recover", "stream"} => cur = NoOp

\* The operation in progress writes what its call asked for: the batch has
\* not changed since.
BusyInv ==
  pc \in {"call", "prove"} =>
    /\ cur \in Op /\ cur < nextOp /\ calls # <<>>
    /\ \/ HeadCall.do = "flush" /\ batch[cur] = pending[HeadCall.src]
       \/ HeadCall.do = "ddl" /\ batch[cur] = <<HeadCall.ev>>

\* The event of a handler is the last that was taken, and every batch has
\* rows of its own table.
EventInv ==
  /\ EventOnlyLast(calls, cursor)
  /\ \A s \in Source : \A i \in DOMAIN pending[s] : Log[pending[s][i]].src = s

\* Every change that was taken from the source is in its table, in a batch or
\* in a call; what a checkpoint waits for is not in a call any more, what the
\* run started behind is in its table, and so is every row that is skipped.
CoverInv ==
  /\ CheckpointCovers
  /\ \A e \in Change : e <= cursor => e \in Applied \cup InMemory \cup Called
  /\ \A e \in Change : e <= started => e \in Applied
  /\ \A e \in Change : Off(e) <= pendingOffset => e \in Applied \cup InMemory
  /\ \A e \in Row : receipts[e] > 0 => e \in Applied

BaseInv ==
  OpsInv /\ StatusInv /\ RestInv /\ BusyInv /\ EventInv /\ CoverInv

-----------------------------------------------------------------------------
(* The invariant while the source's stream does not fail within a run *)

\* Batches and operations are in the order of the log, behind the cursor and
\* ahead of the event in hand; the checkpoints follow one another.
OrderInv ==
  /\ \A o \in Op : Increasing(batch[o])
  /\ \A s \in Source : Increasing(pending[s])
  /\ \A e \in InMemory : e <= cursor /\ e \notin Called
  /\ pc # "down" => \A e \in Entry : Off(e) <= ckpt => e <= cursor
  /\ pc # "down" => \A e \in Entry : Off(e) <= pendingOffset => e <= cursor
  /\ pendingOffset # NoOffset => ckpt <= pendingOffset
  /\ cleanupOffset <= ckpt

\* A streaming run has one receipt for each row that is in its table and that
\* the source is going to deliver again; recovery gets there intent by intent.
ReceiptInv ==
  /\ pc = "down" => receipts = [e \in Entry |-> 0] /\ loaded = {}
  /\ pc = "recover" =>
       /\ \A o \in Intents : o \in todo \cup loaded \/ Covered(o, ckpt)
       /\ \A e \in Row :
            receipts[e] = IF Off(e) > ckpt /\ \E o \in loaded : e \in Range(batch[o])
                          THEN 1 ELSE 0
  /\ Streaming =>
       \A e \in Row : receipts[e] = IF e > cursor /\ e \in Applied THEN 1 ELSE 0

\* No row is in two places: two operations that are accepted, or one that is
\* and one that may be, or one that is and a batch.  The one exception is the
\* operation in progress, accepted before its batch is cleared.
OnceInv ==
  /\ AppliedOnce
  /\ \A o, p \in inflight : o = p
  /\ \A o \in inflight : Range(batch[o]) \cap Applied = {}
  /\ \A e \in Row \cap (InMemory \cup Called), o \in landed :
       e \in Range(batch[o]) => o = cur

\* One source table at a time has a batch for an Iceberg table, or the flush
\* of the other one comes before the event in hand; and no request leaves an
\* earlier change of its table behind.
TurnInv ==
  /\ \A s, t \in Source :
       pending[s] # <<>> /\ pending[t] # <<>> /\ TargetOf[s] = TargetOf[t] => s = t
  /\ \A e \in Called, t \in Source :
       /\ pending[t] # <<>> /\ TargetOf[t] = Target(e)
       /\ e \in Row => t # Log[e].src
       => t \in FlushesOf(calls)
  /\ \A o \in inflight : \A e \in Range(batch[o]) :
       Before(e) \subseteq Applied \cup Range(batch[o])

ExactInv == OrderInv /\ ReceiptInv /\ OnceInv /\ WritesHaveIntents /\ TurnInv


-----------------------------------------------------------------------------
(* The log *)

(* The selected events of the log, by kind. *)
LEMMA LogFacts ==
  /\ Entry = 1..Len(Log) /\ Len(Log) \in Nat /\ IsFiniteSet(Entry)
  /\ \A e \in Entry : /\ Log[e] \in [kind : {"row", "ddl", "checkpoint"},
                                     src : Source, off : Nat \ {0}]
                      /\ Off(e) \in Nat \ {0} /\ Log[e].src \in Source
  /\ Row \subseteq Entry /\ Ddl \subseteq Entry /\ Checkpoint \subseteq Entry
  /\ Row \cap Ddl = {} /\ Checkpoint \cap Change = {} /\ Change \subseteq Entry
  /\ Offset \subseteq Nat /\ NoOffset \in Offset
<1>1. Entry = 1..Len(Log) /\ Len(Log) \in Nat
  BY LogAssumption DEF Entry
<1>2. IsFiniteSet(Entry)
  BY <1>1, FS_Interval
<1>3. \A e \in Entry : /\ Log[e] \in [kind : {"row", "ddl", "checkpoint"},
                                      src : Source, off : Nat \ {0}]
                       /\ Off(e) \in Nat \ {0} /\ Log[e].src \in Source
  <2> SUFFICES ASSUME NEW e \in Entry
               PROVE  Log[e] \in [kind : {"row", "ddl", "checkpoint"},
                                  src : Source, off : Nat \ {0}]
    BY DEF Off
  <2> DEFINE R == [kind : {"row", "ddl", "checkpoint"}, src : Source, off : Nat \ {0}]
  <2>1. Log \in Seq(R)
    BY LogAssumption
  <2> HIDE DEF R
  <2>2. Log[e] \in R
    BY <1>1, <2>1
  <2> QED BY <2>2 DEF R
<1>4. /\ Row \subseteq Entry /\ Ddl \subseteq Entry /\ Checkpoint \subseteq Entry
      /\ Row \cap Ddl = {} /\ Checkpoint \cap Change = {} /\ Change \subseteq Entry
  BY DEF Row, Ddl, Checkpoint, Change
<1>5. Offset \subseteq Nat /\ NoOffset \in Offset
  BY <1>3, <1>4 DEF Offset, NoOffset
<1> QED BY <1>1, <1>2, <1>3, <1>4, <1>5

(* A checkpoint covers an initial part of the log. *)
LEMMA PrefixFacts ==
  ASSUME NEW c \in Offset
  PROVE  /\ Cardinality(Prefix(c)) \in 0..Len(Log)
         /\ \A e \in Entry : Off(e) <= c <=> e <= Cardinality(Prefix(c))
<1>1. PICK k \in 0..Len(Log) : \A e \in Entry : Off(e) <= c <=> e <= k
  <2>1. CASE c = NoOffset
    <3>1. \A e \in Entry : Off(e) <= c <=> e <= 0
      BY <2>1, LogFacts DEF NoOffset
    <3> QED BY <3>1, LogFacts
  <2>2. CASE c # NoOffset
    <3>1. PICK k \in Checkpoint : c = Off(k)
      BY <2>2 DEF Offset
    <3>2. k \in 0..Len(Log) /\ k \in Entry
      BY LogFacts
    <3>3. ASSUME NEW e \in Entry PROVE Off(e) <= c <=> e <= k
      <4>1. e \in Nat /\ k \in Nat /\ Off(e) \in Nat /\ Off(k) \in Nat
        BY <3>2, LogFacts
      <4>2. e < k => Off(e) <= Off(k)
        BY <3>2, LogAssumption
      <4>3. k < e => Off(k) < Off(e)
        BY <3>2, LogAssumption
      <4> QED BY <3>1, <4>1, <4>2, <4>3
    <3> QED BY <3>2, <3>3
  <2> QED BY <2>1, <2>2
<1>2. Prefix(c) = 1..k
  BY <1>1, LogFacts DEF Prefix
<1>3. Cardinality(Prefix(c)) = k
  BY <1>2, FS_Interval
<1> QED BY <1>1, <1>3

-----------------------------------------------------------------------------
(* Sequences *)

(* The elements of a sequence that loses its head, or gains one. *)
LEMMA TailFacts ==
  ASSUME NEW S, NEW q \in Seq(S), q # <<>>
  PROVE  /\ Head(q) \in S /\ Head(q) = q[1] /\ Tail(q) \in Seq(S)
         /\ Len(q) \in Nat \ {0} /\ Len(Tail(q)) = Len(q) - 1
         /\ \A i \in 1..(Len(q) - 1) : Tail(q)[i] = q[i + 1]
         /\ Range(Tail(q)) \subseteq Range(q)
<1>1. Len(q) \in Nat \ {0} /\ Tail(q) \in Seq(S) /\ Len(Tail(q)) = Len(q) - 1
      /\ \A i \in 1..(Len(q) - 1) : Tail(q)[i] = q[i + 1]
  OBVIOUS
<1>2. Head(q) = q[1] /\ Head(q) \in S
  BY <1>1
<1>3. Range(Tail(q)) \subseteq Range(q)
  BY <1>1 DEF Range
<1> QED BY <1>1, <1>2, <1>3

(* Two sequences one behind the other. *)
LEMMA ConcatFacts ==
  ASSUME NEW S, NEW q \in Seq(S), NEW r \in Seq(S)
  PROVE  /\ q \o r \in Seq(S) /\ Len(q \o r) = Len(q) + Len(r)
         /\ Len(q) \in Nat /\ Len(r) \in Nat
         /\ \A i \in 1..(Len(q) + Len(r)) :
              (q \o r)[i] = IF i <= Len(q) THEN q[i] ELSE r[i - Len(q)]
OBVIOUS

(* One element before a sequence. *)
LEMMA PrependFacts ==
  ASSUME NEW S, NEW x \in S, NEW q \in Seq(S)
  PROVE  /\ <<x>> \o q \in Seq(S) /\ Len(<<x>> \o q) = Len(q) + 1 /\ Len(q) \in Nat
         /\ <<x>> \o q # <<>> /\ (<<x>> \o q)[1] = x
         /\ \A i \in 2..(Len(q) + 1) : (<<x>> \o q)[i] = q[i - 1]
<1>1. <<x>> \in Seq(S) /\ Len(<<x>>) = 1 /\ <<x>>[1] = x
  OBVIOUS
<1>2. <<x>> \o q \in Seq(S) /\ Len(<<x>> \o q) = Len(q) + 1 /\ Len(q) \in Nat
  BY <1>1, ConcatFacts
<1>3. (<<x>> \o q)[1] = x
  BY <1>1, ConcatFacts
<1>4. \A i \in 2..(Len(q) + 1) : (<<x>> \o q)[i] = q[i - 1]
  BY <1>1, ConcatFacts
<1> QED BY <1>2, <1>3, <1>4

(* One element behind a sequence. *)
LEMMA AppendFacts ==
  ASSUME NEW S, NEW x \in S, NEW q \in Seq(S)
  PROVE  /\ Append(q, x) \in Seq(S) /\ Len(Append(q, x)) = Len(q) + 1 /\ Len(q) \in Nat
         /\ DOMAIN q = 1..Len(q) /\ DOMAIN Append(q, x) = 1..(Len(q) + 1)
         /\ \A i \in 1..Len(q) : Append(q, x)[i] = q[i]
         /\ Append(q, x)[Len(q) + 1] = x
         /\ Range(Append(q, x)) = Range(q) \cup {x}
<1> DEFINE r == Append(q, x)
<1>1. /\ r \in Seq(S) /\ Len(r) = Len(q) + 1 /\ Len(q) \in Nat
      /\ DOMAIN q = 1..Len(q) /\ DOMAIN r = 1..(Len(q) + 1)
      /\ \A i \in 1..Len(q) : r[i] = q[i]
      /\ r[Len(q) + 1] = x
  OBVIOUS
<1> HIDE DEF r
<1>2. \A i \in DOMAIN r : i \in DOMAIN q \/ r[i] = x
  BY <1>1
<1>3. Range(r) = Range(q) \cup {x}
  <2>1. \A i \in DOMAIN r : r[i] \in Range(q) \cup {x}
    BY <1>1, <1>2 DEF Range
  <2>2. \A i \in DOMAIN q : q[i] \in Range(r)
    BY <1>1 DEF Range
  <2>3. x \in Range(r)
    BY <1>1 DEF Range
  <2> QED BY <2>1, <2>2, <2>3 DEF Range
<1> QED BY <1>1, <1>3 DEF r

(* Two elements are one and one. *)
LEMMA PairFacts ==
  ASSUME NEW S, NEW a \in S, NEW b \in S
  PROVE  <<a, b>> = <<a>> \o <<b>>
<1> DEFINE q == <<a, b>>
           r == <<a>> \o <<b>>
<1>1. <<a>> \in Seq(S) /\ <<b>> \in Seq(S) /\ Len(<<a>>) = 1 /\ Len(<<b>>) = 1
      /\ <<a>>[1] = a /\ <<b>>[1] = b
  OBVIOUS
<1>2. q \in Seq(S) /\ Len(q) = 2 /\ q[1] = a /\ q[2] = b
  OBVIOUS
<1>3. r \in Seq(S) /\ Len(r) = 2 /\ r[1] = a /\ r[2] = b
  BY <1>1
<1> HIDE DEF q, r
<1>4. \A i \in 1..2 : q[i] = r[i]
  BY <1>2, <1>3
<1> SUFFICES q = r
  BY DEF q, r
<1> QED BY <1>2, <1>3, <1>4, SeqEqual

(* The flushes of a set of tables: of each table, and of no other. *)
LEMMA FlushFacts ==
  ASSUME NEW S \in SUBSET Source, NEW order \in SetToSeqs(S)
  PROVE  /\ FlushCalls(order) \in Seq(Call) /\ DOMAIN FlushCalls(order) = 1..Len(FlushCalls(order))
         /\ \A i \in DOMAIN FlushCalls(order) :
              \E s \in S : FlushCalls(order)[i] = FlushCall(s)
         /\ \A s \in S :
              \E i \in DOMAIN FlushCalls(order) : FlushCalls(order)[i] = FlushCall(s)
<1> DEFINE n == Cardinality(S)
<1>1. IsFiniteSet(S) /\ n \in Nat
  BY SourceAssumption, FS_Subset, FS_CardinalityType
<1>2. order \in [1..n -> S] /\ \A i, j \in 1..n : i # j => order[i] # order[j]
  BY DEF SetToSeqs
<1>3. \A s \in S : \E i \in 1..n : order[i] = s
  <2>1. order \in Injection(1..n, S)
    BY <1>2 DEF Injection, IsInjective
  <2>2. Cardinality(1..n) = n
    BY <1>1, FS_Interval
  <2>3. order \in Surjection(1..n, S)
    BY <1>1, <2>1, <2>2, FS_Injection
  <2> QED BY <2>3 DEF Surjection
<1>4. FlushCalls(order) = [i \in 1..n |-> FlushCall(order[i])]
  BY <1>2 DEF FlushCalls
<1>5. \A s \in S : FlushCall(s) \in Call
  BY DEF FlushCall, Call
<1>6. FlushCalls(order) \in [1..n -> Call]
  BY <1>2, <1>4, <1>5
<1>7. FlushCalls(order) \in Seq(Call)
  BY <1>1, <1>6
<1>8. DOMAIN FlushCalls(order) = 1..Len(FlushCalls(order))
  BY <1>7
<1>9. DOMAIN FlushCalls(order) = 1..n /\ \A i \in 1..n : FlushCalls(order)[i] = FlushCall(order[i])
  BY <1>4
<1> HIDE DEF n
<1>10. \A i \in DOMAIN FlushCalls(order) :
         \E s \in S : FlushCalls(order)[i] = FlushCall(s)
  BY <1>2, <1>9
<1>11. \A s \in S : \E i \in DOMAIN FlushCalls(order) : FlushCalls(order)[i] = FlushCall(s)
  BY <1>3, <1>9
<1> QED BY <1>7, <1>8, <1>10, <1>11

-----------------------------------------------------------------------------
(* Type correctness *)

(* What a handler prepends to its calls, and what is left of them. *)
LEMMA CallTypes ==
  ASSUME TypeOK
  PROVE  /\ calls # <<>> => HeadCall \in Call /\ Tail(calls) \in Seq(Call)
         /\ \A s \in Source : FlushCall(s) \in Call
         /\ OffsetCall(TRUE) \in Call /\ OffsetCall(FALSE) \in Call
         /\ \A e \in Ddl : [do |-> "ddl", ev |-> e] \in Call
         /\ \A e \in Row : [do |-> "append", ev |-> e] \in Call
         /\ [do |-> "end"] \in Call
         /\ Calls("flush") => HeadCall.src \in Source
         /\ Calls("ddl") => HeadCall.ev \in Ddl
         /\ Calls("append") => HeadCall.ev \in Row
<1>1. calls # <<>> => HeadCall \in Call /\ Tail(calls) \in Seq(Call)
  BY DEF TypeOK, HeadCall
<1>2. /\ \A s \in Source : FlushCall(s) \in Call
      /\ OffsetCall(TRUE) \in Call /\ OffsetCall(FALSE) \in Call
      /\ \A e \in Ddl : [do |-> "ddl", ev |-> e] \in Call
      /\ \A e \in Row : [do |-> "append", ev |-> e] \in Call
      /\ [do |-> "end"] \in Call
  BY DEF Call, FlushCall, OffsetCall
<1>3. /\ Calls("flush") => HeadCall.src \in Source
      /\ Calls("ddl") => HeadCall.ev \in Ddl
      /\ Calls("append") => HeadCall.ev \in Row
  BY <1>1 DEF Calls, Call
<1> QED BY <1>1, <1>2, <1>3

(* What a commit writes is a sequence of changes. *)
LEMMA BatchTypes ==
  ASSUME TypeOK
  PROVE  CallBatch \in Seq(Change)
<1>1. CASE Calls("flush")
  <2>1. CallBatch = pending[HeadCall.src]
    BY <1>1 DEF CallBatch, Calls
  <2>2. pending[HeadCall.src] \in Seq(Row)
    BY <1>1, CallTypes DEF TypeOK
  <2> QED BY <2>1, <2>2, SeqMonotonic DEF Change
<1>2. CASE Calls("ddl") /\ HeadCall.ev \notin Applied
  <2>1. ~Calls("flush")
    BY <1>2 DEF Calls
  <2>2. CallBatch = <<HeadCall.ev>>
    BY <1>2, <2>1 DEF CallBatch, Calls
  <2> QED BY <1>2, <2>2, CallTypes DEF Change
<1>3. CASE ~Calls("flush") /\ ~(Calls("ddl") /\ HeadCall.ev \notin Applied)
  BY <1>3 DEF CallBatch
<1> QED BY <1>1, <1>2, <1>3

(* The end of a run leaves empty memory. *)
LEMMA EndRunTypes ==
  ASSUME TypeOK, EndRun
  PROVE  /\ pc' = "down" /\ calls' \in Seq(Call) /\ cur' \in Op \cup {NoOp}
         /\ cursor' \in Entry \cup {0} /\ started' \in Entry \cup {0}
         /\ pending' \in [Source -> Seq(Row)] /\ pendingOffset' \in Offset
         /\ cleanupOffset' \in Offset /\ receipts' \in [Entry -> Nat]
         /\ loaded' \subseteq Op /\ todo' \subseteq Op
         /\ run' = run /\ reconnects' = reconnects
BY LogFacts DEF EndRun

(* Receipts are counted in natural numbers. *)
LEMMA ReceiptTypes ==
  ASSUME TypeOK, NEW o \in Op
  PROVE  /\ \A e \in Entry : ReplayCount(o, e) \in Nat
         /\ RetainReceipt(o) => receipts' \in [Entry -> Nat] /\ loaded' \subseteq Op
<1>1. ASSUME NEW e \in Entry PROVE ReplayCount(o, e) \in Nat
  <2>1. batch[o] \in Seq(Change)
    BY DEF TypeOK
  <2>2. IsFiniteSet(DOMAIN batch[o])
    BY <2>1, FS_Interval
  <2>3. IsFiniteSet({i \in DOMAIN batch[o] : batch[o][i] = e /\ Replayed(e)})
    BY <2>2, FS_Subset
  <2> QED BY <2>3, FS_CardinalityType DEF ReplayCount
<1>2. ASSUME RetainReceipt(o) PROVE receipts' \in [Entry -> Nat] /\ loaded' \subseteq Op
  <2>1. receipts \in [Entry -> Nat] /\ loaded \subseteq Op
    BY DEF TypeOK
  <2>2. CASE Covered(o, ckpt) \/ o \in loaded
    BY <1>2, <2>1, <2>2 DEF RetainReceipt
  <2>3. CASE ~(Covered(o, ckpt) \/ o \in loaded)
    <3>1. receipts' = [e \in Entry |-> receipts[e] + ReplayCount(o, e)]
          /\ loaded' = loaded \cup {o}
      BY <1>2, <2>3 DEF RetainReceipt
    <3>2. \A e \in Entry : receipts[e] + ReplayCount(o, e) \in Nat
      BY <1>1, <2>1
    <3> QED BY <2>1, <3>1, <3>2
  <2> QED BY <2>2, <2>3
<1> QED BY <1>1, <1>2

(* Recovery keeps the types. *)
LEMMA RecoverTypes ==
  ASSUME TypeOK, StartRun \/ RecoverStep
  PROVE  TypeOK'
<1> USE DEF durableVars, catalogVars, opVars, streamVars
<1>0. Intents \subseteq Op
  BY DEF Intents
<1>1. CASE StartRun
  <2>1. Cardinality(Prefix(ckpt)) \in Entry \cup {0}
    BY PrefixFacts, LogFacts DEF TypeOK
  <2>2. run' \in 0..MaxRuns
    BY <1>1, CommitAssumption DEF StartRun, TypeOK
  <2> QED BY <1>0, <1>1, <2>1, <2>2 DEF StartRun, TypeOK
<1>2. ASSUME NEW o \in Op, RecoverCovered(o) PROVE TypeOK'
  BY <1>2 DEF RecoverCovered, TypeOK, Status
<1>3. ASSUME NEW o \in Op, RecoverProven(o) PROVE TypeOK'
  <2>1. Resolved(o) \in Status
    BY DEF Resolved, Status
  <2>2. receipts' \in [Entry -> Nat] /\ loaded' \subseteq Op
    BY <1>3, ReceiptTypes DEF RecoverProven
  <2> QED BY <1>3, <2>1, <2>2 DEF RecoverProven, TypeOK
<1>4. ASSUME NEW o \in Op, RecoverWriteFails(o) PROVE TypeOK'
  <2>1. Resolved(o) \in Status /\ status[o] \in Status /\ "COMMITTED" \in Status
    BY DEF Resolved, Status, TypeOK
  <2>2. receipts' \in [Entry -> Nat] /\ loaded' \subseteq Op
    BY <1>4, ReceiptTypes DEF RecoverWriteFails
  <2>3. status' \in [Op -> Status]
    BY <1>4, <2>1 DEF RecoverWriteFails, TypeOK
  <2>4. todo' \subseteq Op
    BY <1>4 DEF RecoverWriteFails, Intents
  <2> QED BY <1>4, <2>2, <2>3, <2>4 DEF RecoverWriteFails, TypeOK
<1>5. ASSUME NEW o \in Op, RecoverRetry(o) PROVE TypeOK'
  BY <1>0, <1>5 DEF RecoverRetry, TypeOK
<1>6. ASSUME NEW o \in Op, RecoverBlocked(o) PROVE TypeOK'
  BY <1>6, EndRunTypes DEF RecoverBlocked, TypeOK
<1>7. CASE RecoverDone
  BY <1>7 DEF RecoverDone, TypeOK, recoveryVars
<1> QED BY <1>1, <1>2, <1>3, <1>4, <1>5, <1>6, <1>7 DEF RecoverStep

(* So do the catalog and the run loop. *)
LEMMA LoopTypes ==
  ASSUME TypeOK, CatalogStep \/ LoopStep \/ RunFails
  PROVE  TypeOK'
<1> USE DEF durableVars, catalogVars, opVars, streamVars, recoveryVars
<1>1. ASSUME NEW o \in Op, CatalogAccepts(o) PROVE TypeOK'
  BY <1>1 DEF CatalogAccepts, TypeOK
<1>2. ASSUME NEW o \in Op, CatalogLoses(o) PROVE TypeOK'
  BY <1>2 DEF CatalogLoses, TypeOK
<1>3. ASSUME NEW o \in Op, EvidenceExpired(o) PROVE TypeOK'
  BY <1>3 DEF EvidenceExpired, TypeOK
<1>4. CASE TakeEvent
  <2>0. cursor \in 0..Len(Log) /\ cursor < Len(Log) /\ cursor' = cursor + 1
    BY <1>4, LogFacts DEF TakeEvent, TypeOK
  <2>1. cursor + 1 \in Entry /\ cursor' \in Entry
    BY <2>0, LogFacts
  <2>2. CASE TakeCheckpoint(cursor + 1)
    <3>1. pendingOffset' \in Offset
      BY <2>2 DEF TakeCheckpoint, Offset
    <3>2. calls' \in Seq(Call)
      BY <2>2, CallTypes DEF TakeCheckpoint, OffsetCall
    <3> QED BY <1>4, <2>1, <2>2, <3>1, <3>2 DEF TakeEvent, TakeCheckpoint, TypeOK
  <2>3. CASE TakeRecovered(cursor + 1)
    <3>1. receipts' \in [Entry -> Nat]
      BY <2>1, <2>3 DEF TakeRecovered, SkipsRecovered, TypeOK
    <3> QED BY <1>4, <2>1, <2>3, <3>1 DEF TakeEvent, TakeRecovered, TypeOK
  <2>4. CASE TakeChange(cursor + 1)
    <3> DEFINE e == cursor + 1
               last == IF e \in Ddl THEN <<FlushCall(Log[e].src), [do |-> "ddl", ev |-> e]>>
                       ELSE <<[do |-> "append", ev |-> e]>>
    <3>1. e \in Change /\ Log[e].src \in Source
      BY <2>1, <2>4, LogFacts DEF TakeChange
    <3>2. last \in Seq(Call)
      BY <3>1, CallTypes DEF Change
    <3>3. PICK order \in ByKey(PriorSources(Log[e].src)) : calls' = FlushCalls(order) \o last
      BY <2>4 DEF TakeChange
    <3>4. FlushCalls(order) \in Seq(Call)
      <4>1. PriorSources(Log[e].src) \in SUBSET Source
        BY DEF PriorSources, PendingSources
      <4>2. order \in SetToSeqs(PriorSources(Log[e].src))
        BY DEF ByKey
      <4> QED BY <4>1, <4>2, FlushFacts
    <3> HIDE DEF last, e
    <3>5. FlushCalls(order) \o last \in Seq(Call)
      BY <3>2, <3>4, ConcatFacts
    <3> QED BY <1>4, <2>1, <2>4, <3>3, <3>5 DEF TakeEvent, TakeChange, TypeOK
  <2> QED BY <1>4, <2>2, <2>3, <2>4 DEF TakeEvent
<1>5. ASSUME NEW due \in SUBSET Source, Tick(due) PROVE TypeOK'
  <2>1. PICK order \in ByKey(DueSources(due)) : calls' = FlushCalls(order) \o <<OffsetCall(FALSE)>>
    BY <1>5 DEF Tick
  <2>2. DueSources(due) \in SUBSET Source /\ order \in SetToSeqs(DueSources(due))
    BY DEF DueSources, PendingSources, ByKey
  <2>3. FlushCalls(order) \in Seq(Call)
    BY <2>2, FlushFacts
  <2>4. OffsetCall(FALSE) \in Call
    BY CallTypes
  <2>5. calls' \in Seq(Call)
    BY <2>1, <2>3, <2>4, ConcatFacts DEF OffsetCall
  <2> QED BY <1>5, <2>5 DEF Tick, TypeOK
<1>6. CASE SourceEnds
  <2>1. PICK order \in SetToSeqs(PendingSources) :
          calls' = FlushCalls(order) \o <<OffsetCall(TRUE), [do |-> "end"]>>
    BY <1>6 DEF SourceEnds
  <2>2. PendingSources \in SUBSET Source
    BY DEF PendingSources
  <2>3. FlushCalls(order) \in Seq(Call)
    BY <2>2, FlushFacts
  <2>4. OffsetCall(TRUE) \in Call /\ [do |-> "end"] \in Call
    BY CallTypes
  <2>5. calls' \in Seq(Call)
    BY <2>1, <2>3, <2>4, ConcatFacts DEF OffsetCall
  <2> QED BY <1>6, <2>5 DEF SourceEnds, TypeOK
<1>7. CASE SourceReconnect
  <2>1. reconnects + 1 \in 0..MaxReconnects
    BY <1>7, CommitAssumption DEF SourceReconnect, TypeOK
  <2> QED BY <1>7, <2>1 DEF SourceReconnect, TypeOK
<1>8. CASE RunFails
  BY <1>8, EndRunTypes DEF RunFails, TypeOK
<1> QED BY <1>1, <1>2, <1>3, <1>4, <1>5, <1>6, <1>7, <1>8 DEF CatalogStep, LoopStep

(* So do the calls that write the tables and their intents. *)
LEMMA FinishTypes ==
  ASSUME TypeOK, pc = "call" \/ pc = "prove", calls # <<>>, FinishCommit
  PROVE  /\ pc' = "stream" /\ cur' = NoOp /\ calls' \in Seq(Call)
         /\ pending' \in [Source -> Seq(Row)]
         /\ UNCHANGED <<cursor, started, reconnects, pendingOffset, cleanupOffset>>
<1>1. Tail(calls) \in Seq(Call)
  BY CallTypes
<1>2. OffsetCall(TRUE) \in Call
  BY CallTypes
<1>3. <<OffsetCall(TRUE)>> \o Tail(calls) \in Seq(Call)
  BY <1>1, <1>2, PrependFacts DEF OffsetCall
<1>4. calls' \in Seq(Call)
  BY <1>1, <1>3 DEF FinishCommit
<1>5. pending' \in [Source -> Seq(Row)]
  <2>1. pending \in [Source -> Seq(Row)] /\ <<>> \in Seq(Row)
    BY DEF TypeOK
  <2> QED BY <2>1 DEF FinishCommit
<1> QED BY <1>4, <1>5 DEF FinishCommit

(* The steps of guardedIcebergCommit. *)
LEMMA CommitTypes ==
  ASSUME TypeOK, pc \in {"call", "prove"} => cur \in Op /\ calls # <<>>, CommitStep
  PROVE  TypeOK'
<1> USE DEF durableVars, catalogVars, opVars, streamVars, recoveryVars
<1>0. /\ "none" \in Status /\ "PREPARED" \in Status /\ "COMMITTED" \in Status
      /\ calls # <<>> => Tail(calls) \in Seq(Call)
  BY CallTypes DEF Status
<1>1. CASE AppendEvent
  <2> DEFINE e == HeadCall.ev
             s == Log[e].src
             events == Append(pending[s], e)
  <2>1. e \in Row /\ s \in Source /\ FlushCall(s) \in Call /\ Tail(calls) \in Seq(Call)
    BY <1>1, CallTypes, LogFacts DEF AppendEvent, Calls
  <2>2. events \in Seq(Row)
    BY <2>1 DEF TypeOK
  <2>3. pending' = [pending EXCEPT ![s] = events]
        /\ (calls' = <<FlushCall(s)>> \o Tail(calls) \/ calls' = Tail(calls))
    BY <1>1 DEF AppendEvent
  <2> HIDE DEF events, s, e
  <2>4. calls' \in Seq(Call)
    BY <2>1, <2>3, PrependFacts
  <2>5. pending' \in [Source -> Seq(Row)]
    BY <2>2, <2>3 DEF TypeOK
  <2> QED BY <1>1, <2>4, <2>5 DEF AppendEvent, TypeOK
<1>2. CASE NothingToCommit
  <2>1. calls' \in Seq(Call)
    BY <1>0, <1>2 DEF NothingToCommit, Calls
  <2> QED BY <1>2, <2>1 DEF NothingToCommit, TypeOK
<1>3. CASE BeginCommit
  <2>1. batch' \in [Op -> Seq(Change)] /\ status' \in [Op -> Status]
    BY <1>0, <1>3, BatchTypes DEF BeginCommit, TypeOK
  <2>2. nextOp' \in 1..(MaxOps + 1)
    BY <1>3, CommitAssumption DEF BeginCommit, Op
  <2> QED BY <1>3, <2>1, <2>2 DEF BeginCommit, TypeOK
<1>4. CASE BeginFails
  <2>1. batch' \in [Op -> Seq(Change)] /\ status' \in [Op -> Status]
    BY <1>0, <1>4, BatchTypes DEF BeginFails, TypeOK
  <2>2. nextOp' \in 1..(MaxOps + 1)
    BY <1>4, CommitAssumption DEF BeginFails, Op
  <2> QED BY <1>4, <2>1, <2>2, EndRunTypes DEF BeginFails, TypeOK
<1>5. CASE CommitSucceeds
  <2>1. status' \in [Op -> Status]
    BY <1>0, <1>5 DEF CommitSucceeds, TypeOK
  <2> QED BY <1>5, <2>1, FinishTypes DEF CommitSucceeds, TypeOK
<1>6. CASE MarkFails
  <2>1. status' \in [Op -> Status]
    BY <1>0, <1>6 DEF MarkFails, TypeOK
  <2> QED BY <1>6, <2>1 DEF MarkFails, TypeOK
<1>7. CASE CommitRejected
  <2>1. status' \in [Op -> Status]
    BY <1>0, <1>7 DEF CommitRejected, TypeOK
  <2> QED BY <1>7, <2>1 DEF CommitRejected, TypeOK
<1>8. CASE RejectedDeleteFails
  <2>1. status' \in [Op -> Status]
    BY <1>0, <1>8 DEF RejectedDeleteFails, TypeOK
  <2> QED BY <1>8, <2>1, EndRunTypes DEF RejectedDeleteFails, TypeOK
<1>9. CASE CommitUnknown
  BY <1>9 DEF CommitUnknown, TypeOK
<1>10. CASE CommitProven
  <2>1. status' \in [Op -> Status]
    BY <1>0, <1>10 DEF CommitProven, TypeOK
  <2> QED BY <1>10, <2>1, FinishTypes DEF CommitProven, TypeOK
<1>11. CASE CommitUnproven
  BY <1>11, EndRunTypes DEF CommitUnproven, TypeOK
<1> QED BY <1>1, <1>2, <1>3, <1>4, <1>5, <1>6, <1>7, <1>8, <1>9, <1>10, <1>11
        DEF CommitStep

(* The steps of commitPendingOffset. *)
LEMMA OffsetTypes ==
  ASSUME TypeOK, OffsetStep \/ DrainEnds
  PROVE  TypeOK'
<1> USE DEF durableVars, catalogVars, opVars, streamVars, recoveryVars
<1>1. ASSUME NEW c \in Offset, CleanUp(c)
      PROVE  status' \in [Op -> Status] /\ cleanupOffset' \in Offset
  BY <1>1, LogFacts DEF CleanUp, TypeOK, Status
<1>2. Calls("offset") => Tail(calls) \in Seq(Call)
  BY CallTypes DEF Calls
<1>3. CASE OffsetNotSaved
  BY <1>1, <1>2, <1>3 DEF OffsetNotSaved, TypeOK
<1>4. CASE OffsetSaved
  BY <1>1, <1>2, <1>4, LogFacts DEF OffsetSaved, MaySaveOffset, TypeOK
<1>5. CASE OffsetSaveFails
  BY <1>1, <1>2, <1>5 DEF OffsetSaveFails, MaySaveOffset, TypeOK
<1>6. CASE OffsetBlocked
  BY <1>6, EndRunTypes DEF OffsetBlocked, TypeOK
<1>7. CASE DrainEnds
  BY <1>7, EndRunTypes DEF DrainEnds, TypeOK
<1> QED BY <1>3, <1>4, <1>5, <1>6, <1>7 DEF OffsetStep

(* A commit in progress keeps its operation and its call. *)
LEMMA BusyStep ==
  ASSUME TypeOK, BusyOK, [Next]_vars
  PROVE  BusyOK'
<1> USE DEF BusyOK
<1>1. CASE StartRun \/ RecoverStep \/ DrainEnds \/ RunFails
  BY <1>1 DEF StartRun, RecoverStep, RecoverCovered, RecoverProven, RecoverWriteFails,
              RecoverRetry, RecoverBlocked, RecoverDone, NextIntent, DrainEnds, RunFails, EndRun
<1>2. CASE CatalogStep
  BY <1>2 DEF CatalogStep, CatalogAccepts, CatalogLoses, EvidenceExpired
<1>3. CASE LoopStep
  BY <1>3 DEF LoopStep, TakeEvent, Tick, SourceEnds, SourceReconnect, Idle
<1>4. CASE AppendEvent \/ NothingToCommit
  BY <1>4 DEF AppendEvent, NothingToCommit, Calls
<1>5. CASE BeginCommit
  <2>1. calls # <<>>
    BY <1>5 DEF BeginCommit, CallBatch, Calls
  <2> QED BY <1>5, <2>1 DEF BeginCommit
<1>6. CASE CommitStep /\ ~AppendEvent /\ ~NothingToCommit /\ ~BeginCommit
  BY <1>6 DEF CommitStep, BeginFails, CommitSucceeds, MarkFails, CommitRejected,
              RejectedDeleteFails, CommitUnknown, CommitProven, CommitUnproven, EndRun,
              FinishCommit
<1>7. CASE OffsetStep
  BY <1>7 DEF OffsetStep, OffsetNotSaved, OffsetSaved, OffsetSaveFails, OffsetBlocked, EndRun,
              MaySaveOffset, Calls
<1>8. CASE UNCHANGED vars
  BY <1>8 DEF vars
<1> QED BY <1>1, <1>2, <1>3, <1>4, <1>5, <1>6, <1>7, <1>8 DEF Next

(* One step keeps the types. *)
LEMMA TypeStep ==
  ASSUME TypeOK, BusyOK, [Next]_vars
  PROVE  TypeOK'
<1>1. CASE StartRun \/ RecoverStep
  BY <1>1, RecoverTypes
<1>2. CASE CatalogStep \/ LoopStep \/ RunFails
  BY <1>2, LoopTypes
<1>3. CASE CommitStep
  BY <1>3, CommitTypes DEF BusyOK
<1>4. CASE OffsetStep \/ DrainEnds
  BY <1>4, OffsetTypes
<1>5. CASE UNCHANGED vars
  BY <1>5 DEF vars, durableVars, catalogVars, opVars, streamVars, recoveryVars, TypeOK
<1> QED BY <1>1, <1>2, <1>3, <1>4, <1>5 DEF Next

(* The state of a job that was never claimed. *)
LEMMA InitTypes == Init => TypeOK /\ BusyOK
<1> SUFFICES ASSUME Init PROVE TypeOK /\ BusyOK
  OBVIOUS
<1>1. 1 \in 1..(MaxOps + 1) /\ 0 \in 0..MaxRuns /\ 0 \in 0..MaxReconnects
  BY CommitAssumption
<1>2. \A S : <<>> \in Seq(S)
  OBVIOUS
<1> QED BY <1>1, <1>2, LogFacts DEF Init, TypeOK, BusyOK, Status

(* IcebergCommit is type-correct: every variable keeps the shape of the     *)
(* table row, message or field of the sink it stands for.                   *)
THEOREM TypeCorrect == Spec => []TypeOK
<1>1. TypeOK /\ BusyOK /\ [Next]_vars => TypeOK' /\ BusyOK'
  BY TypeStep, BusyStep
<1> QED BY InitTypes, <1>1, PTL DEF Spec

-----------------------------------------------------------------------------
(* Who writes what *)

(* Operations are made by BeginCommit alone, and only the catalog accepts   *)
(* or forgets them.  A request leaves the catalog's way when it is          *)
(* rejected.                                                                *)
LEMMA OpWriters ==
  ASSUME [Next]_vars
  PROVE  /\ BeginCommit \/ BeginFails \/ UNCHANGED <<batch, nextOp>>
         /\ CatalogStep \/ UNCHANGED <<landed, evidence>>
         /\ \/ CatalogStep \/ BeginCommit \/ CommitRejected \/ RejectedDeleteFails
            \/ UNCHANGED inflight
         /\ OffsetSaved \/ OffsetSaveFails \/ ckpt' = ckpt
<1> USE DEF durableVars, catalogVars, opVars
<1>1. CASE StartRun \/ RecoverStep \/ DrainEnds \/ RunFails
  BY <1>1 DEF StartRun, RecoverStep, RecoverCovered, RecoverProven, RecoverWriteFails,
              RecoverRetry, RecoverBlocked, RecoverDone, DrainEnds, RunFails
<1>2. CASE CatalogStep
  BY <1>2 DEF CatalogStep, CatalogAccepts, CatalogLoses, EvidenceExpired
<1>3. CASE LoopStep
  BY <1>3 DEF LoopStep, TakeEvent, Tick, SourceEnds, SourceReconnect
<1>4. CASE CommitStep
  BY <1>4 DEF CommitStep, AppendEvent, NothingToCommit, BeginCommit, BeginFails,
              CommitSucceeds, MarkFails, CommitRejected, RejectedDeleteFails, CommitUnknown,
              CommitProven, CommitUnproven
<1>5. CASE OffsetStep
  BY <1>5 DEF OffsetStep, OffsetNotSaved, OffsetSaved, OffsetSaveFails, OffsetBlocked
<1>6. CASE UNCHANGED vars
  BY <1>6 DEF vars
<1> QED BY <1>1, <1>2, <1>3, <1>4, <1>5, <1>6 DEF Next

(* Intents are written by recovery, by the commit in progress and by the    *)
(* cleanup behind a checkpoint; receipts by recovery and by the rows.       *)
LEMMA IntentWriters ==
  ASSUME [Next]_vars
  PROVE  /\ \/ RecoverStep \/ CommitStep \/ OffsetStep
            \/ UNCHANGED status
         /\ \/ StartRun \/ RecoverStep \/ EndRun
            \/ UNCHANGED <<loaded, todo>>
         /\ \/ RecoverStep \/ EndRun \/ TakeEvent
            \/ UNCHANGED receipts
<1> USE DEF durableVars, recoveryVars
<1>1. CASE StartRun \/ RecoverStep \/ DrainEnds \/ RunFails
  BY <1>1 DEF StartRun, DrainEnds, RunFails
<1>2. CASE CatalogStep
  BY <1>2 DEF CatalogStep, CatalogAccepts, CatalogLoses, EvidenceExpired
<1>3. CASE LoopStep
  BY <1>3 DEF LoopStep, TakeEvent, Tick, SourceEnds, SourceReconnect
<1>4. CASE CommitStep
  BY <1>4 DEF CommitStep, AppendEvent, NothingToCommit, BeginCommit, BeginFails,
              CommitSucceeds, MarkFails, CommitRejected, RejectedDeleteFails, CommitUnknown,
              CommitProven, CommitUnproven
<1>5. CASE OffsetStep
  BY <1>5 DEF OffsetStep, OffsetNotSaved, OffsetSaved, OffsetSaveFails, OffsetBlocked
<1>6. CASE UNCHANGED vars
  BY <1>6 DEF vars
<1> QED BY <1>1, <1>2, <1>3, <1>4, <1>5, <1>6 DEF Next

(* What the recovery writes, it writes for an operation that the catalog    *)
(* has accepted; the intent it has looked at is no longer PREPARED, or is   *)
(* looked at again.                                                         *)
LEMMA RecoverWrites ==
  ASSUME TypeOK, OpsInv, StatusInv, RecoverStep
  PROVE  /\ \A p \in Op : \/ status'[p] = status[p]
                          \/ p \in landed /\ status'[p] \in {"none", "COMMITTED"}
         /\ loaded' \subseteq landed
         /\ \A p \in Op : status'[p] = "PREPARED" => pc' = "down" \/ p \in todo'
         /\ pc' # "down" => UNCHANGED <<pending, pendingOffset, cleanupOffset, cursor, calls, cur>>
<1> USE DEF streamVars
<1>0. /\ evidence \subseteq landed /\ todo \subseteq Op /\ status \in [Op -> Status]
      /\ loaded \subseteq landed
  BY DEF TypeOK, OpsInv
<1>1. ASSUME NEW o \in Op, RecoverCovered(o)
      PROVE  /\ \A p \in Op : \/ status'[p] = status[p]
                              \/ p \in landed /\ status'[p] \in {"none", "COMMITTED"}
             /\ loaded' \subseteq landed
             /\ \A p \in Op : status'[p] = "PREPARED" => p \in todo'
             /\ UNCHANGED <<pending, pendingOffset, cleanupOffset, cursor, calls, cur>>
  BY <1>0, <1>1 DEF RecoverCovered, NextIntent, StatusInv
<1>2. ASSUME NEW o \in Op, RetainReceipt(o), NeedsProof(o) => Recoverable(o)
      PROVE  loaded' \subseteq landed
  BY <1>0, <1>2 DEF RetainReceipt, NeedsProof, Recoverable, Proven
<1>3. ASSUME NEW o \in Op, RecoverProven(o)
      PROVE  /\ \A p \in Op : \/ status'[p] = status[p]
                              \/ p \in landed /\ status'[p] \in {"none", "COMMITTED"}
             /\ loaded' \subseteq landed
             /\ \A p \in Op : status'[p] = "PREPARED" => p \in todo'
             /\ UNCHANGED <<pending, pendingOffset, cleanupOffset, cursor, calls, cur>>
  <2>1. Resolved(o) \in {"none", "COMMITTED"} /\ o \in landed
    BY <1>0, <1>3 DEF RecoverProven, Recoverable, Proven, Resolved
  <2> QED BY <1>0, <1>2, <1>3, <2>1 DEF RecoverProven, NextIntent, StatusInv
<1>4. ASSUME NEW o \in Op, RecoverWriteFails(o)
      PROVE  /\ \A p \in Op : \/ status'[p] = status[p]
                              \/ p \in landed /\ status'[p] \in {"none", "COMMITTED"}
             /\ loaded' \subseteq landed
             /\ \A p \in Op : status'[p] = "PREPARED" => p \in todo'
             /\ UNCHANGED <<pending, pendingOffset, cleanupOffset, cursor, calls, cur>>
  <2>1. Resolved(o) \in {"none", "COMMITTED"}
    BY DEF Resolved
  <2>2. o \in landed
    BY <1>0, <1>4 DEF RecoverWriteFails, NeedsProof, Recoverable, Proven, StatusInv
  <2>3. \A p \in Op : \/ status'[p] = status[p]
                      \/ p \in landed /\ status'[p] \in {"none", "COMMITTED"}
    BY <1>0, <1>4, <2>1, <2>2 DEF RecoverWriteFails
  <2>4. \A p \in Op : status'[p] = "PREPARED" => p \in todo'
    BY <1>4 DEF RecoverWriteFails, Intents
  <2> QED BY <1>2, <1>4, <2>3, <2>4 DEF RecoverWriteFails
<1>5. ASSUME NEW o \in Op, RecoverRetry(o)
      PROVE  /\ status' = status /\ loaded' = loaded
             /\ \A p \in Op : status'[p] = "PREPARED" => p \in todo'
             /\ UNCHANGED <<pending, pendingOffset, cleanupOffset, cursor, calls, cur>>
  BY <1>5 DEF RecoverRetry, Intents, durableVars
<1>6. ASSUME NEW o \in Op, RecoverBlocked(o)
      PROVE  status' = status /\ loaded' = {} /\ pc' = "down"
  BY <1>6 DEF RecoverBlocked, durableVars, EndRun
<1>7. ASSUME RecoverDone
      PROVE  /\ status' = status /\ loaded' = loaded
             /\ \A p \in Op : status'[p] = "PREPARED" => p \in todo'
             /\ UNCHANGED <<pending, pendingOffset, cleanupOffset, cursor, calls, cur>>
  BY <1>7 DEF RecoverDone, durableVars, recoveryVars, StatusInv
<1> QED BY <1>0, <1>1, <1>3, <1>4, <1>5, <1>6, <1>7 DEF RecoverStep

(* What the commit in progress writes to the intents. *)
LEMMA CommitWrites ==
  ASSUME TypeOK, BusyOK, CommitStep
  PROVE  \A p \in Op :
           \/ status'[p] = status[p]
           \/ p = nextOp /\ BeginCommit /\ status'[p] = "PREPARED"
           \/ p = nextOp /\ BeginFails /\ status'[p] \in {"none", "PREPARED"}
           \/ /\ p = cur /\ p \in landed
              /\ \/ status'[p] = "COMMITTED"
                 \/ status'[p] = "PREPARED" /\ pc' = "prove" /\ cur' = p
           \/ p = cur /\ p \notin landed /\ status'[p] = "none" /\ p \notin inflight'
           \/ p = cur /\ p \notin landed /\ status'[p] = "PREPARED" /\ RejectedDeleteFails
<1>0. status \in [Op -> Status] /\ evidence \subseteq landed /\ (pc \in {"call", "prove"} => cur \in Op)
  BY DEF TypeOK, BusyOK
<1>1. CASE BeginCommit
  BY <1>0, <1>1 DEF BeginCommit
<1>2. CASE BeginFails
  BY <1>0, <1>2 DEF BeginFails
<1>3. CASE CommitSucceeds \/ CommitProven
  BY <1>0, <1>3 DEF CommitSucceeds, CommitProven, Proven
<1>4. CASE MarkFails
  BY <1>0, <1>4 DEF MarkFails
<1>5. CASE CommitRejected \/ RejectedDeleteFails
  BY <1>0, <1>5 DEF CommitRejected, RejectedDeleteFails, Rejected
<1>6. CASE AppendEvent \/ NothingToCommit \/ CommitUnknown \/ CommitUnproven
  BY <1>6 DEF AppendEvent, NothingToCommit, CommitUnknown, CommitUnproven, durableVars
<1> QED BY <1>1, <1>2, <1>3, <1>4, <1>5, <1>6 DEF CommitStep

(* Saving a checkpoint deletes confirmed intents only. *)
LEMMA OffsetWrites ==
  ASSUME TypeOK, OffsetStep
  PROVE  \A p \in Op : \/ status'[p] = status[p]
                       \/ status[p] = "COMMITTED" /\ status'[p] = "none"
<1>1. ASSUME NEW c, CleanUp(c)
      PROVE  \A p \in Op : \/ status'[p] = status[p]
                           \/ status[p] = "COMMITTED" /\ status'[p] = "none"
  BY <1>1 DEF CleanUp, Cleanable
<1>2. CASE OffsetNotSaved \/ OffsetSaved \/ OffsetSaveFails
  BY <1>1, <1>2 DEF OffsetNotSaved, OffsetSaved, OffsetSaveFails
<1>3. CASE OffsetBlocked
  BY <1>3 DEF OffsetBlocked, durableVars
<1> QED BY <1>2, <1>3 DEF OffsetStep

(* The life of an intent, step by step. *)
LEMMA StatusWrites ==
  ASSUME TypeOK, BusyOK, OpsInv, StatusInv, [Next]_vars, NEW p \in Op
  PROVE  \/ status'[p] = status[p]
         \/ p \in landed /\ status'[p] \in {"none", "COMMITTED"}
         \/ p = nextOp /\ (BeginCommit \/ BeginFails) /\ status'[p] \in {"none", "PREPARED"}
         \/ p = cur /\ p \in landed /\ status'[p] = "PREPARED" /\ pc' = "prove" /\ cur' = p
         \/ p = cur /\ p \notin landed /\ status'[p] = "none" /\ p \notin inflight'
         \/ p = cur /\ p \notin landed /\ status'[p] = "PREPARED" /\ RejectedDeleteFails
<1>1. CASE RecoverStep
  BY <1>1, RecoverWrites
<1>2. CASE CommitStep
  BY <1>2, CommitWrites
<1>3. CASE OffsetStep
  BY <1>3, OffsetWrites DEF StatusInv
<1>4. CASE UNCHANGED status
  BY <1>4
<1> QED BY <1>1, <1>2, <1>3, <1>4, IntentWriters

-----------------------------------------------------------------------------
(* The invariants of the operations *)

(* An operation is one batch of rows or one schema change. *)
LEMMA BatchShape ==
  ASSUME TypeOK
  PROVE  Range(CallBatch) \subseteq Row \/ \E d \in Ddl : CallBatch = <<d>>
<1>1. CASE Calls("flush")
  <2>1. CallBatch = pending[HeadCall.src]
    BY <1>1 DEF CallBatch, Calls
  <2>2. pending[HeadCall.src] \in Seq(Row)
    BY <1>1, CallTypes DEF TypeOK
  <2> QED BY <2>1, <2>2 DEF Range
<1>2. CASE Calls("ddl") /\ HeadCall.ev \notin Applied
  <2>1. CallBatch = <<HeadCall.ev>>
    BY <1>2 DEF CallBatch, Calls
  <2> QED BY <1>2, <2>1, CallTypes
<1>3. CASE ~Calls("flush") /\ ~(Calls("ddl") /\ HeadCall.ev \notin Applied)
  <2>1. CallBatch = <<>>
    BY <1>3 DEF CallBatch
  <2> QED BY <2>1 DEF Range
<1> QED BY <1>1, <1>2, <1>3

(* Operations are numbered as they begin, and keep what they write. *)
LEMMA OpsStep ==
  ASSUME TypeOK, BusyOK, OpsInv, StatusInv, [Next]_vars,
         pc \in {"call", "prove"} => cur < nextOp
  PROVE  OpsInv'
<1>0. /\ nextOp \in Nat /\ Op \subseteq Nat /\ evidence \subseteq landed
      /\ batch \in [Op -> Seq(Change)] /\ landed \subseteq Op /\ inflight \subseteq Op
  BY DEF TypeOK, Op
<1>1. CASE BeginCommit \/ BeginFails
  <2>1. /\ nextOp \in Op /\ nextOp' = nextOp + 1
        /\ batch' = [batch EXCEPT ![nextOp] = CallBatch] /\ CallBatch # <<>>
        /\ inflight' \subseteq inflight \cup {nextOp} /\ landed' = landed
        /\ loaded' = loaded \/ loaded' = {}
    BY <1>1 DEF BeginCommit, BeginFails, catalogVars, recoveryVars, EndRun
  <2>2. \A p \in Op : p # nextOp => status'[p] = status[p]
    BY <1>0, <1>1 DEF BeginCommit, BeginFails, TypeOK
  <2>3. \A o \in Op : o >= nextOp' => o >= nextOp /\ o # nextOp
    BY <1>0, <2>1
  <2>4. \A o \in Op : o < nextOp' => o < nextOp \/ o = nextOp
    BY <1>0, <2>1
  <2>5. \A o \in Op : o >= nextOp' => /\ batch'[o] = <<>> /\ status'[o] = "none"
                                      /\ o \notin landed' \cup inflight'
    BY <1>0, <2>1, <2>2, <2>3 DEF OpsInv
  <2>6. \A o \in Op : o < nextOp' => batch'[o] # <<>>
    BY <1>0, <2>1, <2>4 DEF OpsInv
  <2>7. \A o \in Op : Range(batch'[o]) \subseteq Row \/ \E d \in Ddl : batch'[o] = <<d>>
    BY <1>0, <2>1, BatchShape DEF OpsInv
  <2>8. inflight' \cap landed' = {} /\ loaded' \subseteq landed'
    <3>1. nextOp \notin landed
      BY <1>0, <2>1 DEF OpsInv
    <3>2. inflight \cap landed = {} /\ loaded \subseteq landed
      BY DEF OpsInv
    <3> QED BY <2>1, <3>1, <3>2
  <2> QED BY <2>5, <2>6, <2>7, <2>8 DEF OpsInv
<1>2. CASE UNCHANGED <<batch, nextOp>> /\ ~BeginCommit /\ ~BeginFails
  <2>1. /\ landed \subseteq landed' /\ landed' \cup inflight' \subseteq landed \cup inflight
        /\ landed' \cap inflight' = {}
    <3>1. CASE CatalogStep
      BY <3>1 DEF CatalogStep, CatalogAccepts, CatalogLoses, EvidenceExpired, OpsInv
    <3>2. CASE ~CatalogStep
      BY <1>2, <3>2, OpWriters DEF CommitRejected, RejectedDeleteFails, OpsInv
    <3> QED BY <3>1, <3>2
  <2>2. loaded' \subseteq landed'
    <3>1. CASE RecoverStep
      BY <2>1, <3>1, RecoverWrites
    <3>2. CASE ~RecoverStep
      BY <2>1, <3>2, IntentWriters DEF StartRun, EndRun, OpsInv
    <3> QED BY <3>1, <3>2
  <2>3. \A o \in Op : o >= nextOp => status'[o] = "none"
    <3> TAKE o \in Op
    <3> HAVE o >= nextOp
    <3>1. status[o] = "none" /\ o \notin landed
      BY DEF OpsInv
    <3>2. RejectedDeleteFails => o # cur
      BY <1>0 DEF RejectedDeleteFails
    <3> QED BY <1>2, <3>1, <3>2, StatusWrites
  <2> QED BY <1>2, <2>1, <2>2, <2>3 DEF OpsInv
<1> QED BY <1>1, <1>2, OpWriters

(* An intent is PREPARED while its outcome is open, COMMITTED only after    *)
(* its commit has been accepted; nobody streams beside an open one.         *)
LEMMA StatusStep ==
  ASSUME TypeOK, BusyOK, OpsInv, StatusInv, RestInv, BusyInv, [Next]_vars
  PROVE  StatusInv'
<1>0. /\ landed \subseteq Op /\ inflight \subseteq Op /\ nextOp \in Nat /\ Op \subseteq Nat
      /\ status \in [Op -> Status] /\ NoOp \notin Op
  BY DEF TypeOK, Op, NoOp
<1>1. landed \subseteq landed'
  BY OpWriters DEF CatalogStep, CatalogAccepts, CatalogLoses, EvidenceExpired
<1>2. ASSUME NEW o \in Op, o \in inflight' PROVE status'[o] = "PREPARED"
  <2>1. CASE BeginCommit
    BY <1>0, <1>2, <2>1 DEF BeginCommit, StatusInv
  <2>2. CASE ~BeginCommit
    <3>1. o \in inflight
      BY <1>2, <2>2, OpWriters DEF CatalogStep, CatalogAccepts, CatalogLoses, EvidenceExpired,
         CommitRejected, RejectedDeleteFails
    <3>2. status[o] = "PREPARED" /\ o \notin landed /\ o < nextOp
      BY <1>0, <3>1 DEF StatusInv, OpsInv
    <3> QED BY <1>0, <1>2, <3>2, StatusWrites
  <2> QED BY <2>1, <2>2
<1>3. ASSUME NEW o \in Op, status'[o] = "COMMITTED" PROVE o \in landed'
  BY <1>1, <1>3, StatusWrites DEF StatusInv
<1>4. ASSUME NEW o \in Op, status'[o] = "PREPARED"
      PROVE  (pc' = "recover" => o \in todo') /\ (Streaming' => o = cur')
  <2> USE DEF Streaming
  <2>1. CASE StartRun
    BY <1>4, <2>1 DEF StartRun, Intents, durableVars
  <2>2. CASE RecoverStep
    <3>1. pc' = "down" \/ o \in todo'
      BY <1>4, <2>2, RecoverWrites
    <3>2. RecoverDone => todo' = {}
      BY DEF RecoverDone, recoveryVars
    <3>3. ~RecoverDone => pc' \in {"down", "recover"}
      BY <2>2 DEF RecoverStep, RecoverCovered, RecoverProven, RecoverWriteFails, RecoverRetry,
         RecoverBlocked, NextIntent, EndRun
    <3> QED BY <3>1, <3>2, <3>3
  <2>3. CASE CatalogStep
    BY <1>4, <2>3 DEF CatalogStep, CatalogAccepts, CatalogLoses, EvidenceExpired, durableVars,
       recoveryVars, StatusInv
  <2>4. CASE LoopStep
    BY <1>4, <2>4 DEF LoopStep, TakeEvent, Tick, SourceEnds, SourceReconnect, durableVars,
       StatusInv, Idle
  <2>5. CASE AppendEvent \/ NothingToCommit
    BY <1>4, <2>5 DEF AppendEvent, NothingToCommit, Calls, durableVars, StatusInv
  <2>6. CASE BeginCommit
    <3>1. pc = "stream"
      BY <2>6 DEF BeginCommit, CallBatch, Calls
    <3>2. \A p \in Op : status[p] # "PREPARED"
      BY <1>0, <3>1 DEF StatusInv, RestInv
    <3>3. \A p \in Op : p # nextOp => status'[p] = status[p]
      BY <1>0, <2>6 DEF BeginCommit
    <3> QED BY <1>4, <2>6, <3>2, <3>3 DEF BeginCommit
  <2>7. CASE CommitSucceeds \/ MarkFails \/ CommitRejected \/ CommitProven
    <3>1. /\ pc \in {"call", "prove"} /\ cur \in Op
          /\ \E s \in {"none", "PREPARED", "COMMITTED"} :
               /\ status' = [status EXCEPT ![cur] = s]
               /\ s = "PREPARED" => pc' = "prove" /\ cur' = cur
          /\ pc' # "recover"
      BY <2>7 DEF CommitSucceeds, MarkFails, CommitRejected, CommitProven, FinishCommit, BusyOK
    <3>2. \A p \in Op : status[p] = "PREPARED" => p = cur
      BY <3>1 DEF StatusInv
    <3> QED BY <1>0, <1>4, <3>1, <3>2
  <2>8. CASE CommitUnknown
    BY <1>4, <2>8 DEF CommitUnknown, durableVars, StatusInv
  <2>9. CASE OffsetNotSaved \/ OffsetSaved \/ OffsetSaveFails
    <3>1. pc = "stream" /\ UNCHANGED <<pc, cur>>
      BY <2>9 DEF OffsetNotSaved, OffsetSaved, OffsetSaveFails, MaySaveOffset, Calls
    <3>2. status[o] = "PREPARED"
      BY <1>4, <2>9, OffsetWrites DEF OffsetStep
    <3> QED BY <3>1, <3>2 DEF StatusInv
  <2>10. CASE EndRun
    BY <2>10 DEF EndRun
  <2>11. CASE UNCHANGED vars
    BY <1>4, <2>11 DEF vars, durableVars, recoveryVars, StatusInv
  <2> QED BY <2>1, <2>2, <2>3, <2>4, <2>5, <2>6, <2>7, <2>8, <2>9, <2>10, <2>11
          DEF Next, CommitStep, OffsetStep, BeginFails, RejectedDeleteFails, CommitUnproven,
              OffsetBlocked, DrainEnds, RunFails
<1> QED BY <1>0, <1>2, <1>3, <1>4, TypeStep DEF StatusInv, TypeOK

-----------------------------------------------------------------------------
(* The invariants of the run loop *)

(* A run that is over, or has not taken an event yet, has empty memory.     *)
LEMMA RestStep ==
  ASSUME TypeOK, BusyOK, RestInv, [Next]_vars
  PROVE  RestInv'
<1> USE DEF RestInv, durableVars, streamVars, recoveryVars
<1>1. CASE StartRun
  BY <1>1 DEF StartRun
<1>2. CASE RecoverStep
  <2>1. CASE EndRun
    BY <2>1 DEF EndRun
  <2>2. CASE ~EndRun
    <3>1. pc = "recover" /\ pc' \in {"recover", "stream"}
          /\ UNCHANGED <<ckpt, calls, cur, cursor, pending, pendingOffset, cleanupOffset>>
      BY <1>2, <2>2 DEF RecoverStep, RecoverCovered, RecoverProven, RecoverWriteFails,
         RecoverRetry, RecoverBlocked, RecoverDone, NextIntent
    <3> QED BY <3>1 DEF Prefix
  <2> QED BY <2>1, <2>2
<1>3. CASE CatalogStep
  BY <1>3 DEF CatalogStep, CatalogAccepts, CatalogLoses, EvidenceExpired, Prefix
<1>4. CASE LoopStep
  BY <1>4 DEF LoopStep, TakeEvent, Tick, SourceEnds, SourceReconnect, Idle
<1>5. CASE AppendEvent \/ NothingToCommit \/ BeginCommit
  BY <1>5 DEF AppendEvent, NothingToCommit, BeginCommit, CallBatch, Calls
<1>6. CASE CommitSucceeds \/ MarkFails \/ CommitRejected \/ CommitUnknown \/ CommitProven
  BY <1>6 DEF CommitSucceeds, MarkFails, CommitRejected, CommitUnknown, CommitProven,
              FinishCommit
<1>7. CASE OffsetNotSaved \/ OffsetSaved \/ OffsetSaveFails
  BY <1>7 DEF OffsetNotSaved, OffsetSaved, OffsetSaveFails, MaySaveOffset, Calls
<1>8. CASE EndRun
  BY <1>8 DEF EndRun
<1>9. CASE UNCHANGED vars
  BY <1>9 DEF vars, Prefix
<1> QED BY <1>1, <1>2, <1>3, <1>4, <1>5, <1>6, <1>7, <1>8, <1>9
        DEF Next, CommitStep, OffsetStep, BeginFails, RejectedDeleteFails, CommitUnproven,
            OffsetBlocked, DrainEnds, RunFails

(* A commit in progress writes what the call at the head asks for.          *)
LEMMA BusyInvStep ==
  ASSUME TypeOK, BusyInv, [Next]_vars
  PROVE  BusyInv'
<1> USE DEF BusyInv, HeadCall, durableVars, streamVars, recoveryVars, opVars
<1>1. CASE StartRun \/ RecoverStep \/ EndRun
  BY <1>1 DEF StartRun, RecoverStep, RecoverCovered, RecoverProven, RecoverWriteFails,
              RecoverRetry, RecoverBlocked, RecoverDone, NextIntent, EndRun
<1>2. CASE CatalogStep
  BY <1>2 DEF CatalogStep, CatalogAccepts, CatalogLoses, EvidenceExpired
<1>3. CASE LoopStep
  BY <1>3 DEF LoopStep, TakeEvent, Tick, SourceEnds, SourceReconnect, Idle
<1>4. CASE AppendEvent \/ NothingToCommit
  BY <1>4 DEF AppendEvent, NothingToCommit, Calls
<1>5. CASE BeginCommit
  <2>1. calls # <<>> /\ \/ HeadCall.do = "flush" /\ CallBatch = pending[HeadCall.src]
                        \/ HeadCall.do = "ddl" /\ CallBatch = <<HeadCall.ev>>
    BY <1>5 DEF BeginCommit, CallBatch, Calls
  <2>2. nextOp' = nextOp + 1 /\ nextOp \in Op /\ cur' = nextOp /\ batch'[nextOp] = CallBatch
    BY <1>5 DEF BeginCommit, TypeOK
  <2> QED BY <1>5, <2>1, <2>2 DEF BeginCommit, Op
<1>6. CASE CommitSucceeds \/ CommitRejected \/ CommitProven
  BY <1>6 DEF CommitSucceeds, CommitRejected, CommitProven, FinishCommit
<1>7. CASE MarkFails \/ CommitUnknown
  BY <1>7 DEF MarkFails, CommitUnknown
<1>8. CASE OffsetNotSaved \/ OffsetSaved \/ OffsetSaveFails
  BY <1>8 DEF OffsetNotSaved, OffsetSaved, OffsetSaveFails, MaySaveOffset, Calls
<1>9. CASE UNCHANGED vars
  BY <1>9 DEF vars
<1> QED BY <1>1, <1>2, <1>3, <1>4, <1>5, <1>6, <1>7, <1>8, <1>9
        DEF Next, CommitStep, OffsetStep, BeginFails, RejectedDeleteFails, CommitUnproven,
            OffsetBlocked, DrainEnds, RunFails

(* The calls of a handler end with the event it is for, if there is one:    *)
(* so do those after the head,                                              *)
LEMMA TailEvents ==
  ASSUME NEW q \in Seq(Call), q # <<>>, NEW e, EventOnlyLast(q, e)
  PROVE  /\ EventOnlyLast(Tail(q), e) /\ EventsOf(Tail(q)) \subseteq EventsOf(q)
         /\ ~HasEvent(Head(q)) => EventsOf(Tail(q)) = EventsOf(q)
         /\ HasEvent(Head(q)) => Tail(q) = <<>> /\ Head(q).ev = e /\ EventsOf(q) = {e}
<1>1. /\ Len(q) \in Nat \ {0} /\ Tail(q) \in Seq(Call) /\ Len(Tail(q)) = Len(q) - 1
      /\ Head(q) = q[1] /\ \A i \in 1..(Len(q) - 1) : Tail(q)[i] = q[i + 1]
  BY TailFacts
<1>2. DOMAIN q = 1..Len(q) /\ DOMAIN Tail(q) = 1..(Len(q) - 1)
  BY <1>1
<1>3. \A i \in DOMAIN Tail(q) : i + 1 \in DOMAIN q /\ Tail(q)[i] = q[i + 1]
  BY <1>1, <1>2
<1>4. \A i \in DOMAIN q : i = 1 \/ (i - 1 \in DOMAIN Tail(q) /\ Tail(q)[i - 1] = q[i])
  BY <1>1, <1>2
<1>5. EventOnlyLast(Tail(q), e)
  BY <1>1, <1>2, <1>3 DEF EventOnlyLast
<1>6. EventsOf(Tail(q)) \subseteq EventsOf(q)
  BY <1>3 DEF EventsOf
<1>7. ASSUME ~HasEvent(Head(q)) PROVE EventsOf(q) \subseteq EventsOf(Tail(q))
  <2>1. \A i \in DOMAIN q : HasEvent(q[i]) =>
          \E j \in DOMAIN Tail(q) : Tail(q)[j] = q[i]
    BY <1>1, <1>4, <1>7
  <2> QED BY <2>1 DEF EventsOf
<1>8. HasEvent(Head(q)) => Len(q) = 1 /\ Head(q).ev = e /\ EventsOf(q) = {e}
  <2>1. HasEvent(Head(q)) => Len(q) = 1 /\ Head(q).ev = e
    BY <1>1, <1>2 DEF EventOnlyLast
  <2>2. Len(q) = 1 => DOMAIN q = {1}
    BY <1>2
  <2>3. ASSUME HasEvent(Head(q)) PROVE EventsOf(q) = {e}
    <3>1. DOMAIN q = {1} /\ HasEvent(q[1]) /\ q[1].ev = e
      BY <1>1, <2>1, <2>2, <2>3
    <3> QED BY <3>1 DEF EventsOf
  <2> QED BY <2>1, <2>3
<1>9. Len(q) = 1 => Tail(q) = <<>>
  <2> DEFINE t == Tail(q)
  <2>1. t \in Seq(Call) /\ (Len(q) = 1 => Len(t) = 0)
    BY <1>1
  <2> HIDE DEF t
  <2>2. Len(q) = 1 => t = <<>>
    BY <2>1
  <2> QED BY <2>2 DEF t
<1>10. ~HasEvent(Head(q)) => EventsOf(Tail(q)) = EventsOf(q)
  BY <1>6, <1>7
<1> QED BY <1>5, <1>6, <1>8, <1>9, <1>10

(* those with another call in front,                                        *)
LEMMA PrependEvents ==
  ASSUME NEW q \in Seq(Call), NEW x \in Call, ~HasEvent(x), NEW e, EventOnlyLast(q, e)
  PROVE  EventOnlyLast(<<x>> \o q, e) /\ EventsOf(<<x>> \o q) = EventsOf(q)
<1> DEFINE r == <<x>> \o q
<1>1. /\ r \in Seq(Call) /\ Len(r) = Len(q) + 1 /\ Len(q) \in Nat /\ r[1] = x
      /\ \A i \in 2..(Len(q) + 1) : r[i] = q[i - 1]
  BY PrependFacts
<1> HIDE DEF r
<1>2. DOMAIN r = 1..(Len(q) + 1) /\ DOMAIN q = 1..Len(q)
  BY <1>1
<1>3. \A i \in DOMAIN r : i = 1 \/ (i - 1 \in DOMAIN q /\ r[i] = q[i - 1])
  BY <1>1, <1>2
<1>4. \A i \in DOMAIN q : i + 1 \in DOMAIN r /\ r[i + 1] = q[i]
  BY <1>1, <1>2
<1>5. EventOnlyLast(r, e)
  BY <1>1, <1>2, <1>3 DEF EventOnlyLast
<1>6. EventsOf(r) = EventsOf(q)
  <2>1. \A i \in DOMAIN r : HasEvent(r[i]) => \E j \in DOMAIN q : q[j] = r[i]
    BY <1>1, <1>3
  <2> QED BY <1>4, <2>1 DEF EventsOf
<1> QED BY <1>5, <1>6 DEF r

(* and those that begin with the flushes of some tables.                    *)
LEMMA FlushEvents ==
  ASSUME NEW S \in SUBSET Source, NEW order \in SetToSeqs(S), NEW r \in Seq(Call),
         NEW e, EventOnlyLast(r, e)
  PROVE  /\ EventOnlyLast(FlushCalls(order) \o r, e)
         /\ EventsOf(FlushCalls(order) \o r) = EventsOf(r)
<1> DEFINE q == FlushCalls(order)
           t == q \o r
<1>1. /\ q \in Seq(Call) /\ DOMAIN q = 1..Len(q)
      /\ \A i \in DOMAIN q : \E s \in S : q[i] = FlushCall(s)
  BY FlushFacts
<1>2. \A i \in DOMAIN q : ~HasEvent(q[i])
  BY <1>1 DEF HasEvent, FlushCall
<1> HIDE DEF q
<1>3. /\ t \in Seq(Call) /\ Len(t) = Len(q) + Len(r) /\ Len(q) \in Nat /\ Len(r) \in Nat
      /\ \A i \in 1..(Len(q) + Len(r)) : t[i] = IF i <= Len(q) THEN q[i] ELSE r[i - Len(q)]
  BY <1>1, ConcatFacts
<1> HIDE DEF t
<1>4. DOMAIN t = 1..(Len(q) + Len(r)) /\ DOMAIN r = 1..Len(r)
  BY <1>3
<1>5. \A i \in DOMAIN t : \/ ~HasEvent(t[i])
                         \/ (i - Len(q) \in DOMAIN r /\ t[i] = r[i - Len(q)])
  BY <1>1, <1>2, <1>3, <1>4
<1>6. \A i \in DOMAIN r : i + Len(q) \in DOMAIN t /\ t[i + Len(q)] = r[i]
  BY <1>3, <1>4
<1>7. EventOnlyLast(t, e)
  BY <1>3, <1>4, <1>5 DEF EventOnlyLast
<1>8. EventsOf(t) = EventsOf(r)
  <2>1. \A i \in DOMAIN t : HasEvent(t[i]) => \E j \in DOMAIN r : r[j] = t[i]
    BY <1>5
  <2> QED BY <1>6, <2>1 DEF EventsOf
<1> QED BY <1>7, <1>8 DEF t, q

(* The last calls of a handler.                                             *)
LEMMA LastEvents ==
  /\ \A x : EventOnlyLast(<<x>>, x.ev)
  /\ \A x, e : ~HasEvent(x) => EventOnlyLast(<<x>>, e) /\ EventsOf(<<x>>) = {}
  /\ \A x : HasEvent(x) => EventsOf(<<x>>) = {x.ev}
  /\ \A e : EventOnlyLast(<<>>, e) /\ EventsOf(<<>>) = {}
<1>1. \A x : DOMAIN <<x>> = {1} /\ <<x>>[1] = x /\ Len(<<x>>) = 1
  OBVIOUS
<1>2. DOMAIN <<>> = {}
  OBVIOUS
<1> QED BY <1>1, <1>2 DEF EventOnlyLast, EventsOf

(* What a change makes the run loop do.                                     *)
LEMMA TakeChangeCalls ==
  ASSUME NEW e \in Entry, TakeChange(e)
  PROVE  EventOnlyLast(calls', e) /\ EventsOf(calls') = {e}
<1> DEFINE S == PriorSources(Log[e].src)
           flush == FlushCall(Log[e].src)
           ddl == [do |-> "ddl", ev |-> e]
           append == [do |-> "append", ev |-> e]
           last == IF e \in Ddl THEN <<flush, ddl>> ELSE <<append>>
<1>1. PICK order \in ByKey(S) : calls' = FlushCalls(order) \o last
  BY DEF TakeChange
<1>2. S \in SUBSET Source /\ order \in SetToSeqs(S)
  BY DEF PriorSources, PendingSources, ByKey
<1>3. Log[e].src \in Source /\ (e \in Ddl \/ e \in Row)
  BY LogFacts DEF TakeChange, Change
<1>4. last \in Seq(Call) /\ EventOnlyLast(last, e) /\ EventsOf(last) = {e}
  <2>1. CASE e \in Ddl
    <3>1. flush \in Call /\ ddl \in Call /\ ~HasEvent(flush) /\ HasEvent(ddl) /\ ddl.ev = e
      BY <1>3, <2>1 DEF Call, FlushCall, HasEvent
    <3> HIDE DEF flush, ddl
    <3>2. <<ddl>> \in Seq(Call) /\ EventOnlyLast(<<ddl>>, e) /\ EventsOf(<<ddl>>) = {e}
      BY <3>1, LastEvents
    <3>3. <<flush, ddl>> = <<flush>> \o <<ddl>>
      BY <3>1, PairFacts
    <3> QED BY <2>1, <3>1, <3>2, <3>3, PrependEvents, PrependFacts
  <2>2. CASE e \notin Ddl
    <3>1. append \in Call /\ HasEvent(append) /\ append.ev = e
      BY <1>3, <2>2 DEF Call, HasEvent
    <3> HIDE DEF append
    <3> QED BY <2>2, <3>1, LastEvents
  <2> QED BY <2>1, <2>2
<1> HIDE DEF last, S
<1> QED BY <1>1, <1>2, <1>4, FlushEvents

(* What a tick and the end of the source make it do.                        *)
LEMMA DrainCalls ==
  ASSUME SourceEnds \/ \E due \in SUBSET Source : Tick(due), NEW e
  PROVE  EventOnlyLast(calls', e) /\ EventsOf(calls') = {}
<1> DEFINE force == OffsetCall(TRUE)
           wait == OffsetCall(FALSE)
           end == [do |-> "end"]
<1>1. /\ force \in Call /\ wait \in Call /\ end \in Call
      /\ ~HasEvent(force) /\ ~HasEvent(wait) /\ ~HasEvent(end)
  BY DEF Call, OffsetCall, HasEvent
<1>2. CASE SourceEnds
  <2>1. PICK order \in SetToSeqs(PendingSources) :
          calls' = FlushCalls(order) \o <<force, end>>
    BY <1>2 DEF SourceEnds
  <2>2. PendingSources \in SUBSET Source
    BY DEF PendingSources
  <2> HIDE DEF force, wait, end
  <2>3. <<end>> \in Seq(Call) /\ EventOnlyLast(<<end>>, e) /\ EventsOf(<<end>>) = {}
    BY <1>1, LastEvents
  <2>4. <<force, end>> = <<force>> \o <<end>>
    BY <1>1, PairFacts
  <2>5. /\ <<force, end>> \in Seq(Call) /\ EventOnlyLast(<<force, end>>, e)
        /\ EventsOf(<<force, end>>) = {}
    <3>1. /\ <<force>> \o <<end>> \in Seq(Call) /\ EventOnlyLast(<<force>> \o <<end>>, e)
          /\ EventsOf(<<force>> \o <<end>>) = {}
      BY <1>1, <2>3, PrependEvents, PrependFacts
    <3> QED BY <2>4, <3>1
  <2> QED BY <2>1, <2>2, <2>5, FlushEvents
<1>3. ASSUME NEW due \in SUBSET Source, Tick(due)
      PROVE  EventOnlyLast(calls', e) /\ EventsOf(calls') = {}
  <2>1. PICK order \in ByKey(DueSources(due)) : calls' = FlushCalls(order) \o <<wait>>
    BY <1>3 DEF Tick
  <2>2. DueSources(due) \in SUBSET Source /\ order \in SetToSeqs(DueSources(due))
    BY DEF DueSources, PendingSources, ByKey
  <2> HIDE DEF wait
  <2>3. /\ <<wait>> \in Seq(Call) /\ EventOnlyLast(<<wait>>, e)
        /\ EventsOf(<<wait>>) = {}
    BY <1>1, LastEvents
  <2> QED BY <2>1, <2>2, <2>3, FlushEvents
<1> QED BY <1>2, <1>3

(* What is left of the calls after the first.                               *)
LEMMA PopCalls ==
  ASSUME TypeOK, EventInv, calls # <<>>,
         \/ calls' = Tail(calls)
         \/ calls' = <<OffsetCall(TRUE)>> \o Tail(calls)
         \/ \E s \in Source : calls' = <<FlushCall(s)>> \o Tail(calls)
  PROVE  /\ EventOnlyLast(calls', cursor) /\ EventsOf(calls') \subseteq Called
         /\ ~HasEvent(HeadCall) => EventsOf(calls') = Called
         /\ HasEvent(HeadCall) => /\ HeadCall.ev = cursor /\ Called = {cursor}
                                  /\ EventsOf(calls') = {}
<1> DEFINE t == Tail(calls)
<1>1. calls \in Seq(Call) /\ t \in Seq(Call) /\ EventOnlyLast(calls, cursor)
  BY CallTypes DEF TypeOK, EventInv
<1>2. /\ EventOnlyLast(t, cursor) /\ EventsOf(t) \subseteq Called
      /\ ~HasEvent(HeadCall) => EventsOf(t) = Called
      /\ HasEvent(HeadCall) => HeadCall.ev = cursor /\ Called = {cursor} /\ EventsOf(t) = {}
  BY <1>1, TailEvents, LastEvents DEF Called, HeadCall
<1>3. OffsetCall(TRUE) \in Call /\ ~HasEvent(OffsetCall(TRUE))
  BY DEF Call, OffsetCall, HasEvent
<1>4. \A s \in Source : FlushCall(s) \in Call /\ ~HasEvent(FlushCall(s))
  BY DEF Call, FlushCall, HasEvent
<1> HIDE DEF t
<1>5. /\ EventOnlyLast(<<OffsetCall(TRUE)>> \o t, cursor)
      /\ EventsOf(<<OffsetCall(TRUE)>> \o t) = EventsOf(t)
  <2> DEFINE x == OffsetCall(TRUE)
  <2>1. x \in Call /\ ~HasEvent(x)
    BY <1>3
  <2> HIDE DEF x
  <2>2. EventOnlyLast(<<x>> \o t, cursor) /\ EventsOf(<<x>> \o t) = EventsOf(t)
    BY <1>1, <1>2, <2>1, PrependEvents
  <2> QED BY <2>2 DEF x
<1>6. \A s \in Source : /\ EventOnlyLast(<<FlushCall(s)>> \o t, cursor)
                        /\ EventsOf(<<FlushCall(s)>> \o t) = EventsOf(t)
  BY <1>1, <1>2, <1>4, PrependEvents
<1>7. EventOnlyLast(calls', cursor) /\ EventsOf(calls') = EventsOf(t)
  BY <1>2, <1>5, <1>6 DEF t
<1> QED BY <1>2, <1>7

(* A batch holds rows of its own table, and the calls of a handler end with *)
(* its event.                                                               *)
LEMMA EventStep ==
  ASSUME TypeOK, BusyOK, RestInv, EventInv, [Next]_vars
  PROVE  EventInv'
<1> USE DEF durableVars, catalogVars, opVars, streamVars, recoveryVars
<1>1. ASSUME UNCHANGED <<calls, cursor, pending>> PROVE EventInv'
  BY <1>1 DEF EventInv
<1>2. ASSUME calls' = <<>>, \/ UNCHANGED pending
                            \/ pending' = [s \in Source |-> <<>>]
      PROVE  EventInv'
  BY <1>2, LastEvents DEF EventInv
<1>3. ASSUME calls = <<>>, \/ calls' = <<>>
                           \/ EventOnlyLast(calls', cursor'), UNCHANGED pending
      PROVE  EventInv'
  BY <1>3, LastEvents DEF EventInv
<1>4. ASSUME calls # <<>>, cursor' = cursor,
             \/ calls' = Tail(calls)
             \/ calls' = <<OffsetCall(TRUE)>> \o Tail(calls)
             \/ \E s \in Source : calls' = <<FlushCall(s)>> \o Tail(calls),
             \A s \in Source : \A i \in DOMAIN pending'[s] : Log[pending'[s][i]].src = s
      PROVE  EventInv'
  BY <1>4, PopCalls DEF EventInv
<1>5. CASE StartRun
  BY <1>2, <1>5 DEF StartRun, RestInv
<1>6. CASE RecoverStep
  BY <1>1, <1>2, <1>6 DEF RecoverStep, RecoverCovered, RecoverProven, RecoverWriteFails,
     RecoverRetry, RecoverBlocked, RecoverDone, EndRun
<1>7. CASE CatalogStep
  BY <1>1, <1>7 DEF CatalogStep, CatalogAccepts, CatalogLoses, EvidenceExpired
<1>8. CASE TakeEvent
  <2>1. cursor + 1 \in Entry /\ calls = <<>> /\ cursor' = cursor + 1
    BY <1>8, LogFacts DEF TakeEvent, TypeOK, Idle
  <2>2. CASE TakeCheckpoint(cursor + 1)
    <3> DEFINE x == OffsetCall(FALSE)
    <3>1. ~HasEvent(x)
      BY DEF HasEvent, OffsetCall
    <3>2. calls' = <<x>> /\ UNCHANGED pending
      BY <2>2 DEF TakeCheckpoint
    <3> HIDE DEF x
    <3> QED BY <1>3, <2>1, <3>1, <3>2, LastEvents
  <2>3. CASE TakeRecovered(cursor + 1)
    BY <1>3, <2>1, <2>3 DEF TakeRecovered
  <2>4. CASE TakeChange(cursor + 1)
    <3>1. EventOnlyLast(calls', cursor')
      BY <2>1, <2>4, TakeChangeCalls
    <3> QED BY <1>3, <2>1, <2>4, <3>1 DEF TakeChange
  <2> QED BY <1>8, <2>2, <2>3, <2>4 DEF TakeEvent
<1>9. CASE SourceEnds \/ \E due \in SUBSET Source : Tick(due)
  <2>1. calls = <<>> /\ UNCHANGED <<cursor, pending>>
    BY <1>9 DEF SourceEnds, Tick, Idle
  <2>2. EventOnlyLast(calls', cursor')
    BY <1>9, DrainCalls
  <2> QED BY <1>3, <2>1, <2>2
<1>10. CASE SourceReconnect
  BY <1>3, <1>10 DEF SourceReconnect, Idle
<1>11. CASE AppendEvent
  <2> DEFINE e == HeadCall.ev
             s == Log[e].src
             events == Append(pending[s], e)
  <2>1. e \in Row /\ s \in Source /\ calls # <<>> /\ cursor' = cursor
    BY <1>11, CallTypes, LogFacts DEF AppendEvent, Calls
  <2>2. /\ pending' = [pending EXCEPT ![s] = events]
        /\ calls' = <<FlushCall(s)>> \o Tail(calls) \/ calls' = Tail(calls)
    BY <1>11 DEF AppendEvent
  <2>3. pending \in [Source -> Seq(Row)]
    BY DEF TypeOK
  <2>4. \A i \in DOMAIN events : Log[events[i]].src = s
    BY <2>1, <2>3 DEF EventInv
  <2>5. pending'[s] = events /\ \A t \in Source \ {s} : pending'[t] = pending[t]
    BY <2>1, <2>2, <2>3
  <2> HIDE DEF e, s, events
  <2>6. ASSUME NEW t \in Source
        PROVE  \A i \in DOMAIN pending'[t] : Log[pending'[t][i]].src = t
    <3>1. CASE t = s
      BY <2>4, <2>5, <3>1
    <3>2. CASE t # s
      BY <2>5, <3>2 DEF EventInv
    <3> QED BY <3>1, <3>2
  <2> QED BY <1>4, <2>1, <2>2, <2>6
<1>12. CASE NothingToCommit
  BY <1>4, <1>12 DEF NothingToCommit, Calls, EventInv
<1>13. CASE BeginCommit \/ MarkFails \/ CommitRejected \/ CommitUnknown
  BY <1>1, <1>13 DEF BeginCommit, MarkFails, CommitRejected, CommitUnknown
<1>14. CASE CommitSucceeds \/ CommitProven
  <2>1. FinishCommit /\ calls # <<>>
    BY <1>14 DEF CommitSucceeds, CommitProven, BusyOK
  <2>2. pending \in [Source -> Seq(Row)]
    BY DEF TypeOK
  <2>3. \A s \in Source : \A i \in DOMAIN pending'[s] : Log[pending'[s][i]].src = s
    BY <2>1, <2>2 DEF FinishCommit, EventInv
  <2> QED BY <1>4, <2>1, <2>3 DEF FinishCommit
<1>15. CASE OffsetNotSaved \/ OffsetSaved \/ OffsetSaveFails
  BY <1>4, <1>15 DEF OffsetNotSaved, OffsetSaved, OffsetSaveFails, MaySaveOffset, Calls, EventInv
<1>16. CASE EndRun
  BY <1>2, <1>16 DEF EndRun
<1>17. CASE UNCHANGED vars
  BY <1>1, <1>17 DEF vars
<1> QED BY <1>5, <1>6, <1>7, <1>8, <1>9, <1>10, <1>11, <1>12, <1>13, <1>14, <1>15, <1>16, <1>17
        DEF Next, LoopStep, CommitStep, OffsetStep, BeginFails, RejectedDeleteFails,
            CommitUnproven, OffsetBlocked, DrainEnds, RunFails

(* Nothing taken from the source is lost: a change behind the cursor is in  *)
(* its table, in a batch, or in the calls still to make.                    *)
LEMMA CoverStep ==
  ASSUME TypeOK, BusyOK, BaseInv, [Next]_vars
  PROVE  CoverInv'
<1> USE DEF durableVars, catalogVars, opVars, streamVars, recoveryVars
<1>0. /\ OpsInv /\ StatusInv /\ RestInv /\ BusyInv /\ EventInv /\ CoverInv
      /\ landed \subseteq Op /\ batch \in [Op -> Seq(Change)] /\ nextOp \in Nat /\ Op \subseteq Nat
      /\ pending \in [Source -> Seq(Row)] /\ cursor \in 0..Len(Log) /\ Len(Log) \in Nat
      /\ evidence \subseteq landed
  BY LogFacts DEF BaseInv, TypeOK, Op
<1>1. Applied \subseteq Applied'
  <2>1. landed \subseteq landed'
    BY OpWriters DEF CatalogStep, CatalogAccepts, CatalogLoses, EvidenceExpired
  <2>2. \A o \in landed : batch'[o] = batch[o]
    BY <1>0, OpWriters DEF BeginCommit, BeginFails, OpsInv
  <2> QED BY <2>1, <2>2 DEF Applied
<1>2. ASSUME UNCHANGED <<ckpt, cursor, started, pendingOffset>>,
             InMemory \subseteq InMemory' \cup Applied',
             Called \subseteq Called' \cup InMemory' \cup Applied',
             \A e \in Row : receipts'[e] > 0 => receipts[e] > 0 \/ e \in Applied'
      PROVE  CoverInv'
  <2>1. CheckpointCovers'
    BY <1>0, <1>1, <1>2 DEF CoverInv, CheckpointCovers, Prefix
  <2>2. \A e \in Change : e <= cursor' => e \in Applied' \cup InMemory' \cup Called'
    BY <1>0, <1>1, <1>2 DEF CoverInv
  <2>3. \A e \in Change : e <= started' => e \in Applied'
    BY <1>0, <1>1, <1>2 DEF CoverInv
  <2>4. \A e \in Change : Off(e) <= pendingOffset' => e \in Applied' \cup InMemory'
    BY <1>0, <1>1, <1>2 DEF CoverInv
  <2>5. \A e \in Row : receipts'[e] > 0 => e \in Applied'
    BY <1>0, <1>1, <1>2 DEF CoverInv
  <2> QED BY <2>1, <2>2, <2>3, <2>4, <2>5 DEF CoverInv
<1>3. ASSUME cursor' = 0, started' = 0, pendingOffset' = NoOffset, ckpt' = ckpt,
             receipts' = [e \in Entry |-> 0]
      PROVE  CoverInv'
  <2>1. \A e \in Change : e \in Entry /\ ~(e <= 0) /\ ~(Off(e) <= NoOffset)
    BY LogFacts DEF NoOffset
  <2>2. \A e \in Row : e \in Entry /\ ~(receipts'[e] > 0)
    BY <1>3, LogFacts
  <2> QED BY <1>0, <1>1, <1>3, <2>1, <2>2 DEF CoverInv, CheckpointCovers, Prefix
<1>4. CASE StartRun
  <2>1. /\ cursor' = Cardinality(Prefix(ckpt)) /\ started' = cursor' /\ ckpt' = ckpt
        /\ pendingOffset' = NoOffset /\ UNCHANGED receipts
    BY <1>0, <1>4 DEF StartRun, RestInv
  <2>2. \A e \in Change : e <= cursor' => e \in Applied'
    <3>1. \A e \in Entry : Off(e) <= ckpt <=> e <= cursor'
      BY <2>1, PrefixFacts DEF TypeOK
    <3>2. Change \subseteq Entry
      BY LogFacts
    <3> QED BY <1>0, <1>1, <3>1, <3>2 DEF CoverInv, CheckpointCovers, Prefix
  <2>3. \A e \in Change : ~(Off(e) <= NoOffset)
    BY LogFacts DEF NoOffset
  <2> QED BY <1>0, <1>1, <2>1, <2>2, <2>3 DEF CoverInv, CheckpointCovers, Prefix
<1>5. CASE RecoverStep
  <2>1. ASSUME NEW o \in Op, RetainReceipt(o), NeedsProof(o) => Recoverable(o)
        PROVE  \A e \in Row : receipts'[e] > 0 => receipts[e] > 0 \/ e \in Applied'
    <3>1. CASE Covered(o, ckpt) \/ o \in loaded
      BY <2>1, <3>1 DEF RetainReceipt
    <3>2. CASE ~(Covered(o, ckpt) \/ o \in loaded)
      <4>1. o \in landed /\ receipts' = [e \in Entry |-> receipts[e] + ReplayCount(o, e)]
        BY <1>0, <2>1, <3>2 DEF RetainReceipt, NeedsProof, Recoverable, Proven
      <4>2. ASSUME NEW e \in Row, receipts'[e] > 0, e \notin Applied
            PROVE  receipts[e] > 0
        <5>1. {i \in DOMAIN batch[o] : batch[o][i] = e /\ Replayed(e)} = {}
          BY <4>1, <4>2 DEF Applied, Range
        <5>2. ReplayCount(o, e) = 0
          BY <5>1, FS_EmptySet DEF ReplayCount
        <5>3. e \in Entry /\ receipts[e] \in Nat
          BY LogFacts DEF TypeOK
        <5>4. receipts'[e] = receipts[e] + 0
          BY <4>1, <5>2, <5>3
        <5> QED BY <4>2, <5>3, <5>4
      <4> QED BY <1>1, <4>2
    <3> QED BY <3>1, <3>2
  <2>2. ASSUME NEW o \in Op, RecoverCovered(o) \/ RecoverProven(o) \/ RecoverWriteFails(o)
                               \/ RecoverRetry(o)
        PROVE  CoverInv'
    <3>1. UNCHANGED <<ckpt, cursor, started, pendingOffset, pending, calls>>
      BY <2>2 DEF RecoverCovered, RecoverProven, RecoverWriteFails, RecoverRetry
    <3>2. \A e \in Row : receipts'[e] > 0 => receipts[e] > 0 \/ e \in Applied'
      BY <2>1, <2>2 DEF RecoverCovered, RecoverProven, RecoverWriteFails, RecoverRetry
    <3> QED BY <1>2, <3>1, <3>2 DEF InMemory, Called
  <2>3. ASSUME NEW o \in Op, RecoverBlocked(o) PROVE CoverInv'
    BY <1>3, <2>3 DEF RecoverBlocked, EndRun
  <2>4. CASE RecoverDone
    BY <1>2, <2>4 DEF RecoverDone, InMemory, Called
  <2> QED BY <1>5, <2>2, <2>3, <2>4 DEF RecoverStep
<1>6. CASE CatalogStep
  BY <1>2, <1>6 DEF CatalogStep, CatalogAccepts, CatalogLoses, EvidenceExpired, InMemory, Called
<1>7. CASE TakeEvent
  <2>1. /\ cursor + 1 \in Entry /\ calls = <<>> /\ cursor' = cursor + 1 /\ started' = started
        /\ ckpt' = ckpt
    BY <1>0, <1>7, LogFacts DEF TakeEvent, Idle
  <2>2. \A e \in Change : e <= cursor => e \in Applied \cup InMemory
    BY <1>0, <2>1, LastEvents DEF CoverInv, Called
  <2>3. \A e \in Change : e <= cursor' => e <= cursor \/ e = cursor + 1
    BY <1>0, <2>1, LogFacts
  <2>4. CheckpointCovers' /\ \A e \in Change : e <= started' => e \in Applied'
    BY <1>0, <1>1, <2>1 DEF CoverInv, CheckpointCovers, Prefix
  <2>5. CASE TakeCheckpoint(cursor + 1)
    <3>1. InMemory' = InMemory /\ UNCHANGED receipts /\ pendingOffset' = Off(cursor + 1)
      BY <2>5 DEF TakeCheckpoint, InMemory
    <3>2. cursor + 1 \notin Change
      BY <2>5, LogFacts DEF TakeCheckpoint
    <3>3. ASSUME NEW e \in Change, Off(e) <= Off(cursor + 1) PROVE e <= cursor
      <4>1. e \in Entry /\ e \in Nat /\ Off(e) \in Nat /\ Off(cursor + 1) \in Nat
            /\ e # cursor + 1
        BY <2>1, <3>2, LogFacts
      <4>2. cursor + 1 < e => Off(cursor + 1) < Off(e)
        BY <2>1, <2>5, <4>1, LogAssumption DEF TakeCheckpoint
      <4> QED BY <1>0, <3>3, <4>1, <4>2
    <3> QED BY <1>0, <1>1, <2>2, <2>3, <2>4, <3>1, <3>2, <3>3 DEF CoverInv
  <2>6. CASE TakeRecovered(cursor + 1)
    <3>1. InMemory' = InMemory /\ UNCHANGED pendingOffset
      BY <2>6 DEF TakeRecovered, InMemory
    <3>2. cursor + 1 \in Applied
      BY <1>0, <2>6 DEF TakeRecovered, SkipsRecovered, CoverInv
    <3>3. \A e \in Row : receipts'[e] > 0 => receipts[e] > 0
      BY <2>1, <2>6, LogFacts DEF TakeRecovered, TypeOK
    <3> QED BY <1>0, <1>1, <2>2, <2>3, <2>4, <3>1, <3>2, <3>3 DEF CoverInv
  <2>7. CASE TakeChange(cursor + 1)
    <3>1. InMemory' = InMemory /\ UNCHANGED <<pendingOffset, receipts>>
      BY <2>7 DEF TakeChange, InMemory
    <3>2. Called' = {cursor + 1}
      BY <2>1, <2>7, TakeChangeCalls DEF Called
    <3> QED BY <1>0, <1>1, <2>2, <2>3, <2>4, <3>1, <3>2 DEF CoverInv
  <2> QED BY <1>7, <2>5, <2>6, <2>7 DEF TakeEvent
<1>8. CASE SourceEnds \/ \E due \in SUBSET Source : Tick(due)
  <2>1. calls = <<>> /\ UNCHANGED <<ckpt, cursor, started, pendingOffset, pending, receipts>>
    BY <1>8 DEF SourceEnds, Tick, Idle
  <2>2. Called = {}
    BY <2>1, LastEvents DEF Called
  <2> QED BY <1>2, <2>1, <2>2 DEF InMemory
<1>9. CASE SourceReconnect
  <2>1. /\ cursor' = started /\ started' = started
        /\ UNCHANGED <<ckpt, pendingOffset, pending, receipts>>
    BY <1>9 DEF SourceReconnect
  <2>2. InMemory' = InMemory
    BY <2>1 DEF InMemory
  <2>3. CheckpointCovers'
    BY <1>0, <1>1, <2>1 DEF CoverInv, CheckpointCovers, Prefix
  <2> QED BY <1>0, <1>1, <2>1, <2>2, <2>3 DEF CoverInv
<1>10. CASE AppendEvent
  <2> DEFINE e == HeadCall.ev
             s == Log[e].src
             events == Append(pending[s], e)
  <2>1. e \in Row /\ s \in Source /\ calls # <<>> /\ HasEvent(HeadCall)
    BY <1>10, CallTypes, LogFacts DEF AppendEvent, Calls, HasEvent
  <2>2. /\ pending' = [pending EXCEPT ![s] = events]
        /\ calls' = <<FlushCall(s)>> \o Tail(calls) \/ calls' = Tail(calls)
    BY <1>10 DEF AppendEvent
  <2>3. /\ pending'[s] = events /\ \A t \in Source \ {s} : pending'[t] = pending[t]
        /\ pending[s] \in Seq(Row)
    BY <1>0, <2>1, <2>2
  <2>4. Range(pending[s]) \cup {e} \subseteq Range(events)
    BY <2>1, <2>3, AppendFacts
  <2>5. Called = {e}
    BY <1>0, <2>1, <2>2, PopCalls
  <2> HIDE DEF e, s, events
  <2>6. InMemory \cup {e} \subseteq InMemory'
    <3>1. \A t \in Source : Range(pending[t]) \subseteq Range(pending'[t])
      BY <2>3, <2>4
    <3>2. e \in Range(pending'[s])
      BY <2>3, <2>4
    <3> QED BY <2>1, <3>1, <3>2 DEF InMemory
  <2> QED BY <1>2, <1>10, <2>5, <2>6 DEF AppendEvent
<1>11. CASE NothingToCommit
  <2>1. /\ calls # <<>> /\ calls' = Tail(calls) /\ CallBatch = <<>>
        /\ Calls("flush") \/ Calls("ddl")
        /\ UNCHANGED <<ckpt, cursor, started, pendingOffset, pending, receipts>>
    BY <1>11 DEF NothingToCommit, Calls
  <2>2. Called \subseteq Called' \cup Applied
    <3>1. CASE ~HasEvent(HeadCall)
      BY <1>0, <2>1, <3>1, PopCalls DEF Called
    <3>2. CASE HasEvent(HeadCall)
      <4>1. Calls("ddl") /\ ~Calls("flush")
        BY <2>1, <3>2 DEF Calls, HasEvent
      <4>2. HeadCall.ev \in Applied
        BY <2>1, <4>1 DEF CallBatch
      <4> QED BY <1>0, <2>1, <3>2, <4>2, PopCalls
    <3> QED BY <3>1, <3>2
  <2> QED BY <1>1, <1>2, <2>1, <2>2 DEF InMemory
<1>12. CASE BeginCommit \/ MarkFails \/ CommitRejected \/ CommitUnknown
  BY <1>2, <1>12 DEF BeginCommit, MarkFails, CommitRejected, CommitUnknown, InMemory, Called
<1>13. CASE CommitSucceeds \/ CommitProven
  <2>1. /\ FinishCommit /\ calls # <<>> /\ cur \in landed /\ UNCHANGED <<ckpt, receipts>>
        /\ \/ HeadCall.do = "flush" /\ batch[cur] = pending[HeadCall.src]
           \/ HeadCall.do = "ddl" /\ batch[cur] = <<HeadCall.ev>>
    BY <1>0, <1>13 DEF CommitSucceeds, CommitProven, Proven, BusyInv
  <2>2. Range(batch[cur]) \subseteq Applied
    BY <2>1 DEF Applied
  <2>3. UNCHANGED <<cursor, started, pendingOffset>>
        /\ (calls' = <<OffsetCall(TRUE)>> \o Tail(calls) \/ calls' = Tail(calls))
    BY <2>1 DEF FinishCommit
  <2>4. CASE HeadCall.do = "flush"
    <3>1. pending' = [pending EXCEPT ![HeadCall.src] = <<>>] /\ ~HasEvent(HeadCall)
      BY <2>1, <2>4 DEF FinishCommit, HasEvent
    <3>2. \A t \in Source : Range(pending[t]) \subseteq Range(pending'[t]) \cup Applied
      BY <1>0, <2>1, <2>2, <2>4, <3>1
    <3>3. InMemory \subseteq InMemory' \cup Applied
      BY <3>2 DEF InMemory
    <3>4. Called' = Called
      BY <1>0, <2>1, <2>3, <3>1, PopCalls DEF Called
    <3> QED BY <1>1, <1>2, <2>1, <2>3, <3>3, <3>4
  <2>5. CASE HeadCall.do = "ddl"
    <3>1. pending' = pending /\ HasEvent(HeadCall)
      BY <2>1, <2>5 DEF FinishCommit, HasEvent
    <3>2. HeadCall.ev \in Applied
      BY <2>1, <2>2, <2>5 DEF Range
    <3>3. Called \subseteq Applied
      BY <1>0, <2>1, <2>3, <3>1, <3>2, PopCalls
    <3> QED BY <1>1, <1>2, <2>1, <2>3, <3>1, <3>3 DEF InMemory
  <2> QED BY <2>1, <2>4, <2>5
<1>14. CASE OffsetNotSaved \/ OffsetSaved \/ OffsetSaveFails
  <2>1. /\ calls # <<>> /\ calls' = Tail(calls) /\ HeadCall.do = "offset"
        /\ UNCHANGED <<cursor, started, pending, receipts>>
    BY <1>14 DEF OffsetNotSaved, OffsetSaved, OffsetSaveFails, MaySaveOffset, Calls
  <2>2. Called' = Called
    BY <1>0, <2>1, PopCalls DEF Called, HasEvent
  <2>3. InMemory' = InMemory
    BY <2>1 DEF InMemory
  <2>4. CASE OffsetNotSaved
    BY <1>2, <2>1, <2>2, <2>3, <2>4 DEF OffsetNotSaved
  <2>5. CASE OffsetSaved \/ OffsetSaveFails
    <3>1. InMemory = {}
      BY <1>0, <2>5 DEF OffsetSaved, OffsetSaveFails, MaySaveOffset, HasPending, PendingSources,
         InMemory, Range
    <3>2. ckpt' \in {ckpt, pendingOffset} /\ pendingOffset' \in {pendingOffset, NoOffset}
      BY <2>5 DEF OffsetSaved, OffsetSaveFails
    <3>3. \A e \in Change : e \in Entry /\ ~(Off(e) <= NoOffset)
      BY LogFacts DEF NoOffset
    <3>4. CheckpointCovers'
      BY <1>0, <1>1, <3>1, <3>2, <3>3 DEF CoverInv, CheckpointCovers, Prefix
    <3> QED BY <1>0, <1>1, <2>1, <2>2, <2>3, <3>2, <3>3, <3>4 DEF CoverInv
  <2> QED BY <1>14, <2>4, <2>5
<1>15. CASE EndRun
  <2>1. ckpt' = ckpt
    <3>1. ~OffsetSaved /\ ~OffsetSaveFails
      BY <1>15 DEF EndRun, OffsetSaved, OffsetSaveFails, MaySaveOffset, Calls
    <3> QED BY <3>1, OpWriters
  <2> QED BY <1>3, <1>15, <2>1 DEF EndRun
<1>16. CASE UNCHANGED vars
  BY <1>2, <1>16 DEF vars, InMemory, Called
<1> QED BY <1>4, <1>5, <1>6, <1>7, <1>8, <1>9, <1>10, <1>11, <1>12, <1>13, <1>14, <1>15, <1>16
        DEF Next, LoopStep, CommitStep, OffsetStep, BeginFails, RejectedDeleteFails,
            CommitUnproven, OffsetBlocked, DrainEnds, RunFails

(* The invariants together.                                                 *)
LEMMA BaseStep ==
  ASSUME TypeOK, BusyOK, BaseInv, [Next]_vars
  PROVE  BaseInv'
<1>1. OpsInv /\ StatusInv /\ RestInv /\ BusyInv /\ EventInv /\ CoverInv
  BY DEF BaseInv
<1>2. pc \in {"call", "prove"} => cur < nextOp
  BY <1>1 DEF BusyInv
<1>3. OpsInv' /\ StatusInv'
  BY <1>1, <1>2, OpsStep, StatusStep
<1>4. RestInv' /\ BusyInv' /\ EventInv' /\ CoverInv'
  BY <1>1, RestStep, BusyInvStep, EventStep, CoverStep
<1> QED BY <1>3, <1>4 DEF BaseInv

(* A job that was never claimed has nothing to cover.                       *)
LEMMA BaseInit == Init => BaseInv
<1> SUFFICES ASSUME Init PROVE BaseInv
  OBVIOUS
<1>1. TypeOK
  BY InitTypes
<1>2. OpsInv
  BY DEF Init, OpsInv, Op, Range
<1>3. StatusInv /\ RestInv /\ BusyInv
  BY DEF Init, StatusInv, RestInv, BusyInv, Streaming
<1>4. EventInv
  BY LastEvents DEF Init, EventInv
<1>5. CoverInv
  <2>1. \A e \in Change : e \in Entry /\ ~(e <= 0) /\ ~(Off(e) <= NoOffset)
    BY LogFacts DEF NoOffset
  <2>2. \A e \in Row : ~(receipts[e] > 0)
    BY LogFacts DEF Init
  <2> QED BY <2>1, <2>2 DEF Init, CoverInv, CheckpointCovers, Prefix
<1> QED BY <1>2, <1>3, <1>4, <1>5 DEF BaseInv

(* BaseInv is an inductive invariant, whatever is lost and however often    *)
(* the source opens its stream again.                                       *)
THEOREM BaseInductive == Spec => [](TypeOK /\ BusyOK /\ BaseInv)
<1>1. Init => TypeOK /\ BusyOK /\ BaseInv
  BY InitTypes, BaseInit
<1>2. TypeOK /\ BusyOK /\ BaseInv /\ [Next]_vars => TypeOK' /\ BusyOK' /\ BaseInv'
  BY TypeStep, BusyStep, BaseStep
<1> QED BY <1>1, <1>2, PTL DEF Spec

(* A restart from the saved checkpoint leaves nothing out                   *)
(* (commitPendingOffset): the sources of a change that the checkpoint       *)
(* covers are the batches, the calls of the handler and the receipts of the *)
(* recovery, and a checkpoint is saved only when the first two are empty.   *)
THEOREM NothingLeftOut == Spec => []CheckpointCovers
<1>1. BaseInv => CheckpointCovers
  BY DEF BaseInv, CoverInv
<1> QED BY BaseInductive, <1>1, PTL

(* An unresolved intent is the last operation of its run, and the next run  *)
(* does not stream before it is proven (Run, checkIcebergRecovery).         *)
THEOREM OneOutcomeOpen == Spec => []OneOpenOutcome
<1>1. BaseInv => OneOpenOutcome
  BY DEF BaseInv, StatusInv, OneOpenOutcome, Streaming, Intents
<1> QED BY BaseInductive, <1>1, PTL

-----------------------------------------------------------------------------
(* The order of the changes, for a source whose stream does not fail *)

(* Increasing sequences of changes.                                         *)
LEMMA IncreasingFacts ==
  ASSUME NEW q \in Seq(Change), Increasing(q)
  PROVE  /\ Change \subseteq Nat /\ Range(q) \subseteq Change
         /\ \A i, j \in DOMAIN q : q[i] = q[j] => i = j
         /\ \A x \in Change : (\A y \in Range(q) : y < x) => Increasing(Append(q, x))
         /\ q # <<>> => \A e \in Range(q) : Off(e) <= Off(Last(q)) /\ Off(Head(q)) <= Off(e)
<1>1. Change \subseteq Nat /\ Change \subseteq Entry
  BY LogFacts
<1>2. DOMAIN q = 1..Len(q) /\ Len(q) \in Nat /\ \A i \in DOMAIN q : q[i] \in Change
  OBVIOUS
<1>3. Range(q) \subseteq Change
  BY <1>2 DEF Range
<1>4. ASSUME NEW i \in DOMAIN q, NEW j \in DOMAIN q, q[i] = q[j] PROVE i = j
  <2>1. i \in Nat /\ j \in Nat /\ q[i] \in Nat /\ q[j] \in Nat
    <3>1. i \in 1..Len(q) /\ j \in 1..Len(q) /\ q[i] \in Change /\ q[j] \in Change
      BY <1>2
    <3>2. q[i] \in Nat /\ q[j] \in Nat
      BY <1>1, <3>1
    <3>3. i \in Nat /\ j \in Nat
      BY <3>1
    <3> QED BY <3>2, <3>3
  <2>2. ~(i < j) /\ ~(j < i)
    BY <1>4, <2>1 DEF Increasing
  <2> QED BY <2>1, <2>2
<1>5. ASSUME NEW x \in Change, \A y \in Range(q) : y < x
      PROVE  Increasing(Append(q, x))
  <2> DEFINE r == Append(q, x)
  <2>1. /\ DOMAIN r = 1..(Len(q) + 1) /\ r[Len(q) + 1] = x
        /\ \A i \in 1..Len(q) : r[i] = q[i]
    BY AppendFacts
  <2>2. \A i \in 1..Len(q) : q[i] < x
    BY <1>2, <1>5 DEF Range
  <2> HIDE DEF r
  <2>3. ASSUME NEW i \in DOMAIN r, NEW j \in DOMAIN r, i < j PROVE r[i] < r[j]
    <3>1. i \in 1..Len(q) /\ (j \in 1..Len(q) \/ j = Len(q) + 1)
      BY <1>2, <2>1, <2>3
    <3> QED BY <1>2, <2>1, <2>2, <2>3, <3>1 DEF Increasing
  <2> QED BY <2>3 DEF Increasing, r
<1>6. ASSUME q # <<>>, NEW e \in Range(q)
      PROVE  Off(e) <= Off(Last(q)) /\ Off(Head(q)) <= Off(e)
  <2>1. PICK i \in DOMAIN q : q[i] = e
    BY DEF Range
  <2>2. Len(q) \in DOMAIN q /\ 1 \in DOMAIN q /\ Last(q) = q[Len(q)] /\ Head(q) = q[1]
    BY <1>2, <1>6 DEF Last
  <2>3. (i = Len(q) \/ q[i] < q[Len(q)]) /\ (i = 1 \/ q[1] < q[i])
    BY <1>2, <2>1, <2>2 DEF Increasing
  <2>4. q[1] \in Entry /\ q[i] \in Entry /\ q[Len(q)] \in Entry
    BY <1>1, <1>2, <2>1, <2>2
  <2>5. /\ q[i] < q[Len(q)] => Off(q[i]) <= Off(q[Len(q)])
        /\ q[1] < q[i] => Off(q[1]) <= Off(q[i])
        /\ Off(q[i]) \in Nat
    BY <2>4, LogAssumption, LogFacts
  <2> QED BY <2>1, <2>2, <2>3, <2>5
<1> QED BY <1>1, <1>3, <1>4, <1>5, <1>6

(* What is in the tables stays there, and an operation keeps its changes.   *)
LEMMA AppliedFacts ==
  ASSUME TypeOK, OpsInv, [Next]_vars
  PROVE  /\ landed \subseteq landed' /\ Applied \subseteq Applied'
         /\ \A o \in landed \cup inflight : batch'[o] = batch[o]
         /\ \A o \in Op : batch'[o] = batch[o] \/ (o = nextOp /\ batch'[o] = CallBatch)
         /\ CatalogStep \/ landed' = landed
         /\ landed' = landed => Applied' = Applied
<1>0. nextOp \in Nat /\ Op \subseteq Nat /\ batch \in [Op -> Seq(Change)]
      /\ landed \subseteq Op /\ inflight \subseteq Op
  BY DEF TypeOK, Op
<1>1. landed \subseteq landed' /\ (CatalogStep \/ landed' = landed)
  BY OpWriters DEF CatalogStep, CatalogAccepts, CatalogLoses, EvidenceExpired
<1>2. \A o \in landed \cup inflight : batch'[o] = batch[o]
  BY <1>0, OpWriters DEF BeginCommit, BeginFails, OpsInv
<1>3. \A o \in Op : batch'[o] = batch[o] \/ (o = nextOp /\ batch'[o] = CallBatch)
  BY <1>0, OpWriters DEF BeginCommit, BeginFails
<1>4. Applied \subseteq Applied' /\ (landed' = landed => Applied' = Applied)
  BY <1>1, <1>2 DEF Applied
<1> QED BY <1>1, <1>2, <1>3, <1>4

\* One step keeps the batches or writes them and takes no event: what is in
\* memory stays or leaves it.
MemoryKept ==
  /\ InMemory' \subseteq InMemory /\ Called' \subseteq Called /\ cursor' = cursor
  /\ \A s \in Source : pending'[s] \in {pending[s], <<>>}
  /\ TakeEvent \/ AppendEvent \/ CommitSucceeds \/ CommitProven \/ pending' = pending

\* The run is over, or starts.
MemoryLost ==
  InMemory' = {} /\ Called' = {} /\ pending' = [s \in Source |-> <<>>]

\* handleEvent takes the next entry: a change goes to the calls.
EventTaken ==
  /\ TakeEvent /\ cursor' = cursor + 1 /\ cursor' \in Entry /\ pending' = pending
  /\ InMemory' = InMemory /\ Called = {}
  /\ Called' = {} \/ (TakeChange(cursor') /\ Called' = {cursor'})

\* The row in hand goes to the batch of its table.
EventBatched ==
  /\ AppendEvent /\ cursor' = cursor /\ cursor \in Row /\ calls # <<>> /\ HeadCall.ev = cursor
  /\ Called = {cursor} /\ Called' = {} /\ InMemory' = InMemory \cup {cursor}
  /\ Log[cursor].src \in Source
  /\ pending' = [pending EXCEPT ![Log[cursor].src] = Append(@, cursor)]

(* What one step does to the batches and to the calls still to make.        *)
LEMMA MemoryStep ==
  ASSUME TypeOK, BusyOK, BaseInv, [Next]_vars, ~SourceReconnect
  PROVE  MemoryKept \/ MemoryLost \/ EventTaken \/ EventBatched
<1> USE DEF durableVars, catalogVars, opVars, streamVars, recoveryVars
<1>0. /\ RestInv /\ BusyInv /\ EventInv /\ pending \in [Source -> Seq(Row)]
      /\ cursor \in 0..Len(Log) /\ Len(Log) \in Nat
  BY LogFacts DEF BaseInv, TypeOK
<1>1. ASSUME UNCHANGED <<cursor, pending>>, Called' \subseteq Called PROVE MemoryKept
  BY <1>1 DEF MemoryKept, InMemory
<1>2. ASSUME calls' = <<>>, pending' = [s \in Source |-> <<>>] PROVE MemoryLost
  <2>1. Called' = {}
    BY <1>2, LastEvents DEF Called
  <2>2. InMemory' = {}
    BY <1>2 DEF InMemory, Range
  <2> QED BY <1>2, <2>1, <2>2 DEF MemoryLost
<1>3. CASE StartRun \/ EndRun
  BY <1>0, <1>2, <1>3 DEF StartRun, EndRun, RestInv
<1>4. CASE RecoverStep
  BY <1>1, <1>3, <1>4 DEF RecoverStep, RecoverCovered, RecoverProven, RecoverWriteFails,
     RecoverRetry, RecoverBlocked, RecoverDone, Called
<1>5. CASE CatalogStep
  BY <1>1, <1>5 DEF CatalogStep, CatalogAccepts, CatalogLoses, EvidenceExpired, Called
<1>6. CASE TakeEvent
  <2>1. cursor + 1 \in Entry /\ calls = <<>> /\ cursor' = cursor + 1
    BY <1>0, <1>6, LogFacts DEF TakeEvent, Idle
  <2>2. Called = {}
    BY <2>1, LastEvents DEF Called
  <2>3. CASE TakeCheckpoint(cursor + 1)
    <3> DEFINE x == OffsetCall(FALSE)
    <3>1. ~HasEvent(x)
      BY DEF HasEvent, OffsetCall
    <3>2. calls' = <<x>> /\ pending' = pending
      BY <2>3 DEF TakeCheckpoint
    <3> HIDE DEF x
    <3>3. Called' = {}
      BY <3>1, <3>2, LastEvents DEF Called
    <3> QED BY <1>6, <2>1, <2>2, <3>2, <3>3 DEF EventTaken, InMemory
  <2>4. CASE TakeRecovered(cursor + 1)
    BY <1>6, <2>1, <2>2, <2>4 DEF TakeRecovered, EventTaken, InMemory, Called
  <2>5. CASE TakeChange(cursor + 1)
    <3>1. Called' = {cursor + 1}
      BY <2>1, <2>5, TakeChangeCalls DEF Called
    <3>2. pending' = pending
      BY <2>5 DEF TakeChange
    <3> QED BY <1>6, <2>1, <2>2, <2>5, <3>1, <3>2 DEF EventTaken, InMemory
  <2> QED BY <1>6, <2>3, <2>4, <2>5 DEF TakeEvent
<1>7. CASE SourceEnds \/ \E due \in SUBSET Source : Tick(due)
  <2>1. UNCHANGED <<cursor, pending>>
    BY <1>7 DEF SourceEnds, Tick
  <2>2. Called' = {}
    BY <1>7, DrainCalls DEF Called
  <2> QED BY <1>1, <2>1, <2>2
<1>8. CASE AppendEvent
  <2> DEFINE e == HeadCall.ev
             s == Log[e].src
  <2>1. e \in Row /\ s \in Source /\ calls # <<>> /\ HasEvent(HeadCall) /\ cursor' = cursor
    BY <1>8, CallTypes, LogFacts DEF AppendEvent, Calls, HasEvent
  <2>2. /\ pending' = [pending EXCEPT ![s] = Append(@, e)]
        /\ calls' = <<FlushCall(s)>> \o Tail(calls) \/ calls' = Tail(calls)
    BY <1>0, <1>8 DEF AppendEvent
  <2>3. e = cursor /\ Called = {cursor} /\ Called' = {}
    BY <1>0, <2>1, <2>2, PopCalls DEF Called
  <2>4. /\ pending'[s] = Append(pending[s], e) /\ pending[s] \in Seq(Row)
        /\ \A t \in Source : t # s => pending'[t] = pending[t]
    BY <1>0, <2>1, <2>2
  <2>5. Range(pending'[s]) = Range(pending[s]) \cup {e}
    BY <2>1, <2>4, AppendFacts
  <2>6. InMemory' = InMemory \cup {e}
    <3>1. \A t \in Source : Range(pending[t]) \subseteq Range(pending'[t])
      BY <2>4, <2>5
    <3>2. \A t \in Source : Range(pending'[t]) \subseteq Range(pending[t]) \cup {e}
      BY <2>4, <2>5
    <3>3. e \in Range(pending'[s])
      BY <2>5
    <3> HIDE DEF e, s
    <3> QED BY <2>1, <3>1, <3>2, <3>3 DEF InMemory
  <2> QED BY <1>8, <2>1, <2>2, <2>3, <2>6 DEF EventBatched
<1>9. CASE NothingToCommit \/ OffsetNotSaved \/ OffsetSaved \/ OffsetSaveFails
  <2>1. calls # <<>> /\ calls' = Tail(calls) /\ UNCHANGED <<cursor, pending>>
    BY <1>9 DEF NothingToCommit, OffsetNotSaved, OffsetSaved, OffsetSaveFails, MaySaveOffset,
       Calls
  <2>2. Called' \subseteq Called
    BY <1>0, <2>1, PopCalls DEF Called
  <2> QED BY <1>1, <2>1, <2>2
<1>10. CASE BeginCommit \/ MarkFails \/ CommitRejected \/ CommitUnknown
  BY <1>1, <1>10 DEF BeginCommit, MarkFails, CommitRejected, CommitUnknown, Called
<1>11. CASE CommitSucceeds \/ CommitProven
  <2>1. FinishCommit /\ calls # <<>> /\ cursor' = cursor
    BY <1>11 DEF CommitSucceeds, CommitProven, BusyOK, FinishCommit
  <2>2. \A s \in Source : pending'[s] \in {pending[s], <<>>}
    BY <1>0, <2>1 DEF FinishCommit
  <2>3. \A s \in Source : Range(pending'[s]) \subseteq Range(pending[s])
    BY <2>2 DEF Range
  <2>4. InMemory' \subseteq InMemory
    BY <2>3 DEF InMemory
  <2>5. Called' \subseteq Called
    BY <1>0, <2>1, PopCalls DEF Called, FinishCommit
  <2> QED BY <1>11, <2>1, <2>2, <2>4, <2>5 DEF MemoryKept
<1>12. CASE UNCHANGED vars
  BY <1>1, <1>12 DEF vars, Called
<1> QED BY <1>3, <1>4, <1>5, <1>6, <1>7, <1>8, <1>9, <1>10, <1>11, <1>12
        DEF Next, LoopStep, CommitStep, OffsetStep, BeginFails, RejectedDeleteFails,
            CommitUnproven, OffsetBlocked, DrainEnds, RunFails

(* The cursor and the checkpoints move with these steps only.               *)
LEMMA OffsetWriters ==
  ASSUME [Next]_vars, ~SourceReconnect
  PROVE  /\ \/ StartRun \/ EndRun \/ TakeEvent \/ OffsetNotSaved \/ OffsetSaved \/ OffsetSaveFails
            \/ UNCHANGED <<ckpt, cursor, pendingOffset, cleanupOffset>>
         /\ pc = "down" => StartRun \/ pc' = "down"
         /\ EndRun => pc' = "down" /\ ckpt' = ckpt
<1> USE DEF durableVars, catalogVars, opVars, streamVars, recoveryVars
<1>1. CASE StartRun \/ EndRun
  <2>1. EndRun => ~OffsetSaved /\ ~OffsetSaveFails /\ pc' = "down"
    BY DEF EndRun, OffsetSaved, OffsetSaveFails, MaySaveOffset, Calls
  <2> QED BY <1>1, <2>1, OpWriters DEF EndRun
<1>2. CASE RecoverStep
  BY <1>1, <1>2 DEF RecoverStep, RecoverCovered, RecoverProven, RecoverWriteFails,
     RecoverRetry, RecoverBlocked, RecoverDone, NextIntent, EndRun
<1>3. CASE CatalogStep
  BY <1>3 DEF CatalogStep, CatalogAccepts, CatalogLoses, EvidenceExpired, EndRun
<1>4. CASE LoopStep
  BY <1>4 DEF LoopStep, TakeEvent, Tick, SourceEnds, Idle, EndRun
<1>5. CASE AppendEvent \/ NothingToCommit \/ BeginCommit
  BY <1>5 DEF AppendEvent, NothingToCommit, BeginCommit, CallBatch, Calls, EndRun
<1>6. CASE CommitSucceeds \/ MarkFails \/ CommitRejected \/ CommitUnknown \/ CommitProven
  BY <1>6 DEF CommitSucceeds, MarkFails, CommitRejected, CommitUnknown, CommitProven,
              FinishCommit, EndRun
<1>7. CASE OffsetNotSaved \/ OffsetSaved \/ OffsetSaveFails
  BY <1>7 DEF OffsetNotSaved, OffsetSaved, OffsetSaveFails, MaySaveOffset, Calls, EndRun
<1>8. CASE UNCHANGED vars
  BY <1>8 DEF vars, EndRun
<1> QED BY <1>1, <1>2, <1>3, <1>4, <1>5, <1>6, <1>7, <1>8
        DEF Next, CommitStep, OffsetStep, BeginFails, RejectedDeleteFails, CommitUnproven,
            OffsetBlocked, DrainEnds, RunFails

(* Batches hold the changes in the order of the binlog, all of them behind  *)
(* the cursor.                                                              *)
LEMMA MemoryOrder ==
  ASSUME TypeOK, BusyOK, BaseInv, OrderInv, [Next]_vars, ~SourceReconnect
  PROVE  /\ \A o \in Op : Increasing(batch'[o])
         /\ \A s \in Source : Increasing(pending'[s])
         /\ \A e \in InMemory' : e <= cursor' /\ e \notin Called'
<1>0. /\ OpsInv /\ pending \in [Source -> Seq(Row)] /\ cursor \in Nat
      /\ \A o \in Op : Increasing(batch[o])
      /\ \A s \in Source : Increasing(pending[s])
      /\ \A e \in InMemory : e \in Nat /\ e <= cursor /\ e \notin Called
      /\ Increasing(<<>>) /\ \A d : Increasing(<<d>>)
  <2>1. cursor \in Nat /\ Row \subseteq Nat /\ pending \in [Source -> Seq(Row)]
    BY LogFacts DEF TypeOK
  <2>2. InMemory \subseteq Nat
    <3>1. \A s \in Source : Range(pending[s]) \subseteq Row
      BY <2>1 DEF Range
    <3> QED BY <2>1, <3>1 DEF InMemory
  <2>3. Increasing(<<>>) /\ \A d : Increasing(<<d>>)
    BY DEF Increasing
  <2> QED BY <2>1, <2>2, <2>3 DEF BaseInv, OrderInv
<1>1. \A o \in Op : Increasing(batch'[o])
  <2>1. Increasing(CallBatch)
    <3>1. CASE Calls("flush")
      BY <1>0, <3>1, CallTypes DEF CallBatch, Calls
    <3>2. CASE Calls("ddl") /\ HeadCall.ev \notin Applied
      BY <1>0, <3>2 DEF CallBatch, Calls
    <3>3. CASE ~Calls("flush") /\ ~(Calls("ddl") /\ HeadCall.ev \notin Applied)
      BY <1>0, <3>3 DEF CallBatch
    <3> QED BY <3>1, <3>2, <3>3
  <2> QED BY <1>0, <2>1, AppliedFacts
<1>2. CASE MemoryKept
  BY <1>0, <1>1, <1>2 DEF MemoryKept
<1>3. CASE MemoryLost
  BY <1>0, <1>1, <1>3 DEF MemoryLost
<1>4. CASE EventTaken
  BY <1>0, <1>1, <1>4 DEF EventTaken
<1>5. CASE EventBatched
  <2> DEFINE s == Log[cursor].src
  <2>1. /\ cursor \in Row /\ s \in Source /\ cursor' = cursor
        /\ pending' = [pending EXCEPT ![s] = Append(@, cursor)]
        /\ Called = {cursor} /\ Called' = {} /\ InMemory' = InMemory \cup {cursor}
    BY <1>5 DEF EventBatched
  <2>2. \A e \in InMemory : e < cursor
    BY <1>0, <2>1
  <2>3. Increasing(Append(pending[s], cursor))
    <3>1. pending[s] \in Seq(Change) /\ cursor \in Change
      BY <1>0, <2>1, SeqMonotonic DEF Change
    <3>2. \A y \in Range(pending[s]) : y < cursor
      BY <2>1, <2>2 DEF InMemory
    <3> QED BY <1>0, <2>1, <3>1, <3>2, IncreasingFacts
  <2> HIDE DEF s
  <2>4. \A t \in Source : Increasing(pending'[t])
    BY <1>0, <2>1, <2>3
  <2>5. \A e \in InMemory' : e <= cursor' /\ e \notin Called'
    BY <1>0, <2>1
  <2> QED BY <1>1, <2>4, <2>5
<1> QED BY <1>2, <1>3, <1>4, <1>5, MemoryStep

(* What a checkpoint covers has been taken from the source, and checkpoints *)
(* never move back.                                                         *)
LEMMA OrderStep ==
  ASSUME TypeOK, BusyOK, BaseInv, OrderInv, [Next]_vars, ~SourceReconnect
  PROVE  OrderInv' /\ ckpt <= ckpt'
<1> USE DEF durableVars, catalogVars, opVars, streamVars, recoveryVars
<1>0. /\ ckpt \in Offset /\ pendingOffset \in Offset /\ cleanupOffset \in Offset
      /\ Offset \subseteq Nat /\ NoOffset \in Offset /\ NoOffset = 0
      /\ \A e \in Entry : e \in Nat /\ Off(e) \in Nat \ {0}
      /\ cursor \in Nat
  BY LogFacts DEF TypeOK, NoOffset
<1>1. \A e \in Entry : ~(Off(e) <= NoOffset)
  BY <1>0
<1>2. ASSUME pc' # "down" => \A e \in Entry : Off(e) <= ckpt' => e <= cursor',
             pc' # "down" => \A e \in Entry : Off(e) <= pendingOffset' => e <= cursor',
             pendingOffset' # NoOffset => ckpt' <= pendingOffset',
             cleanupOffset' <= ckpt', ckpt <= ckpt'
      PROVE  OrderInv' /\ ckpt <= ckpt'
  BY <1>2, MemoryOrder DEF OrderInv
<1>3. CASE StartRun
  <2>1. /\ ckpt' = ckpt /\ cursor' = Cardinality(Prefix(ckpt)) /\ UNCHANGED cleanupOffset
        /\ pendingOffset' = NoOffset
    BY <1>3 DEF StartRun, BaseInv, RestInv
  <2>2. \A e \in Entry : Off(e) <= ckpt => e <= cursor'
    BY <1>0, <2>1, PrefixFacts
  <2>3. cleanupOffset' <= ckpt' /\ ckpt <= ckpt'
    BY <1>0, <2>1 DEF OrderInv
  <2> QED BY <1>1, <1>2, <2>1, <2>2, <2>3
<1>4. CASE EndRun
  <2>1. pc' = "down" /\ ckpt' = ckpt /\ pendingOffset' = NoOffset /\ cleanupOffset' = NoOffset
    BY <1>4, OffsetWriters DEF EndRun
  <2>2. NoOffset <= ckpt /\ ckpt <= ckpt
    BY <1>0
  <2> QED BY <1>2, <2>1, <2>2
<1>5. CASE TakeEvent
  <2>1. /\ pc = "stream" /\ pc' = pc /\ cursor' = cursor + 1 /\ UNCHANGED <<ckpt, cleanupOffset>>
        /\ cursor + 1 \in Entry
    BY <1>0, <1>5, LogFacts DEF TakeEvent, Idle, TypeOK
  <2>2. \A e \in Entry : Off(e) <= ckpt => e <= cursor
    BY <2>1 DEF OrderInv
  <2>3. \A e \in Entry : e <= cursor => e <= cursor'
    BY <1>0, <2>1
  <2>4. CASE TakeCheckpoint(cursor + 1)
    <3> DEFINE k == cursor + 1
    <3>1. pendingOffset' = Off(k) /\ k \in Checkpoint /\ k \in Entry
      BY <2>1, <2>4 DEF TakeCheckpoint
    <3>2. ASSUME NEW e \in Entry, Off(e) <= Off(k) PROVE e <= k
      <4>1. k < e => Off(k) < Off(e)
        BY <3>1, LogAssumption
      <4> QED BY <1>0, <3>1, <3>2, <4>1
    <3>3. ckpt <= Off(k)
      <4>1. CASE ckpt = NoOffset
        BY <1>0, <3>1, <4>1
      <4>2. CASE ckpt # NoOffset
        <5>1. PICK j \in Checkpoint : ckpt = Off(j)
          BY <1>0, <4>2 DEF Offset
        <5>2. j \in Entry /\ j <= cursor
          BY <1>0, <2>2, <5>1, LogFacts
        <5>3. j < k
          BY <1>0, <5>2
        <5> QED BY <3>1, <5>1, <5>2, <5>3, LogAssumption
      <4> QED BY <4>1, <4>2
    <3>4. k = cursor'
      BY <2>1
    <3> HIDE DEF k
    <3>5. cleanupOffset' <= ckpt' /\ ckpt <= ckpt'
      BY <1>0, <2>1 DEF OrderInv
    <3> QED BY <1>2, <2>1, <2>2, <2>3, <3>1, <3>2, <3>3, <3>4, <3>5
  <2>5. CASE ~TakeCheckpoint(cursor + 1)
    <3>1. pendingOffset' = pendingOffset
      BY <1>5, <2>5 DEF TakeEvent, TakeRecovered, TakeChange
    <3>2. \A e \in Entry : Off(e) <= pendingOffset => e <= cursor
      BY <2>1 DEF OrderInv
    <3>3. /\ cleanupOffset' <= ckpt' /\ ckpt <= ckpt'
          /\ pendingOffset' # NoOffset => ckpt' <= pendingOffset'
      BY <1>0, <2>1, <3>1 DEF OrderInv
    <3> QED BY <1>2, <2>1, <2>2, <2>3, <3>1, <3>2, <3>3
  <2> QED BY <2>4, <2>5
<1>6. CASE OffsetNotSaved \/ OffsetSaved \/ OffsetSaveFails
  <2>1. pc = "stream" /\ cursor' = cursor
    BY <1>6 DEF OffsetNotSaved, OffsetSaved, OffsetSaveFails, MaySaveOffset, Calls
  <2>2. /\ ckpt' \in {ckpt, pendingOffset} /\ pendingOffset' \in {pendingOffset, NoOffset}
        /\ ckpt' # ckpt => pendingOffset # NoOffset
        /\ cleanupOffset' \in {cleanupOffset, NoOffset} \/ cleanupOffset' = ckpt'
    BY <1>6 DEF OffsetNotSaved, OffsetSaved, OffsetSaveFails, MaySaveOffset, CleanUp
  <2>3. pendingOffset' # NoOffset => pendingOffset' = pendingOffset
    BY <2>2
  <2>4. ckpt <= ckpt' /\ cleanupOffset' <= ckpt'
    BY <1>0, <2>2 DEF OrderInv
  <2>5. pendingOffset' # NoOffset => ckpt' <= pendingOffset'
    BY <1>0, <2>2, <2>3 DEF OrderInv
  <2>6. \A e \in Entry : Off(e) <= ckpt' => e <= cursor'
    BY <2>1, <2>2 DEF OrderInv
  <2>7. \A e \in Entry : Off(e) <= pendingOffset' => e <= cursor'
    BY <1>1, <2>1, <2>2 DEF OrderInv
  <2> QED BY <1>2, <2>4, <2>5, <2>6, <2>7
<1>7. CASE UNCHANGED <<ckpt, cursor, pendingOffset, cleanupOffset>> /\ (pc = "down" => pc' = "down")
  <2>1. ckpt <= ckpt'
    BY <1>0, <1>7
  <2> QED BY <1>2, <1>7, <2>1 DEF OrderInv
<1> QED BY <1>3, <1>4, <1>5, <1>6, <1>7, OffsetWriters

-----------------------------------------------------------------------------
(* Replay receipts *)

(* An intent has each of its rows once.                                     *)
LEMMA ReplayCounts ==
  ASSUME TypeOK, OrderInv, NEW o \in Op, NEW e \in Row
  PROVE  ReplayCount(o, e) = IF Off(e) > ckpt /\ e \in Range(batch[o]) THEN 1 ELSE 0
<1> DEFINE I == {i \in DOMAIN batch[o] : batch[o][i] = e /\ Replayed(e)}
<1>1. CASE Off(e) > ckpt /\ e \in Range(batch[o])
  <2>1. PICK i \in DOMAIN batch[o] : batch[o][i] = e
    BY <1>1 DEF Range
  <2>2. batch[o] \in Seq(Change) /\ Increasing(batch[o])
    BY DEF TypeOK, OrderInv
  <2>3. \A j \in DOMAIN batch[o] : batch[o][j] = e => j = i
    BY <2>1, <2>2, IncreasingFacts
  <2>4. I = {i}
    BY <1>1, <2>1, <2>3 DEF Replayed
  <2>5. Cardinality(I) = 1
    BY <2>4, FS_Singleton
  <2> QED BY <1>1, <2>5 DEF ReplayCount
<1>2. CASE ~(Off(e) > ckpt /\ e \in Range(batch[o]))
  <2>1. I = {}
    BY <1>2 DEF Replayed, Range
  <2> QED BY <1>2, <2>1, FS_EmptySet DEF ReplayCount
<1> QED BY <1>1, <1>2

(* An operation of rows writes rows only, from its start to its end.        *)
LEMMA RowOps ==
  ASSUME TypeOK, OpsInv, OrderInv, NEW o \in Op
  PROVE  /\ ~IsMetadata(o) => Range(batch[o]) \subseteq Row
         /\ \A e \in Range(batch[o]) \cap Row : ~IsMetadata(o)
         /\ \A e \in Range(batch[o]) : Off(e) <= SourceEnd(o)
         /\ Range(batch[o]) \subseteq Change
         /\ batch[o] # <<>> => SourceEnd(o) \in Nat
         /\ Range(batch[o]) # {} => batch[o] # <<>>
<1>1. batch[o] \in Seq(Change) /\ Increasing(batch[o])
  BY DEF TypeOK, OrderInv
<1>2. Range(batch[o]) \subseteq Change
  BY <1>1 DEF Range
<1>3. \A e \in Range(batch[o]) : Off(e) <= SourceEnd(o)
  <2>1. batch[o] = <<>> => Range(batch[o]) = {}
    BY DEF Range
  <2> QED BY <1>1, <2>1, IncreasingFacts DEF SourceEnd
<1>6. batch[o] # <<>> => SourceEnd(o) \in Nat
  <2>1. batch[o] # <<>> => Last(batch[o]) \in Change
    BY <1>1 DEF Last
  <2>2. \A e \in Change : Off(e) \in Nat
    BY LogFacts
  <2> QED BY <2>1, <2>2 DEF SourceEnd
<1>7. Range(batch[o]) # {} => batch[o] # <<>>
  BY DEF Range
<1>4. CASE Range(batch[o]) \subseteq Row
  BY <1>2, <1>3, <1>4, <1>6, <1>7, LogFacts DEF IsMetadata
<1>5. CASE \E d \in Ddl : batch[o] = <<d>>
  <2>1. PICK d \in Ddl : batch[o] = <<d>>
    BY <1>5
  <2>2. Range(batch[o]) = {d}
    BY <2>1 DEF Range
  <2> QED BY <1>2, <1>3, <1>6, <1>7, <2>2, LogFacts DEF IsMetadata
<1> QED BY <1>4, <1>5 DEF OpsInv

(* Whatever the catalog may still accept is behind the cursor and is the    *)
(* operation in progress, if there is a run that streams.                   *)
LEMMA OpenBehindCursor ==
  ASSUME TypeOK, BaseInv, OrderInv, NEW o \in inflight, Streaming
  PROVE  o = cur /\ pc \in {"call", "prove"} /\ \A e \in Range(batch[o]) : e <= cursor
<1>0. /\ OpsInv /\ StatusInv /\ RestInv /\ BusyInv /\ EventInv /\ o \in Op
      /\ pending \in [Source -> Seq(Row)] /\ calls \in Seq(Call) /\ NoOp \notin Op
  BY DEF BaseInv, TypeOK, Op, NoOp
<1>1. o = cur
  BY <1>0 DEF StatusInv
<1>2. pc \in {"call", "prove"}
  BY <1>0, <1>1 DEF Streaming, RestInv
<1>3. CASE HeadCall.do = "flush" /\ batch[cur] = pending[HeadCall.src]
  <2>1. HeadCall.src \in Source
    BY <1>0, <1>2, <1>3, CallTypes DEF BusyInv, Call
  <2>2. Range(batch[cur]) \subseteq InMemory
    BY <1>3, <2>1 DEF InMemory
  <2> QED BY <1>1, <1>2, <2>2 DEF OrderInv
<1>4. CASE HeadCall.do = "ddl" /\ batch[cur] = <<HeadCall.ev>>
  <2>1. Range(batch[cur]) = {HeadCall.ev}
    BY <1>4 DEF Range
  <2>2. HeadCall.ev = cursor
    <3>1. calls # <<>> /\ HasEvent(Head(calls)) /\ EventOnlyLast(calls, cursor)
      BY <1>0, <1>2, <1>4 DEF BusyInv, HasEvent, HeadCall, EventInv
    <3> QED BY <1>0, <3>1, TailEvents DEF HeadCall
  <2>3. cursor <= cursor
    BY LogFacts DEF TypeOK
  <2> QED BY <1>1, <1>2, <2>1, <2>2, <2>3
<1> QED BY <1>0, <1>2, <1>3, <1>4 DEF BusyInv

(* What a recovery step does to the receipts.                               *)
LEMMA RetainStep ==
  ASSUME TypeOK, BaseInv, ExactInv, pc = "recover", NEW o \in Op, RetainReceipt(o),
         Covered(o, ckpt) \/ o \in landed
  PROVE  /\ Covered(o, ckpt) \/ o \in loaded'
         /\ loaded \subseteq loaded'
         /\ \A e \in Row :
              receipts'[e] = IF Off(e) > ckpt /\ \E p \in loaded' : e \in Range(batch[p])
                             THEN 1 ELSE 0
<1>0. /\ OpsInv /\ OrderInv /\ ReceiptInv /\ AppliedOnce
      /\ \A e \in Row : receipts[e] = IF Off(e) > ckpt /\ \E p \in loaded : e \in Range(batch[p])
                                      THEN 1 ELSE 0
  BY DEF BaseInv, ExactInv, ReceiptInv, OnceInv
<1>1. CASE Covered(o, ckpt) \/ o \in loaded
  BY <1>0, <1>1 DEF RetainReceipt
<1>2. CASE ~(Covered(o, ckpt) \/ o \in loaded)
  <2>1. /\ receipts' = [e \in Entry |-> receipts[e] + ReplayCount(o, e)]
        /\ loaded' = loaded \cup {o} /\ o \in landed
    BY <1>2 DEF RetainReceipt
  <2>2. ASSUME NEW e \in Row
        PROVE  receipts'[e] = IF Off(e) > ckpt /\ \E p \in loaded' : e \in Range(batch[p])
                              THEN 1 ELSE 0
    <3>1. receipts'[e] = receipts[e] + ReplayCount(o, e)
      BY <2>1, LogFacts
    <3>2. ReplayCount(o, e) = IF Off(e) > ckpt /\ e \in Range(batch[o]) THEN 1 ELSE 0
      BY <1>0, ReplayCounts
    <3>3. \A p \in loaded : p # o /\ p \in landed
      BY <1>0, <1>2 DEF OpsInv
    <3>4. e \in Range(batch[o]) => \A p \in loaded : e \notin Range(batch[p])
      BY <1>0, <2>1, <3>3 DEF AppliedOnce
    <3>5. CASE Off(e) > ckpt /\ e \in Range(batch[o])
      <4>1. receipts[e] = 0 /\ ReplayCount(o, e) = 1
        BY <1>0, <3>2, <3>4, <3>5
      <4> QED BY <2>1, <3>1, <3>5, <4>1
    <3>6. CASE ~(Off(e) > ckpt /\ e \in Range(batch[o]))
      <4>1. receipts[e] \in {0, 1} /\ ReplayCount(o, e) = 0
        BY <1>0, <3>2, <3>6
      <4>2. receipts'[e] = receipts[e]
        BY <3>1, <4>1
      <4> QED BY <1>0, <2>1, <3>6, <4>2
    <3> QED BY <3>5, <3>6
  <2> QED BY <2>1, <2>2
<1> QED BY <1>1, <1>2

(* The receipts are the rows in the tables that the source is going to      *)
(* deliver again: first as far as the intents are loaded, then all of them. *)
LEMMA ReceiptStep ==
  ASSUME TypeOK, BusyOK, BaseInv, ExactInv, [Next]_vars, ~SourceReconnect
  PROVE  ReceiptInv'
<1> USE DEF durableVars, catalogVars, opVars, streamVars, recoveryVars
<1>0. /\ OpsInv /\ StatusInv /\ RestInv /\ OrderInv /\ ReceiptInv /\ WritesHaveIntents
      /\ landed \subseteq Op /\ loaded \subseteq landed /\ evidence \subseteq landed
      /\ cursor \in 0..Len(Log) /\ cursor \in Nat /\ status \in [Op -> Status] /\ ckpt \in Nat
      /\ receipts \in [Entry -> Nat]
      /\ Row \subseteq Entry /\ Entry \subseteq Nat
  <2>1. /\ landed \subseteq Op /\ evidence \subseteq landed /\ cursor \in Entry \cup {0}
        /\ status \in [Op -> Status] /\ ckpt \in Offset /\ receipts \in [Entry -> Nat]
    BY DEF TypeOK
  <2>2. Entry = 1..Len(Log) /\ Len(Log) \in Nat /\ Row \subseteq Entry /\ Offset \subseteq Nat
    BY LogFacts
  <2>3. OpsInv /\ StatusInv /\ RestInv /\ OrderInv /\ ReceiptInv /\ WritesHaveIntents
    BY DEF BaseInv, ExactInv
  <2>4. loaded \subseteq landed
    BY <2>3 DEF OpsInv
  <2> QED BY <2>1, <2>2, <2>3, <2>4
<1>1. CASE EndRun
  <2>1. pc' = "down" /\ receipts' = [e \in Entry |-> 0] /\ loaded' = {}
    BY <1>1 DEF EndRun
  <2> QED BY <2>1 DEF ReceiptInv, Streaming
<1>2. CASE StartRun
  <2>1. /\ pc' = "recover" /\ todo' = Intents /\ loaded' = {} /\ receipts' = [e \in Entry |-> 0]
        /\ Intents' = Intents /\ ckpt' = ckpt
    BY <1>0, <1>2 DEF StartRun, ReceiptInv, Intents
  <2> QED BY <1>0, <2>1 DEF ReceiptInv, Streaming
<1>3. CASE RecoverStep
  <2>1. ASSUME NEW o \in Op, NextIntent(o), RetainReceipt(o), Covered(o, ckpt) \/ o \in landed,
               pc' = pc, UNCHANGED <<ckpt, batch>>,
               \A p \in Intents' : p \in todo' \/ p = o \/ (p \in Intents /\ p \notin todo)
        PROVE  ReceiptInv'
    <3>1. /\ Covered(o, ckpt) \/ o \in loaded'
          /\ loaded \subseteq loaded'
          /\ \A e \in Row :
               receipts'[e] = IF Off(e) > ckpt /\ \E p \in loaded' : e \in Range(batch[p])
                              THEN 1 ELSE 0
      BY <2>1, RetainStep DEF NextIntent
    <3>2. \A p \in Intents' : p \in todo' \cup loaded' \/ Covered(p, ckpt)
      BY <1>0, <2>1, <3>1 DEF ReceiptInv, NextIntent
    <3>3. \A p \in Op : Covered(p, ckpt)' = Covered(p, ckpt)
      BY <2>1 DEF Covered, SourceEnd
    <3>4. Intents' \subseteq Op
      BY DEF Intents
    <3> QED BY <2>1, <3>1, <3>2, <3>3, <3>4 DEF ReceiptInv, Streaming, NextIntent
  <2>2. ASSUME NEW o \in Op, RecoverCovered(o) PROVE ReceiptInv'
    <3>1. /\ NextIntent(o) /\ pc' = pc /\ UNCHANGED <<ckpt, batch>> /\ Covered(o, ckpt)
          /\ RetainReceipt(o)
      BY <2>2 DEF RecoverCovered, RetainReceipt
    <3>2. \A p \in Intents' : p \in todo' \/ p = o \/ (p \in Intents /\ p \notin todo)
      BY <1>0, <2>2 DEF RecoverCovered, Intents
    <3> QED BY <2>1, <3>1, <3>2
  <2>3. ASSUME NEW o \in Op, RecoverProven(o) PROVE ReceiptInv'
    <3>1. /\ NextIntent(o) /\ pc' = pc /\ UNCHANGED <<ckpt, batch>> /\ RetainReceipt(o)
          /\ o \in landed
      BY <1>0, <2>3 DEF RecoverProven, Recoverable, Proven
    <3>2. \A p \in Intents' : p \in todo' \/ p = o \/ (p \in Intents /\ p \notin todo)
      BY <1>0, <2>3 DEF RecoverProven, Intents
    <3> QED BY <2>1, <3>1, <3>2
  <2>4. ASSUME NEW o \in Op, RecoverWriteFails(o) PROVE ReceiptInv'
    <3>1. /\ NextIntent(o) /\ pc' = pc /\ UNCHANGED <<ckpt, batch>> /\ RetainReceipt(o)
          /\ Covered(o, ckpt) \/ o \in landed
      BY <1>0, <2>4 DEF RecoverWriteFails, NeedsProof, Recoverable, Proven
    <3>2. todo' = Intents'
      BY <2>4 DEF RecoverWriteFails
    <3> QED BY <2>1, <3>1, <3>2
  <2>5. ASSUME NEW o \in Op, RecoverRetry(o) PROVE ReceiptInv'
    <3>1. /\ pc = "recover" /\ UNCHANGED <<pc, ckpt, batch, status, receipts, loaded>>
          /\ todo' = Intents
      BY <2>5 DEF RecoverRetry, NextIntent
    <3> QED BY <1>0, <3>1 DEF ReceiptInv, Intents, Covered, SourceEnd, Streaming
  <2>6. ASSUME NEW o \in Op, RecoverBlocked(o) PROVE ReceiptInv'
    BY <1>1, <2>6 DEF RecoverBlocked
  <2>7. CASE RecoverDone
    <3>1. /\ pc = "recover" /\ todo = {} /\ pc' = "stream"
          /\ UNCHANGED <<ckpt, status, landed, batch, cursor, receipts>>
      BY <2>7 DEF RecoverDone
    <3>2. ASSUME NEW e \in Row
          PROVE  e > cursor /\ e \in Applied <=>
                   Off(e) > ckpt /\ \E o \in loaded : e \in Range(batch[o])
      <4>1. e > cursor <=> Off(e) > ckpt
        <5>1. cursor = Cardinality(Prefix(ckpt)) /\ ckpt \in Offset /\ ckpt \in Nat
          BY <1>0, <3>1, LogFacts DEF RestInv, TypeOK
        <5>2. Off(e) <= ckpt <=> e <= cursor
          BY <1>0, <5>1, PrefixFacts
        <5>3. e \in Nat /\ Off(e) \in Nat
          BY <1>0, LogFacts
        <5> QED BY <1>0, <5>1, <5>2, <5>3
      <4>2. ASSUME NEW o \in landed, e \in Range(batch[o]), Off(e) > ckpt PROVE o \in loaded
        <5>1. ~IsMetadata(o) /\ Off(e) <= SourceEnd(o) /\ o \in Op
          BY <1>0, <4>2, RowOps
        <5>2. SourceEnd(o) \in Nat /\ Off(e) \in Nat /\ ckpt \in Nat
          BY <1>0, <4>2, <5>1, RowOps, LogFacts
        <5>3. SourceEnd(o) > ckpt /\ ~Covered(o, ckpt)
          BY <4>2, <5>1, <5>2 DEF Covered
        <5>4. o \in Intents
          BY <1>0, <5>1, <5>3 DEF WritesHaveIntents
        <5> QED BY <1>0, <3>1, <5>3, <5>4 DEF ReceiptInv
      <4> QED BY <1>0, <4>1, <4>2 DEF Applied
    <3>3. \A e \in Row : receipts[e] = IF e > cursor /\ e \in Applied THEN 1 ELSE 0
      BY <1>0, <3>1, <3>2 DEF ReceiptInv
    <3>4. Applied' = Applied
      BY <3>1 DEF Applied
    <3> QED BY <3>1, <3>3, <3>4 DEF ReceiptInv
  <2> QED BY <1>3, <2>2, <2>3, <2>4, <2>5, <2>6, <2>7 DEF RecoverStep
<1>4. CASE CatalogStep
  <2>1. UNCHANGED <<pc, status, ckpt, batch, todo, loaded, receipts, cursor>>
    BY <1>4 DEF CatalogStep, CatalogAccepts, CatalogLoses, EvidenceExpired
  <2>2. Streaming => \A e \in Row : e > cursor => (e \in Applied' <=> e \in Applied)
    <3> SUFFICES ASSUME Streaming, NEW e \in Row, e > cursor, e \in Applied'
                 PROVE  e \in Applied
      BY <1>0, AppliedFacts
    <3>1. PICK o \in landed' : e \in Range(batch[o])
      BY <2>1 DEF Applied
    <3>2. o \in landed \/ o \in inflight
      BY <1>4, <3>1 DEF CatalogStep, CatalogAccepts, CatalogLoses, EvidenceExpired
    <3>3. o \notin inflight
      <4> SUFFICES ASSUME o \in inflight PROVE FALSE
        OBVIOUS
      <4>1. e <= cursor
        BY <1>0, <3>1, OpenBehindCursor
      <4>2. e \in Nat
        BY <1>0
      <4> QED BY <1>0, <4>1, <4>2
    <3> QED BY <3>1, <3>2, <3>3 DEF Applied
  <2>3. /\ Intents' = Intents /\ Streaming' = Streaming
        /\ \A o : Covered(o, ckpt)' = Covered(o, ckpt)
    BY <2>1 DEF Intents, Streaming, Covered, SourceEnd
  <2> QED BY <1>0, <2>1, <2>2, <2>3 DEF ReceiptInv
<1>5. CASE TakeEvent
  <2>1. /\ pc = "stream" /\ pc' = pc /\ cursor' = cursor + 1 /\ cursor' \in Entry
        /\ receipts \in [Entry -> Nat]
    <3>1. pc = "stream" /\ pc' = pc /\ cursor' = cursor + 1 /\ cursor < Len(Log)
      BY <1>5 DEF TakeEvent, Idle
    <3>2. Entry = 1..Len(Log) /\ Len(Log) \in Nat
      BY LogFacts
    <3> QED BY <1>0, <3>1, <3>2
  <2>2. Applied' = Applied
    BY <1>5 DEF TakeEvent, Applied
  <2>3. \A e \in Row : receipts[e] = IF e > cursor /\ e \in Applied THEN 1 ELSE 0
    BY <1>0, <2>1 DEF ReceiptInv, Streaming
  <2>4. \A e \in Row : e > cursor <=> (e > cursor' \/ e = cursor')
    BY <1>0, <2>1
  <2>5. ~(cursor' > cursor') /\ cursor' > cursor
    BY <1>0, <2>1
  <2>6. \A e \in Row : receipts'[e] = IF e > cursor' /\ e \in Applied THEN 1 ELSE 0
    <3>1. CASE TakeCheckpoint(cursor + 1)
      <4>1. receipts' = receipts /\ cursor' \notin Row
        BY <2>1, <3>1, LogFacts DEF TakeCheckpoint, Change
      <4> QED BY <2>3, <2>4, <4>1
    <3>2. CASE TakeRecovered(cursor + 1)
      <4>1. /\ cursor' \in Row /\ receipts[cursor'] > 0
            /\ receipts' = [receipts EXCEPT ![cursor'] = @ - 1]
        BY <2>1, <3>2 DEF TakeRecovered, SkipsRecovered
      <4>2. receipts'[cursor'] = 0
        BY <2>1, <2>3, <2>5, <4>1
      <4>3. \A e \in Row : e # cursor' => receipts'[e] = receipts[e]
        BY <1>0, <2>1, <4>1
      <4> QED BY <2>3, <2>4, <2>5, <4>2, <4>3
    <3>3. CASE TakeChange(cursor + 1)
      <4>1. receipts' = receipts /\ (cursor' \in Row => ~(receipts[cursor'] > 0))
        BY <2>1, <3>3 DEF TakeChange, SkipsRecovered
      <4>2. cursor' \in Row => receipts[cursor'] = 0
        BY <2>3, <4>1
      <4> QED BY <2>3, <2>4, <2>5, <4>1, <4>2
    <3> QED BY <1>5, <3>1, <3>2, <3>3 DEF TakeEvent
  <2> QED BY <2>1, <2>2, <2>6 DEF ReceiptInv
<1>6. ASSUME Streaming, Streaming', UNCHANGED <<receipts, cursor>>, Applied' = Applied
      PROVE  ReceiptInv'
  BY <1>0, <1>6 DEF ReceiptInv, Streaming
<1>7. CASE SourceEnds \/ \E due \in SUBSET Source : Tick(due)
  BY <1>6, <1>7 DEF SourceEnds, Tick, Idle, Streaming, Applied
<1>8. CASE (CommitStep \/ OffsetStep) /\ ~EndRun
  <2>1. CASE CommitStep
    <3>1. Streaming /\ Streaming' /\ UNCHANGED <<receipts, cursor, landed>>
      <4>1. CASE AppendEvent \/ NothingToCommit \/ BeginCommit
        BY <4>1 DEF AppendEvent, NothingToCommit, BeginCommit, CallBatch, Calls, Streaming
      <4>2. CASE CommitSucceeds \/ MarkFails \/ CommitRejected \/ CommitUnknown \/ CommitProven
        BY <4>2 DEF CommitSucceeds, MarkFails, CommitRejected, CommitUnknown, CommitProven,
           FinishCommit, Streaming
      <4> QED BY <1>8, <2>1, <4>1, <4>2 DEF CommitStep, BeginFails, RejectedDeleteFails,
              CommitUnproven
    <3> QED BY <1>0, <1>6, <3>1, AppliedFacts
  <2>2. CASE OffsetStep
    <3>1. Streaming /\ Streaming' /\ UNCHANGED <<receipts, cursor, landed>>
      BY <1>8, <2>2 DEF OffsetStep, OffsetNotSaved, OffsetSaved, OffsetSaveFails, OffsetBlocked,
         MaySaveOffset, Calls, Streaming
    <3> QED BY <1>0, <1>6, <3>1, AppliedFacts
  <2> QED BY <1>8, <2>1, <2>2
<1>9. CASE UNCHANGED vars
  BY <1>0, <1>9 DEF vars, ReceiptInv, Streaming, Applied, Intents, Covered, SourceEnd
<1> QED BY <1>1, <1>2, <1>3, <1>4, <1>5, <1>7, <1>8, <1>9
        DEF Next, LoopStep, DrainEnds, RunFails

-----------------------------------------------------------------------------
(* Exactly once *)

(* The call whose commit is in progress.                                    *)
LEMMA HeadFacts ==
  ASSUME TypeOK, calls # <<>>
  PROVE  /\ HeadCall.do = "flush" => HeadCall.src \in Source /\ HeadCall = FlushCall(HeadCall.src)
         /\ HeadCall.do = "ddl" => HeadCall.ev \in Ddl /\ HasEvent(HeadCall)
BY CallTypes DEF Call, FlushCall, HasEvent

(* When a commit begins, nothing else is open, and none of what it writes   *)
(* has been written.                                                        *)
LEMMA BeginFacts ==
  ASSUME TypeOK, BaseInv, ExactInv, CallBatch # <<>>
  PROVE  /\ inflight = {} /\ pc = "stream" /\ cur = NoOp /\ calls # <<>>
         /\ Range(CallBatch) \cap Applied = {}
         /\ \/ /\ HeadCall.do = "flush" /\ HeadCall.src \in Source
               /\ CallBatch = pending[HeadCall.src]
            \/ HeadCall.do = "ddl" /\ HeadCall.ev \in Ddl /\ CallBatch = <<HeadCall.ev>>
<1>1. /\ pc = "stream" /\ calls # <<>>
      /\ \/ Calls("flush") /\ CallBatch = pending[HeadCall.src]
         \/ Calls("ddl") /\ HeadCall.ev \notin Applied /\ CallBatch = <<HeadCall.ev>>
  BY DEF CallBatch, Calls
<1>2. cur = NoOp
  BY <1>1 DEF BaseInv, RestInv
<1>3. inflight = {}
  <2> SUFFICES ASSUME NEW o \in inflight PROVE FALSE
    OBVIOUS
  <2> QED BY <1>1, OpenBehindCursor DEF Streaming, ExactInv
<1>4. CASE Calls("flush") /\ CallBatch = pending[HeadCall.src]
  <2>1. HeadCall.src \in Source /\ pending[HeadCall.src] \in Seq(Row)
    BY <1>4, CallTypes DEF TypeOK
  <2>2. Range(CallBatch) \subseteq InMemory /\ Range(CallBatch) \subseteq Row
    BY <1>4, <2>1 DEF InMemory, Range
  <2>3. NoOp \notin landed
    BY DEF TypeOK, Op, NoOp
  <2>4. Range(CallBatch) \cap Applied = {}
    BY <1>2, <2>2, <2>3 DEF ExactInv, OnceInv, Applied
  <2> QED BY <1>1, <1>2, <1>3, <1>4, <2>1, <2>4 DEF Calls
<1>5. CASE Calls("ddl") /\ HeadCall.ev \notin Applied /\ CallBatch = <<HeadCall.ev>>
  <2>1. Range(CallBatch) = {HeadCall.ev}
    BY <1>5 DEF Range
  <2> QED BY <1>1, <1>2, <1>3, <1>5, <2>1, CallTypes DEF Calls
<1> QED BY <1>1, <1>4, <1>5

(* A confirmed commit takes its rows out of the batches.                    *)
LEMMA FinishedRows ==
  ASSUME TypeOK, BusyOK, BaseInv, OrderInv, MemoryKept, CommitSucceeds \/ CommitProven
  PROVE  \A e \in Row \cap (InMemory' \cup Called') : e \notin Range(batch[cur])
<1>0. /\ BusyInv /\ EventInv /\ FinishCommit /\ calls # <<>> /\ pc \in {"call", "prove"}
      /\ pending \in [Source -> Seq(Row)] /\ cur \in Op
  BY DEF BaseInv, BusyOK, CommitSucceeds, CommitProven, TypeOK
<1> SUFFICES ASSUME NEW e \in Row, e \in InMemory' \cup Called', e \in Range(batch[cur])
             PROVE  FALSE
  OBVIOUS
<1>1. CASE HeadCall.do = "flush" /\ batch[cur] = pending[HeadCall.src]
  <2>1. HeadCall.src \in Source /\ pending'[HeadCall.src] = <<>>
    BY <1>0, <1>1, HeadFacts DEF FinishCommit
  <2>2. e \in InMemory /\ Log[e].src = HeadCall.src
    BY <1>0, <1>1, <2>1 DEF InMemory, Range, EventInv
  <2>3. e \notin Called'
    BY <2>2 DEF OrderInv, MemoryKept
  <2>4. PICK t \in Source : e \in Range(pending'[t])
    BY <2>3 DEF InMemory
  <2>5. pending'[t] = pending[t] /\ t # HeadCall.src
    BY <2>1, <2>4 DEF MemoryKept, Range
  <2>6. Log[e].src = t
    BY <1>0, <2>4, <2>5 DEF EventInv, Range
  <2> QED BY <2>2, <2>5, <2>6
<1>2. CASE HeadCall.do = "ddl" /\ batch[cur] = <<HeadCall.ev>>
  <2>1. Range(batch[cur]) = {HeadCall.ev}
    BY <1>2 DEF Range
  <2> QED BY <1>0, <1>2, <2>1, HeadFacts, LogFacts
<1> QED BY <1>0, <1>1, <1>2 DEF BusyInv

(* A row reaches its table in one operation, and is not kept for another.   *)
LEMMA OnceStep ==
  ASSUME TypeOK, BusyOK, BaseInv, ExactInv, [Next]_vars, ~SourceReconnect
  PROVE  OnceInv'
<1> USE DEF durableVars, catalogVars, opVars, streamVars, recoveryVars
<1>0. /\ OpsInv /\ StatusInv /\ RestInv /\ BusyInv /\ EventInv /\ OrderInv /\ ReceiptInv
      /\ OnceInv /\ AppliedOnce
      /\ landed \subseteq Op /\ inflight \subseteq Op /\ batch \in [Op -> Seq(Change)]
      /\ nextOp \in Nat /\ Op \subseteq Nat /\ cur \in Op \cup {NoOp} /\ NoOp \notin Op
      /\ inflight \cap landed = {}
  BY DEF BaseInv, ExactInv, OnceInv, OpsInv, TypeOK, Op, NoOp
<1>1. /\ landed \subseteq landed' /\ Applied \subseteq Applied'
      /\ \A o \in landed \cup inflight : batch'[o] = batch[o]
      /\ CatalogStep \/ (landed' = landed /\ Applied' = Applied)
      /\ \A o \in landed' : o \in landed \/ o \in inflight
      /\ landed' \subseteq landed \cup inflight
  <2>1. landed' \subseteq landed \cup inflight
    <3>1. CASE CatalogStep
      BY <3>1 DEF CatalogStep, CatalogAccepts, CatalogLoses, EvidenceExpired
    <3> QED BY <1>0, <3>1, AppliedFacts
  <2> QED BY <1>0, <2>1, AppliedFacts
<1>2. AppliedOnce'
  <2> SUFFICES ASSUME NEW o \in landed', NEW p \in landed', o # p
               PROVE  Range(batch'[o]) \cap Range(batch'[p]) \cap Row = {}
    BY DEF AppliedOnce
  <2>1. batch'[o] = batch[o] /\ batch'[p] = batch[p]
    BY <1>1
  <2>2. CASE o \in landed /\ p \in landed
    BY <1>0, <2>1, <2>2 DEF AppliedOnce
  <2>6. ASSUME NEW x \in inflight, NEW y \in landed
        PROVE  Range(batch[x]) \cap Range(batch[y]) = {}
    <3>1. Range(batch[x]) \cap Applied = {} /\ Range(batch[y]) \subseteq Applied
      BY <1>0 DEF OnceInv, Applied
    <3> QED BY <3>1
  <2>3. CASE o \in inflight /\ p \in landed
    BY <2>1, <2>3, <2>6
  <2>4. CASE o \in landed /\ p \in inflight
    BY <2>1, <2>4, <2>6
  <2>5. ~(o \in inflight /\ p \in inflight)
    BY <1>0 DEF OnceInv
  <2> QED BY <1>1, <2>2, <2>3, <2>4, <2>5
<1>3. /\ \A o, p \in inflight' : o = p
      /\ \A o \in inflight' : Range(batch'[o]) \cap Applied' = {}
  <2>1. CASE BeginCommit
    <3>1. inflight' = {nextOp} /\ batch'[nextOp] = CallBatch /\ UNCHANGED landed
      BY <1>0, <2>1, BeginFacts DEF BeginCommit
    <3>2. Applied' = Applied /\ Range(CallBatch) \cap Applied = {}
      BY <1>0, <2>1, <3>1, AppliedFacts, BeginFacts DEF BeginCommit
    <3> QED BY <3>1, <3>2
  <2>2. CASE CatalogStep
    <3>1. PICK x \in Op : CatalogAccepts(x) \/ CatalogLoses(x) \/ EvidenceExpired(x)
      BY <2>2 DEF CatalogStep
    <3>2. CASE CatalogAccepts(x) \/ CatalogLoses(x)
      <4>1. inflight' = {}
        BY <1>0, <3>2 DEF CatalogAccepts, CatalogLoses, OnceInv
      <4> QED BY <4>1
    <3>3. CASE EvidenceExpired(x)
      <4>1. UNCHANGED <<inflight, landed, batch>> /\ Applied' = Applied
        BY <3>3 DEF EvidenceExpired, Applied
      <4> QED BY <1>0, <4>1 DEF OnceInv
    <3> QED BY <3>1, <3>2, <3>3
  <2>3. CASE ~BeginCommit /\ ~CatalogStep
    <3>1. inflight' \subseteq inflight
      BY <2>3, OpWriters DEF CommitRejected, RejectedDeleteFails
    <3> QED BY <1>0, <1>1, <2>3, <3>1 DEF OnceInv
  <2> QED BY <2>1, <2>2, <2>3
<1>4. \A e \in Row \cap (InMemory' \cup Called'), o \in landed' :
        e \in Range(batch'[o]) => o = cur'
  <2> SUFFICES ASSUME NEW e \in Row, e \in InMemory' \cup Called', NEW o \in landed',
                      e \in Range(batch[o])
               PROVE  o = cur'
    BY <1>1
  <2>0. \/ EventTaken /\ e = cursor' /\ TakeChange(cursor')
        \/ e \in InMemory \cup Called
    <3>1. ~MemoryLost
      BY DEF MemoryLost
    <3> QED BY <3>1, MemoryStep DEF MemoryKept, EventTaken, EventBatched
  <2>1. CASE EventTaken /\ e = cursor' /\ TakeChange(cursor')
    <3>1. /\ pc = "stream" /\ cursor' = cursor + 1 /\ UNCHANGED <<landed, batch>>
      BY <2>1 DEF EventTaken, TakeEvent, Idle
    <3>2. ~(receipts[e] > 0) /\ e > cursor
      BY <2>1, <3>1, LogFacts DEF TakeChange, SkipsRecovered, TypeOK
    <3>3. receipts[e] = IF e > cursor /\ e \in Applied THEN 1 ELSE 0
      BY <1>0, <3>1 DEF ReceiptInv, Streaming
    <3>4. e \notin Applied
      BY <3>2, <3>3
    <3> QED BY <3>1, <3>4 DEF Applied
  <2>2. CASE e \in InMemory \cup Called
    <3>1. CASE CatalogStep
      <4>1. UNCHANGED <<pc, cur>>
        BY <3>1 DEF CatalogStep, CatalogAccepts, CatalogLoses, EvidenceExpired
      <4>2. CASE o \in landed
        BY <1>0, <2>2, <4>1, <4>2 DEF OnceInv
      <4>3. CASE o \in inflight
        <5>1. Streaming
          <6>1. calls = <<>> /\ pending = [s \in Source |-> <<>>] => InMemory = {} /\ Called = {}
            BY LastEvents DEF InMemory, Called, Range
          <6> QED BY <1>0, <2>2, <6>1 DEF RestInv, Streaming, TypeOK
        <5> QED BY <1>0, <4>1, <4>3, <5>1, OpenBehindCursor
      <4> QED BY <1>1, <4>2, <4>3
    <3>2. CASE ~CatalogStep
      <4>1. o \in landed /\ o = cur
        BY <1>0, <1>1, <2>2, <3>2 DEF OnceInv
      <4>2. pc \in {"call", "prove"}
        BY <1>0, <4>1 DEF RestInv, TypeOK
      <4>3. CASE CommitSucceeds \/ CommitProven
        <5>1. MemoryKept
          <6>1. pc' = "stream" /\ pc \in {"call", "prove"}
            BY <4>3 DEF CommitSucceeds, CommitProven, FinishCommit
          <6>2. ~EventTaken /\ ~EventBatched /\ ~MemoryLost
            BY <4>2 DEF EventTaken, EventBatched, MemoryLost, TakeEvent, Idle, AppendEvent, Calls
          <6> QED BY <6>2, MemoryStep
        <5> QED BY <1>0, <4>1, <4>3, <5>1, FinishedRows
      <4>4. CASE CommitRejected \/ RejectedDeleteFails
        BY <4>1, <4>4 DEF CommitRejected, RejectedDeleteFails, Rejected
      <4>5. CASE EndRun
        <5>1. InMemory' = {} /\ Called' = {}
          BY <4>5, LastEvents DEF EndRun, InMemory, Called, Range
        <5> QED BY <5>1
      <4>6. CASE MarkFails \/ CommitUnknown \/ UNCHANGED vars
        BY <4>1, <4>6 DEF MarkFails, CommitUnknown, vars
      <4>7. (~StartRun /\ ~RecoverStep) \/ EndRun
        BY <4>2 DEF StartRun, RecoverStep, RecoverCovered, RecoverProven, RecoverWriteFails,
           RecoverRetry, RecoverBlocked, RecoverDone, NextIntent
      <4>8. /\ ~LoopStep /\ ~AppendEvent /\ ~NothingToCommit /\ ~BeginCommit
            /\ ~OffsetNotSaved /\ ~OffsetSaved /\ ~OffsetSaveFails
        BY <4>2 DEF LoopStep, TakeEvent, Tick, SourceEnds, SourceReconnect, Idle, AppendEvent,
           NothingToCommit, BeginCommit, CallBatch, OffsetNotSaved, OffsetSaved,
           OffsetSaveFails, MaySaveOffset, Calls
      <4> QED BY <3>2, <4>3, <4>4, <4>5, <4>6, <4>7, <4>8
              DEF Next, CommitStep, OffsetStep, BeginFails, CommitUnproven, OffsetBlocked,
                  DrainEnds, RunFails
    <3> QED BY <3>1, <3>2
  <2> QED BY <2>0, <2>1, <2>2
<1> QED BY <1>2, <1>3, <1>4 DEF OnceInv

(* An intent is dropped only when its rows need no receipt any more: it     *)
(* changes the schema, the checkpoint covers it, or it was never accepted.  *)
LEMMA DroppedIntents ==
  ASSUME TypeOK, BusyOK, BaseInv, OrderInv, [Next]_vars, ~SourceReconnect,
         NEW o \in Op, o < nextOp, status[o] # "none", status'[o] = "none"
  PROVE  IsMetadata(o) \/ SourceEnd(o) <= ckpt' \/ o \notin landed' \cup inflight'
<1> USE DEF durableVars, catalogVars, opVars, streamVars, recoveryVars
<1>0. /\ OpsInv /\ StatusInv /\ BusyInv /\ ckpt \in Nat /\ ckpt' \in Nat /\ ckpt <= ckpt'
      /\ SourceEnd(o) \in Nat /\ status \in [Op -> Status] /\ nextOp \in Nat
      /\ cleanupOffset \in Nat /\ pendingOffset \in Nat /\ cleanupOffset <= ckpt
      /\ inflight \cap landed = {}
  <2>1. OpsInv /\ StatusInv /\ BusyInv /\ ckpt <= ckpt' /\ cleanupOffset <= ckpt
    BY OrderStep DEF BaseInv, OrderInv
  <2>2. TypeOK'
    BY TypeStep
  <2>3. /\ ckpt \in Offset /\ ckpt' \in Offset /\ cleanupOffset \in Offset
        /\ pendingOffset \in Offset /\ status \in [Op -> Status] /\ nextOp \in 1..(MaxOps + 1)
    BY <2>2 DEF TypeOK
  <2>4. batch[o] # <<>> /\ inflight \cap landed = {}
    BY <2>1 DEF OpsInv
  <2>5. SourceEnd(o) \in Nat
    BY <2>1, <2>4, RowOps
  <2> QED BY <2>1, <2>3, <2>4, <2>5, LogFacts
<1>1. CASE RecoverStep
  <2>1. \E p \in Op : \/ RecoverCovered(p) \/ RecoverProven(p) \/ RecoverWriteFails(p)
    BY <1>1 DEF RecoverStep, RecoverRetry, RecoverBlocked, RecoverDone
  <2>2. PICK p \in Op : \/ RecoverCovered(p) \/ RecoverProven(p) \/ RecoverWriteFails(p)
    BY <2>1
  <2>3. p = o /\ ckpt' = ckpt
    BY <1>0, <2>2 DEF RecoverCovered, RecoverProven, RecoverWriteFails
  <2>4. IsMetadata(o) \/ Covered(o, ckpt)
    BY <1>0, <2>2, <2>3 DEF RecoverCovered, RecoverProven, RecoverWriteFails, Resolved
  <2> QED BY <2>3, <2>4 DEF Covered
<1>2. CASE CommitStep
  <2>1. \/ o = nextOp \/ (o = cur /\ o \notin landed /\ o \notin inflight')
    BY <1>2, CommitWrites
  <2>2. o # nextOp
    BY <1>0
  <2>3. landed' = landed
    BY <1>2 DEF CommitStep, AppendEvent, NothingToCommit, BeginCommit, BeginFails,
       CommitSucceeds, MarkFails, CommitRejected, RejectedDeleteFails, CommitUnknown,
       CommitProven, CommitUnproven
  <2> QED BY <2>1, <2>2, <2>3
<1>3. CASE OffsetStep
  <2>1. ASSUME NEW c, CleanUp(c), c = cleanupOffset \/ c = ckpt'
        PROVE  SourceEnd(o) <= ckpt'
    <3>1. o \in Cleanable(cleanupOffset) \cup Cleanable(c)
      BY <1>0, <2>1 DEF CleanUp
    <3>2. SourceEnd(o) <= cleanupOffset \/ SourceEnd(o) <= ckpt'
      BY <2>1, <3>1 DEF Cleanable, Covered
    <3> QED BY <1>0, <3>2
  <2>2. CASE OffsetNotSaved \/ OffsetSaveFails
    BY <2>1, <2>2 DEF OffsetNotSaved, OffsetSaveFails
  <2>3. CASE OffsetSaved
    BY <2>1, <2>3 DEF OffsetSaved
  <2>4. ~OffsetBlocked
    BY DEF OffsetBlocked
  <2> QED BY <1>3, <2>2, <2>3, <2>4 DEF OffsetStep
<1> QED BY <1>1, <1>2, <1>3, IntentWriters

(* What is written beyond the checkpoint keeps its intent.                  *)
LEMMA IntentStep ==
  ASSUME TypeOK, BusyOK, BaseInv, ExactInv, [Next]_vars, ~SourceReconnect
  PROVE  WritesHaveIntents'
<1>0. /\ OpsInv /\ OrderInv /\ WritesHaveIntents /\ landed \subseteq Op /\ inflight \subseteq Op
      /\ nextOp \in Nat /\ Op \subseteq Nat
  BY DEF BaseInv, ExactInv, TypeOK, Op
<1> SUFFICES ASSUME NEW o \in landed' \cup inflight', ~IsMetadata(o)', SourceEnd(o)' > ckpt'
             PROVE  o \in Intents'
  BY DEF WritesHaveIntents
<1>1. CASE BeginCommit /\ o = nextOp
  <2>1. nextOp \in Op /\ status' = [status EXCEPT ![nextOp] = "PREPARED"]
    BY <1>1 DEF BeginCommit
  <2> QED BY <1>1, <2>1 DEF Intents, TypeOK
<1>2. CASE o \in landed \cup inflight
  <2>1. batch'[o] = batch[o] /\ o \in Op
    BY <1>0, <1>2, AppliedFacts
  <2>2. o < nextOp /\ batch[o] # <<>>
    BY <1>0, <1>2, <2>1 DEF OpsInv
  <2>3. ~IsMetadata(o) /\ SourceEnd(o) > ckpt'
    BY <2>1 DEF IsMetadata, SourceEnd
  <2>4. ckpt \in Nat /\ ckpt' \in Nat /\ ckpt <= ckpt' /\ SourceEnd(o) \in Nat
    <3>1. TypeOK' /\ ckpt <= ckpt'
      BY <1>0, TypeStep, OrderStep
    <3>2. ckpt \in Offset /\ ckpt' \in Offset
      BY <3>1 DEF TypeOK
    <3> QED BY <1>0, <2>1, <2>2, <3>1, <3>2, RowOps, LogFacts
  <2>5. SourceEnd(o) > ckpt /\ ~(SourceEnd(o) <= ckpt')
    BY <2>3, <2>4
  <2>6. status[o] # "none"
    BY <1>0, <1>2, <2>3, <2>5 DEF WritesHaveIntents, Intents
  <2>7. status'[o] # "none"
    BY <1>0, <2>1, <2>2, <2>3, <2>5, <2>6, DroppedIntents
  <2> QED BY <2>1, <2>7 DEF Intents
<1>3. landed' \cup inflight' \subseteq landed \cup inflight \/ BeginCommit
  BY OpWriters DEF CatalogStep, CatalogAccepts, CatalogLoses, EvidenceExpired, CommitRejected,
     RejectedDeleteFails
<1>4. BeginCommit => landed' \cup inflight' \subseteq landed \cup inflight \cup {nextOp}
  BY DEF BeginCommit
<1> QED BY <1>1, <1>2, <1>3, <1>4

-----------------------------------------------------------------------------
(* The order of each table *)

(* The flushes among the calls of a handler.                                *)
LEMMA TailFlushes ==
  ASSUME NEW q \in Seq(Call), q # <<>>
  PROVE  \A s \in FlushesOf(q) : s \in FlushesOf(Tail(q)) \/ Head(q) = FlushCall(s)
<1>1. /\ Len(q) \in Nat \ {0} /\ Tail(q) \in Seq(Call) /\ Len(Tail(q)) = Len(q) - 1
      /\ Head(q) = q[1] /\ \A i \in 1..(Len(q) - 1) : Tail(q)[i] = q[i + 1]
  BY TailFacts
<1>2. DOMAIN q = 1..Len(q) /\ DOMAIN Tail(q) = 1..(Len(q) - 1)
  BY <1>1
<1>3. \A i \in DOMAIN q : i = 1 \/ (i - 1 \in DOMAIN Tail(q) /\ Tail(q)[i - 1] = q[i])
  BY <1>1, <1>2
<1> QED BY <1>1, <1>3 DEF FlushesOf

(* One more call in front takes no flush away.                              *)
LEMMA PrependFlushes ==
  ASSUME NEW q \in Seq(Call), NEW x \in Call
  PROVE  FlushesOf(q) \subseteq FlushesOf(<<x>> \o q)
<1> DEFINE r == <<x>> \o q
<1>1. /\ r \in Seq(Call) /\ Len(r) = Len(q) + 1 /\ Len(q) \in Nat /\ r[1] = x
      /\ \A i \in 2..(Len(q) + 1) : r[i] = q[i - 1]
  BY PrependFacts
<1> HIDE DEF r
<1>2. DOMAIN r = 1..(Len(q) + 1) /\ DOMAIN q = 1..Len(q)
  BY <1>1
<1>3. \A i \in DOMAIN q : i + 1 \in DOMAIN r /\ r[i + 1] = q[i]
  BY <1>1, <1>2
<1>4. FlushesOf(q) \subseteq FlushesOf(r)
  BY <1>3 DEF FlushesOf
<1> QED BY <1>4 DEF r

(* Flush calls in front are flushes of their tables.                        *)
LEMMA FlushFlushes ==
  ASSUME NEW S \in SUBSET Source, NEW order \in SetToSeqs(S), NEW r \in Seq(Call)
  PROVE  S \cup FlushesOf(r) \subseteq FlushesOf(FlushCalls(order) \o r)
<1> DEFINE q == FlushCalls(order)
           t == q \o r
<1>1. /\ q \in Seq(Call) /\ DOMAIN q = 1..Len(q)
      /\ \A s \in S : \E i \in DOMAIN q : q[i] = FlushCall(s)
  BY FlushFacts
<1> HIDE DEF q
<1>2. /\ t \in Seq(Call) /\ Len(t) = Len(q) + Len(r) /\ Len(q) \in Nat /\ Len(r) \in Nat
      /\ \A i \in 1..(Len(q) + Len(r)) : t[i] = IF i <= Len(q) THEN q[i] ELSE r[i - Len(q)]
  BY <1>1, ConcatFacts
<1> HIDE DEF t
<1>3. DOMAIN t = 1..(Len(q) + Len(r)) /\ DOMAIN r = 1..Len(r)
  BY <1>2
<1>4. \A i \in DOMAIN q : i \in DOMAIN t /\ t[i] = q[i]
  BY <1>1, <1>2, <1>3
<1>5. \A i \in DOMAIN r : i + Len(q) \in DOMAIN t /\ t[i + Len(q)] = r[i]
  BY <1>2, <1>3
<1>6. S \subseteq FlushesOf(t)
  BY <1>1, <1>4 DEF FlushesOf
<1>7. FlushesOf(r) \subseteq FlushesOf(t)
  BY <1>5 DEF FlushesOf
<1> QED BY <1>6, <1>7 DEF t, q

(* Nothing is flushed behind the event of a handler.                        *)
LEMMA NoFlushBehind ==
  ASSUME TypeOK, EventInv, calls # <<>>, HasEvent(HeadCall)
  PROVE  FlushesOf(calls) = {}
<1>1. calls \in Seq(Call) /\ EventOnlyLast(calls, cursor) /\ HasEvent(Head(calls))
  BY DEF TypeOK, EventInv, HeadCall
<1>2. Tail(calls) = <<>>
  BY <1>1, TailEvents
<1>3. \A s : Head(calls) # FlushCall(s)
  BY <1>1 DEF HasEvent, FlushCall
<1>4. FlushesOf(<<>>) = {}
  BY DEF FlushesOf
<1>5. \A s \in FlushesOf(calls) : s \in FlushesOf(<<>>)
  BY <1>1, <1>2, <1>3, TailFlushes
<1> QED BY <1>4, <1>5

(* A flush that is still to be made stays so while its batch is not empty.  *)
LEMMA FlushesKept ==
  ASSUME TypeOK, BusyOK, BaseInv, [Next]_vars, ~SourceReconnect,
         NEW t \in Source, t \in FlushesOf(calls), pending'[t] # <<>>
  PROVE  t \in FlushesOf(calls') \/ Called' = {}
<1> USE DEF durableVars, catalogVars, opVars, streamVars, recoveryVars
<1>0. /\ BusyInv /\ EventInv /\ RestInv /\ calls \in Seq(Call)
      /\ pending \in [Source -> Seq(Row)]
  BY DEF BaseInv, TypeOK
<1>1. calls # <<>> /\ Tail(calls) \in Seq(Call)
  <2>1. calls # <<>>
    BY DEF FlushesOf
  <2> QED BY <2>1, CallTypes
<1>2. ASSUME \/ calls' = Tail(calls)
             \/ calls' = <<OffsetCall(TRUE)>> \o Tail(calls),
             HeadCall # FlushCall(t)
      PROVE  t \in FlushesOf(calls')
  <2>1. t \in FlushesOf(Tail(calls))
    BY <1>0, <1>1, <1>2, TailFlushes DEF HeadCall
  <2>2. FlushesOf(Tail(calls)) \subseteq FlushesOf(<<OffsetCall(TRUE)>> \o Tail(calls))
    <3> DEFINE x == OffsetCall(TRUE)
    <3>1. x \in Call
      BY CallTypes
    <3> HIDE DEF x
    <3>2. FlushesOf(Tail(calls)) \subseteq FlushesOf(<<x>> \o Tail(calls))
      BY <1>1, <3>1, PrependFlushes
    <3> QED BY <3>2 DEF x
  <2> QED BY <1>2, <2>1, <2>2
<1>3. CASE StartRun \/ RecoverStep \/ LoopStep
  <2>1. calls' = calls \/ calls' = <<>>
    BY <1>1, <1>3 DEF StartRun, RecoverStep, RecoverCovered, RecoverProven, RecoverWriteFails,
       RecoverRetry, RecoverBlocked, RecoverDone, EndRun, LoopStep, TakeEvent, Tick, SourceEnds,
       SourceReconnect, Idle
  <2> QED BY <2>1, LastEvents DEF Called
<1>4. CASE CatalogStep
  BY <1>4 DEF CatalogStep, CatalogAccepts, CatalogLoses, EvidenceExpired
<1>5. CASE AppendEvent
  <2>1. HasEvent(HeadCall)
    BY <1>5 DEF AppendEvent, Calls, HasEvent
  <2> QED BY <1>0, <1>1, <2>1, NoFlushBehind
<1>6. CASE NothingToCommit
  <2>1. calls' = Tail(calls) /\ pending' = pending
    BY <1>6 DEF NothingToCommit
  <2>2. HeadCall # FlushCall(t)
    BY <1>6, <2>1 DEF NothingToCommit, CallBatch, Calls, FlushCall
  <2> QED BY <1>2, <2>1, <2>2
<1>7. CASE BeginCommit \/ MarkFails \/ CommitRejected \/ CommitUnknown \/ UNCHANGED vars
  BY <1>7 DEF BeginCommit, MarkFails, CommitRejected, CommitUnknown, vars
<1>8. CASE CommitSucceeds \/ CommitProven
  <2>1. FinishCommit
    BY <1>8 DEF CommitSucceeds, CommitProven
  <2>2. HeadCall # FlushCall(t)
    BY <1>0, <2>1 DEF FinishCommit, FlushCall
  <2> QED BY <1>2, <2>1, <2>2 DEF FinishCommit
<1>9. CASE OffsetNotSaved \/ OffsetSaved \/ OffsetSaveFails
  <2>1. calls' = Tail(calls) /\ HeadCall # FlushCall(t)
    BY <1>9 DEF OffsetNotSaved, OffsetSaved, OffsetSaveFails, MaySaveOffset, Calls, FlushCall
  <2> QED BY <1>2, <2>1
<1>10. CASE EndRun
  BY <1>10, LastEvents DEF EndRun, Called
<1> QED BY <1>3, <1>4, <1>5, <1>6, <1>7, <1>8, <1>9, <1>10
        DEF Next, CommitStep, OffsetStep, BeginFails, RejectedDeleteFails, CommitUnproven,
            OffsetBlocked, DrainEnds, RunFails

(* A change waits until the other tables of its Iceberg table are flushed.  *)
LEMMA PriorFlushes ==
  ASSUME NEW e \in Entry, TakeChange(e), NEW t \in Source, pending[t] # <<>>,
         TargetOf[t] = Target(e), e \in Row => t # Log[e].src
  PROVE  t \in FlushesOf(calls')
<1> DEFINE S == PriorSources(Log[e].src)
           flush == FlushCall(Log[e].src)
           ddl == [do |-> "ddl", ev |-> e]
           append == [do |-> "append", ev |-> e]
           last == IF e \in Ddl THEN <<flush, ddl>> ELSE <<append>>
<1>1. PICK order \in ByKey(S) : calls' = FlushCalls(order) \o last
  BY DEF TakeChange
<1>2. S \in SUBSET Source /\ order \in SetToSeqs(S)
  BY DEF PriorSources, PendingSources, ByKey
<1>3. Log[e].src \in Source /\ (e \in Ddl \/ e \in Row)
  BY LogFacts DEF TakeChange, Change
<1>4. last \in Seq(Call)
  <2>1. flush \in Call /\ (e \in Ddl => ddl \in Call) /\ (e \in Row => append \in Call)
    BY <1>3 DEF Call, FlushCall
  <2> HIDE DEF flush, ddl, append
  <2> QED BY <1>3, <2>1
<1>5. S \cup FlushesOf(last) \subseteq FlushesOf(calls')
  <2> HIDE DEF S, last
  <2> QED BY <1>1, <1>2, <1>4, FlushFlushes
<1>6. CASE t # Log[e].src
  <2>1. t \in S
    BY <1>6 DEF PriorSources, PendingSources, Target
  <2> QED BY <1>5, <2>1
<1>7. CASE t = Log[e].src
  <2>1. e \in Ddl
    BY <1>3, <1>7
  <2>2. last = <<flush, ddl>> /\ DOMAIN <<flush, ddl>> = 1..2 /\ <<flush, ddl>>[1] = flush
    BY <2>1
  <2>3. t \in FlushesOf(last)
    BY <1>7, <2>2 DEF FlushesOf
  <2> QED BY <1>5, <2>3
<1> QED BY <1>6, <1>7

(* What an operation writes leaves no earlier change of its table behind.   *)
LEMMA BeginBefore ==
  ASSUME TypeOK, BaseInv, ExactInv, CallBatch # <<>>,
         NEW e \in Range(CallBatch), NEW f \in Before(e)
  PROVE  f \in Applied \cup Range(CallBatch)
<1>0. /\ EventInv /\ CoverInv /\ OrderInv /\ TurnInv /\ pending \in [Source -> Seq(Row)]
      /\ calls # <<>> /\ calls \in Seq(Call)
  BY BeginFacts DEF BaseInv, ExactInv, TypeOK
<1>1. f \in Change /\ f < e /\ Target(f) = Target(e) /\ f \in Nat
  BY LogFacts DEF Before
<1>2. ASSUME e <= cursor, e \in Nat
      PROVE  f \in Applied \/ f \in InMemory
  <2>1. cursor \in Nat
    BY LogFacts DEF TypeOK
  <2>2. f <= cursor /\ f # cursor
    BY <1>1, <1>2, <2>1
  <2>3. f \notin Called
    BY <1>0, <2>2 DEF Called, EventsOf, EventInv, EventOnlyLast
  <2> QED BY <1>0, <1>1, <2>2, <2>3 DEF CoverInv
<1>3. ASSUME f \in InMemory
      PROVE  \E t \in Source : f \in Range(pending[t]) /\ pending[t] # <<>> /\ Target(f) = TargetOf[t]
  <2>1. PICK t \in Source : f \in Range(pending[t])
    BY <1>3 DEF InMemory
  <2>2. pending[t] # <<>>
    BY <2>1 DEF Range
  <2>3. Log[f].src = t
    BY <1>0, <2>1 DEF EventInv, Range
  <2> QED BY <2>1, <2>2, <2>3 DEF Target
<1>4. CASE HeadCall.do = "flush" /\ HeadCall.src \in Source /\ CallBatch = pending[HeadCall.src]
  <2>1. e \in InMemory /\ e \in Row /\ Target(e) = TargetOf[HeadCall.src]
    BY <1>0, <1>4 DEF InMemory, Range, EventInv, Target
  <2>2. e <= cursor /\ e \in Nat
    BY <1>0, <2>1, LogFacts DEF OrderInv
  <2>3. ASSUME f \in InMemory PROVE f \in Range(CallBatch)
    <3>1. PICK t \in Source : f \in Range(pending[t]) /\ pending[t] # <<>> /\ Target(f) = TargetOf[t]
      BY <1>3, <2>3
    <3>2. pending[HeadCall.src] # <<>> /\ TargetOf[t] = TargetOf[HeadCall.src]
      BY <1>1, <1>4, <2>1, <3>1
    <3>3. t = HeadCall.src
      BY <1>0, <1>4, <3>1, <3>2 DEF TurnInv
    <3> QED BY <1>4, <3>1, <3>3
  <2> QED BY <1>2, <2>2, <2>3
<1>5. CASE HeadCall.do = "ddl" /\ HeadCall.ev \in Ddl /\ CallBatch = <<HeadCall.ev>>
  <2>1. e = HeadCall.ev /\ HasEvent(HeadCall)
    BY <1>5 DEF Range, HasEvent
  <2>2. e = cursor /\ e \in Called
    <3>1. HeadCall.ev = cursor /\ EventsOf(calls) = {cursor}
      BY <1>0, <2>1, TailEvents DEF EventInv, HeadCall
    <3> QED BY <2>1, <3>1 DEF Called
  <2>3. e <= cursor /\ e \in Nat /\ e \notin Row
    <3>1. e \in Ddl
      BY <1>5, <2>1
    <3>2. e \in Nat /\ e \notin Row
      BY <3>1, LogFacts
    <3> QED BY <2>2, <3>2
  <2>4. f \notin InMemory
    <3> SUFFICES ASSUME f \in InMemory PROVE FALSE
      OBVIOUS
    <3>1. PICK t \in Source : f \in Range(pending[t]) /\ pending[t] # <<>> /\ Target(f) = TargetOf[t]
      BY <1>3
    <3>2. t \in FlushesOf(calls)
      BY <1>0, <1>1, <2>2, <2>3, <3>1 DEF TurnInv
    <3> QED BY <1>0, <2>1, <3>2, NoFlushBehind
  <2> QED BY <1>2, <2>3, <2>4
<1> QED BY <1>4, <1>5, BeginFacts

(* One source table at a time has changes of an Iceberg table in memory, and *)
(* what the catalog may accept leaves none of them behind.                   *)
LEMMA TurnStep ==
  ASSUME TypeOK, BusyOK, BaseInv, ExactInv, [Next]_vars, ~SourceReconnect
  PROVE  TurnInv'
<1>0. /\ OpsInv /\ EventInv /\ TurnInv /\ OrderInv /\ pending \in [Source -> Seq(Row)]
  BY DEF BaseInv, ExactInv, TypeOK
<1>1. \A s, t \in Source :
        pending'[s] # <<>> /\ pending'[t] # <<>> /\ TargetOf[s] = TargetOf[t] => s = t
  <2>1. CASE EventBatched
    <3> DEFINE u == Log[cursor].src
    <3>1. /\ cursor \in Row /\ u \in Source /\ calls # <<>> /\ Called = {cursor}
          /\ pending' = [pending EXCEPT ![u] = Append(@, cursor)] /\ HasEvent(HeadCall)
      BY <2>1 DEF EventBatched, AppendEvent, Calls, HasEvent
    <3>2. \A t \in Source : t # u => pending'[t] = pending[t]
      BY <1>0, <3>1
    <3>3. \A t \in Source : t # u /\ pending[t] # <<>> => TargetOf[t] # TargetOf[u]
      <4>1. FlushesOf(calls) = {}
        BY <1>0, <3>1, NoFlushBehind
      <4> QED BY <1>0, <3>1, <4>1 DEF TurnInv, Target
    <3> HIDE DEF u
    <3> QED BY <1>0, <3>1, <3>2, <3>3 DEF TurnInv
  <2>2. CASE MemoryKept
    BY <1>0, <2>2 DEF MemoryKept, TurnInv
  <2>3. CASE MemoryLost
    BY <2>3 DEF MemoryLost
  <2>4. CASE EventTaken
    BY <1>0, <2>4 DEF EventTaken, TurnInv
  <2> QED BY <2>1, <2>2, <2>3, <2>4, MemoryStep
<1>2. ASSUME NEW e \in Called', NEW t \in Source, pending'[t] # <<>>, TargetOf[t] = Target(e),
             e \in Row => t # Log[e].src
      PROVE  t \in FlushesOf(calls')
  <2>1. CASE EventTaken
    <3>1. /\ TakeChange(cursor') /\ e = cursor' /\ cursor' \in Entry /\ pending' = pending
      BY <1>2, <2>1 DEF EventTaken
    <3>2. TakeChange(e) /\ e \in Entry
      BY <3>1
    <3> QED BY <1>2, <3>1, <3>2, PriorFlushes
  <2>2. CASE MemoryKept
    <3>1. e \in Called /\ pending[t] # <<>>
      BY <1>2, <2>2 DEF MemoryKept
    <3>2. t \in FlushesOf(calls)
      BY <1>0, <1>2, <3>1 DEF TurnInv
    <3> QED BY <1>2, <3>2, FlushesKept
  <2>3. ~MemoryLost /\ ~EventBatched
    BY <1>2 DEF MemoryLost, EventBatched
  <2> QED BY <2>1, <2>2, <2>3, MemoryStep
<1>3. ASSUME NEW o \in inflight', NEW e \in Range(batch'[o])
      PROVE  Before(e) \subseteq Applied' \cup Range(batch'[o])
  <2>1. CASE BeginCommit
    <3>1. /\ inflight' = {nextOp} /\ batch'[nextOp] = CallBatch /\ CallBatch # <<>>
      BY <2>1, BeginFacts DEF BeginCommit, TypeOK
    <3>2. e \in Range(CallBatch) /\ Range(batch'[o]) = Range(CallBatch)
      BY <1>3, <3>1
    <3>3. Applied \subseteq Applied'
      BY <1>0, AppliedFacts
    <3>4. \A f \in Before(e) : f \in Applied \cup Range(CallBatch)
      BY <3>1, <3>2, BeginBefore
    <3> QED BY <3>2, <3>3, <3>4
  <2>2. CASE ~BeginCommit
    <3>1. inflight' \subseteq inflight
      BY <2>2, OpWriters DEF CatalogStep, CatalogAccepts, CatalogLoses, EvidenceExpired,
         CommitRejected, RejectedDeleteFails
    <3>2. batch'[o] = batch[o] /\ Applied \subseteq Applied'
      BY <1>0, <1>3, <3>1, AppliedFacts
    <3>3. Before(e) \subseteq Applied \cup Range(batch[o])
      BY <1>0, <1>3, <3>1, <3>2 DEF TurnInv
    <3> QED BY <3>2, <3>3
  <2> QED BY <2>1, <2>2
<1> QED BY <1>1, <1>2, <1>3 DEF TurnInv

-----------------------------------------------------------------------------
(* The contract *)

(* The invariants together.                                                 *)
LEMMA ExactStep ==
  ASSUME TypeOK, BusyOK, BaseInv, ExactInv, [Next]_vars, ~SourceReconnect
  PROVE  ExactInv'
BY OrderStep, ReceiptStep, OnceStep, IntentStep, TurnStep DEF ExactInv

(* A job that was never claimed has written nothing.                        *)
LEMMA ExactInit == Init => ExactInv
<1> SUFFICES ASSUME Init PROVE ExactInv
  OBVIOUS
<1>1. InMemory = {} /\ Called = {}
  BY LastEvents DEF Init, InMemory, Called, Range
<1>2. OrderInv
  BY <1>1, LogFacts DEF Init, OrderInv, Increasing, NoOffset
<1>3. ReceiptInv
  BY DEF Init, ReceiptInv, Streaming
<1>4. OnceInv /\ WritesHaveIntents
  BY <1>1 DEF Init, OnceInv, AppliedOnce, WritesHaveIntents
<1>5. TurnInv
  BY <1>1 DEF Init, TurnInv
<1> QED BY <1>2, <1>3, <1>4, <1>5 DEF ExactInv

(* Without retries of the stream the source delivers each entry once a run. *)
LEMMA NoReconnect ==
  ASSUME MaxReconnects = 0, TypeOK
  PROVE  ~SourceReconnect
BY DEF TypeOK, SourceReconnect

(* As long as the source's stream does not fail within a run, ExactInv is   *)
(* an inductive invariant relative to BaseInv, whatever else is lost.       *)
THEOREM ExactInductive ==
  ASSUME MaxReconnects = 0
  PROVE  Spec => [](TypeOK /\ BusyOK /\ BaseInv /\ ExactInv)
<1>1. Init => TypeOK /\ BusyOK /\ BaseInv /\ ExactInv
  BY InitTypes, BaseInit, ExactInit
<1>2. TypeOK /\ BusyOK /\ BaseInv /\ ExactInv /\ [Next]_vars
        => TypeOK' /\ BusyOK' /\ BaseInv' /\ ExactInv'
  BY TypeStep, BusyStep, BaseStep, NoReconnect, ExactStep
<1> QED BY <1>1, <1>2, PTL DEF Spec

(* No row is written by two catalog operations: a request that is accepted  *)
(* late belongs to an intent that blocked every run since it was made, and  *)
(* what an earlier run wrote the receipts take out of the replay.           *)
THEOREM RowsAppliedOnce ==
  ASSUME MaxReconnects = 0
  PROVE  Spec => []AppliedOnce
<1>1. ExactInv => AppliedOnce
  BY DEF ExactInv, OnceInv
<1> QED BY ExactInductive, <1>1, PTL

(* What is, or may still be, written beyond the checkpoint has a durable    *)
(* intent (cleanupCheckpointedIcebergCommits, guardedIcebergCommit).        *)
THEOREM WritesKeepIntents ==
  ASSUME MaxReconnects = 0
  PROVE  Spec => []WritesHaveIntents
<1>1. ExactInv => WritesHaveIntents
  BY DEF ExactInv
<1> QED BY ExactInductive, <1>1, PTL

(* Every receipt a checkpoint covers has been used when it is saved.        *)
LEMMA ReplayCompletes ==
  ASSUME TypeOK, BaseInv, ExactInv, MaySaveOffset
  PROVE  ReplayComplete(pendingOffset)
<1>0. /\ pc = "stream" /\ OpsInv /\ OrderInv /\ ReceiptInv
      /\ pendingOffset \in Offset /\ cursor \in Entry \cup {0}
  BY DEF MaySaveOffset, Calls, BaseInv, ExactInv, TypeOK
<1> SUFFICES ASSUME NEW o \in loaded, ~IsMetadata(o), Covered(o, pendingOffset),
                    NEW e \in Range(batch[o])
             PROVE  receipts[e] = 0
  BY DEF ReplayComplete
<1>1. o \in Op /\ e \in Row /\ Off(e) <= SourceEnd(o) /\ SourceEnd(o) \in Nat
  BY <1>0, RowOps DEF TypeOK
<1>2. Off(e) <= pendingOffset
  <2>1. SourceEnd(o) <= pendingOffset
    BY DEF Covered
  <2>2. Off(e) \in Nat /\ pendingOffset \in Nat
    BY <1>0, <1>1, LogFacts
  <2> QED BY <1>1, <2>1, <2>2
<1>3. e <= cursor
  BY <1>0, <1>1, <1>2, LogFacts DEF OrderInv
<1>4. e \in Nat /\ cursor \in Nat
  BY <1>0, <1>1, LogFacts
<1>5. ~(e > cursor)
  BY <1>3, <1>4
<1> QED BY <1>0, <1>1, <1>5 DEF ReceiptInv, Streaming

(* The check of replayed identities before a checkpoint save never stops a  *)
(* job whose source delivers its binlog faithfully                          *)
(* (checkRecoveryReplayComplete).                                           *)
THEOREM ReplayIsComplete ==
  ASSUME MaxReconnects = 0
  PROVE  Spec => []ReplayNeverBlocks
<1>1. Init => ReplayNeverBlocks
  BY DEF Init, ReplayNeverBlocks
<1>2. TypeOK /\ BaseInv /\ ExactInv /\ ReplayNeverBlocks /\ [Next]_vars => ReplayNeverBlocks'
  <2> SUFFICES ASSUME TypeOK, BaseInv, ExactInv, ReplayNeverBlocks, [Next]_vars
               PROVE  ReplayNeverBlocks'
    OBVIOUS
  <2>1. ~OffsetBlocked
    BY ReplayCompletes DEF OffsetBlocked
  <2>2. blocked' \in {blocked, "no", "unproven"}
    <3>1. CASE StartRun \/ RecoverStep \/ DrainEnds \/ RunFails
      BY <3>1 DEF StartRun, RecoverStep, RecoverCovered, RecoverProven, RecoverWriteFails,
         RecoverRetry, RecoverBlocked, RecoverDone, DrainEnds, RunFails
    <3>2. CASE CatalogStep
      BY <3>2 DEF CatalogStep, CatalogAccepts, CatalogLoses, EvidenceExpired
    <3>3. CASE LoopStep
      BY <3>3 DEF LoopStep, TakeEvent, Tick, SourceEnds, SourceReconnect
    <3>4. CASE CommitStep
      BY <3>4 DEF CommitStep, AppendEvent, NothingToCommit, BeginCommit, BeginFails,
         CommitSucceeds, MarkFails, CommitRejected, RejectedDeleteFails, CommitUnknown,
         CommitProven, CommitUnproven
    <3>5. CASE OffsetStep
      BY <2>1, <3>5 DEF OffsetStep, OffsetNotSaved, OffsetSaved, OffsetSaveFails
    <3>6. CASE UNCHANGED vars
      BY <3>6 DEF vars
    <3> QED BY <3>1, <3>2, <3>3, <3>4, <3>5, <3>6 DEF Next
  <2> QED BY <2>2 DEF ReplayNeverBlocks
<1> QED BY ExactInductive, <1>1, <1>2, PTL DEF Spec

(* One step of the sink is one step of the contract, or none.               *)
LEMMA ContractStep ==
  ASSUME TypeOK, BusyOK, BaseInv, ExactInv, [Next]_vars, ~SourceReconnect
  PROVE  [C!CNext]_(C!contractVars)
<1>a. ckpt <= ckpt'
  <2>1. OrderInv
    BY DEF ExactInv
  <2> QED BY <2>1, OrderStep
<1>0. /\ OpsInv /\ CoverInv /\ OrderInv /\ OnceInv /\ TurnInv /\ ckpt <= ckpt'
      /\ inflight \subseteq Op /\ landed \subseteq Op
      /\ ckpt \in Nat /\ pendingOffset \in Offset /\ pendingOffset \in Nat
  <2>1. /\ OpsInv /\ CoverInv /\ OrderInv /\ OnceInv /\ TurnInv
    BY DEF BaseInv, ExactInv
  <2>2. /\ inflight \subseteq Op /\ landed \subseteq Op
        /\ ckpt \in Offset /\ pendingOffset \in Offset
    BY DEF TypeOK
  <2>3. ckpt <= ckpt'
    BY <1>a
  <2> QED BY <2>1, <2>2, <2>3, LogFacts
<1>1. CASE CatalogStep
  <2>1. PICK o \in Op : CatalogAccepts(o) \/ CatalogLoses(o) \/ EvidenceExpired(o)
    BY <1>1 DEF CatalogStep
  <2>2. CASE CatalogAccepts(o)
    <3> DEFINE B == Range(batch[o])
    <3>1. o \in inflight /\ landed' = landed \cup {o} /\ batch' = batch /\ ckpt' = ckpt
      BY <2>2 DEF CatalogAccepts, opVars, durableVars
    <3>2. Applied' = Applied \cup B
      BY <3>1 DEF Applied
    <3>3. B \cap Applied = {} /\ \A e \in B : Before(e) \subseteq Applied \cup B
      BY <1>0, <3>1 DEF OnceInv, TurnInv
    <3>4. B \in SUBSET Change
      BY <1>0, RowOps
    <3>5. B # {}
      <4>1. o < nextOp /\ nextOp \in Nat
        <5>1. o \in Nat /\ nextOp \in Nat
          BY DEF TypeOK, Op
        <5> QED BY <1>0, <3>1, <5>1 DEF OpsInv
      <4>2. batch[o] # <<>> /\ batch[o] \in Seq(Change)
        BY <1>0, <4>1 DEF OpsInv, TypeOK
      <4>3. batch[o][1] \in Range(batch[o])
        BY <4>2 DEF Range
      <4> QED BY <4>3
    <3> HIDE DEF B
    <3>6. C!Write(B)
      BY <3>1, <3>2, <3>3, <3>5 DEF C!Write, C!Before, Before, C!Change, Change, C!Row, Row,
         C!Ddl, Ddl, C!Entry, Entry, C!Target, Target
    <3>7. C!Change = Change
      BY DEF C!Change, Change, C!Row, Row, C!Ddl, Ddl, C!Entry, Entry
    <3> QED BY <3>4, <3>6, <3>7 DEF C!CNext
  <2>3. CASE CatalogLoses(o) \/ EvidenceExpired(o)
    BY <2>3 DEF CatalogLoses, EvidenceExpired, durableVars, opVars, Applied, C!contractVars
  <2> QED BY <2>1, <2>2, <2>3
<1>2. CASE ~CatalogStep
  <2>1. Applied' = Applied
    BY <1>0, <1>2, AppliedFacts
  <2>2. CASE ckpt' = ckpt
    BY <2>1, <2>2 DEF C!contractVars
  <2>3. CASE ckpt' # ckpt
    <3>1. MaySaveOffset /\ ckpt' = pendingOffset
      BY <2>3, OpWriters DEF OffsetSaved, OffsetSaveFails
    <3>2. ckpt < ckpt'
      BY <1>0, <2>3, <3>1
    <3>3. InMemory = {}
      BY <3>1 DEF MaySaveOffset, HasPending, PendingSources, InMemory, Range
    <3>4. Prefix(ckpt') \cap Change \subseteq Applied
      BY <1>0, <3>1, <3>3 DEF CoverInv, Prefix
    <3>5. C!Change = Change /\ C!Prefix(ckpt') = Prefix(ckpt') /\ C!Offset = Offset
      BY DEF C!Change, Change, C!Row, Row, C!Ddl, Ddl, C!Entry, Entry, C!Prefix, Prefix, C!Off,
         Off, C!Offset, Offset, C!Checkpoint, Checkpoint, C!NoOffset, NoOffset
    <3>6. C!Save(ckpt')
      BY <2>1, <3>2, <3>4, <3>5 DEF C!Save
    <3> QED BY <1>0, <3>1, <3>5, <3>6 DEF C!CNext
  <2> QED BY <2>2, <2>3
<1> QED BY <1>1, <1>2

(* The sink implements the contract it has with the tables: exactly once,   *)
(* in the order of each table, checkpoint forward and only over written     *)
(* changes.                                                                 *)
THEOREM ImplementsContract ==
  ASSUME MaxReconnects = 0
  PROVE  Spec => Contract
<1>1. Init => C!CInit
  BY DEF Init, Applied, C!CInit, C!NoOffset, NoOffset
<1>2. TypeOK /\ BusyOK /\ BaseInv /\ ExactInv /\ [Next]_vars => [C!CNext]_(C!contractVars)
  BY NoReconnect, ContractStep
<1> QED BY ExactInductive, <1>1, <1>2, PTL DEF Spec, Contract, C!Contract
=============================================================================
