------------------------ MODULE ScopedRebuildProofs ------------------------
(***************************************************************************)
(* Proofs about ScopedRebuild: for any tables, filters, source queries,    *)
(* targets, chunk sizes, numbers of runs, statements, submissions, updates *)
(* and failed saves, in both write modes and across the upgrade.           *)
(***************************************************************************)
EXTENDS ScopedRebuild, TLAPS, FiniteSetTheorems, SequenceTheorems

\* A statement or commit that may still act.
Active(o) == ops[o].engine \in {"unsent", "sent"}

\* Only the last one may.
LastActs == \A o \in DOMAIN ops : Active(o) => o = Current

\* What a run's recovery has settled acts no more.
VerifiedOK == \A o \in verified : ~Active(o)

\* A snapshot that is done is not copied.
SnapOK == snap = "done" => pc \in {"down", "recover", "complete", "cleanup", "done"}

\* A table is copied only after the start of the copy is saved.
CopyOK ==
  \/ pc \in {"barrier", "plan", "read", "write", "append", "ack", "complete",
             "cleanup", "done"}
  \/ pc = "exec" /\ ops[Current].do # "reset"
  => snap # "none"

\* The statement or commit that a run waits for is the last one.
ExecOK == pc = "exec" => Current \in DOMAIN ops /\ ops[Current].table = table

\* Only what has acted is confirmed.
ConfirmedOK ==
  \A o \in DOMAIN ops : ops[o].intent = "COMMITTED" => ops[o].engine = "finished"

\* Nothing is of a later submission.
EpochsOK == \A o \in DOMAIN ops : ops[o].epoch <= epoch

\* The scope of a table holds only what this submission has written.
Emptied(t) ==
  \A k \in Keys :
    target[t][k].n > 0 /\ InScope(t, k) => target[t][k].epoch = epoch

\* A reset of this submission that has acted.
ResetBy(o, t) ==
  /\ ops[o].do = "reset" /\ ops[o].epoch = epoch /\ ops[o].table = t
  /\ ops[o].engine = "finished"
HasReset(t) == \E o \in DOMAIN ops : ResetBy(o, t)

\* A table that a reset has emptied stays so.
ResetsOK == \A t \in Table : HasReset(t) => Emptied(t)

\* The preflight resets one table after the other.
Resetting == pc = "reset" \/ (pc = "exec" /\ ops[Current].do = "reset")
PreflightOK ==
  /\ pc \in {"down", "recover", "validate"} => table = 1
  /\ Resetting => \A t \in 1..(table - 1) : HasReset(t)
  /\ Resetting /\ pc = "exec" => ops[Current].epoch = epoch
  /\ pc = "start" => \A t \in Table : HasReset(t)

\* No target is of a later submission or newer than the source.
CellsOK ==
  \A t \in Table, k \in Keys :
    /\ target[t][k].epoch <= epoch
    /\ target[t][k].version <= version[t][k]

\* An image of a row that is not newer than the source and not older than what
\* this submission has written.
Fresh(t, k, v) ==
  /\ v <= version[t][k]
  /\ target[t][k].epoch = epoch => target[t][k].version <= v

ActiveFresh ==
  \A o \in DOMAIN ops : Active(o) =>
    \A k \in DOMAIN ops[o].rows : Fresh(ops[o].table, k, ops[o].rows[k])

\* What a run still has to write, and is writing, is its chunk.
Within(rows) == \A k \in DOMAIN rows : k \in DOMAIN chunk /\ rows[k] = chunk[k]
Copying == pc = "write" \/ (pc = "exec" /\ ops[Current].do # "reset")
ChunkOK ==
  Copying =>
    /\ \A i \in DOMAIN todo : Within(todo[i])
    /\ \A k \in DOMAIN chunk : Fresh(table, k, chunk[k])
    /\ pc = "exec" => Within(ops[Current].rows) /\ todo # <<>>

RebuildInv ==
  /\ TypeOK /\ NothingActsUnseen /\ LastActs /\ VerifiedOK /\ SnapOK
  /\ ExecOK /\ ConfirmedOK /\ EpochsOK /\ CopyOK /\ ResetsOK
  /\ PreflightOK /\ ScopeEmptied
  /\ CellsOK /\ ActiveFresh /\ ChunkOK

-----------------------------------------------------------------------------
(* Statements and commits *)

\* What a step does to the operations when it begins none: the ones that have
\* acted or failed stay so, the ones that may still act keep their intents.
QuietOps ==
  /\ ops' \in Seq(OpRecord) /\ Len(ops') = Len(ops)
  /\ DOMAIN ops' = DOMAIN ops
  /\ \A o \in DOMAIN ops :
       /\ ops'[o].do = ops[o].do /\ ops'[o].epoch = ops[o].epoch
       /\ ops'[o].table = ops[o].table /\ ops'[o].rows = ops[o].rows
       /\ ops'[o].lo = ops[o].lo
       /\ ~Active(o) => ops'[o].engine = ops[o].engine
       /\ Active(o)' => Active(o) /\ ops'[o].intent = ops[o].intent
       /\ ops'[o].intent = "COMMITTED" => ops'[o].engine = "finished"

\* One is begun.
BegunOps(do, rows) ==
  /\ ops' \in Seq(OpRecord) /\ Len(ops') = Len(ops) + 1 /\ Len(ops') <= MaxOps
  /\ Len(ops) \in Nat
  /\ DOMAIN ops' = DOMAIN ops \cup {Len(ops')} /\ Len(ops') \notin DOMAIN ops
  /\ \A o \in DOMAIN ops : ops'[o] = ops[o]
  /\ LET new == ops'[Len(ops')]
     IN  /\ new.do = do /\ new.rows = rows /\ new.table = table
         /\ new.epoch = epoch /\ new.intent = "PREPARED"
         /\ new.engine = "unsent"

(* Intents change, except those of what may still act.                     *)
LEMMA SettledQuiet ==
  ASSUME TypeOK, ConfirmedOK, NEW S, NEW st \in {"none", "COMMITTED"},
         ops' = SetIntents(S, st),
         \A o \in DOMAIN ops : o \in S => ~Active(o),
         st = "COMMITTED" => \A o \in DOMAIN ops : o \in S => ops[o].engine = "finished"
  PROVE  QuietOps
<1>1. ops \in Seq(OpRecord) /\ \A o \in DOMAIN ops : ops[o] \in OpRecord
  BY DEF TypeOK
<1>2. \A o \in DOMAIN ops :
        /\ [ops[o] EXCEPT !.intent = st] \in OpRecord
        /\ [ops[o] EXCEPT !.intent = st].engine = ops[o].engine
        /\ [ops[o] EXCEPT !.intent = st].do = ops[o].do
        /\ [ops[o] EXCEPT !.intent = st].epoch = ops[o].epoch
        /\ [ops[o] EXCEPT !.intent = st].table = ops[o].table
        /\ [ops[o] EXCEPT !.intent = st].rows = ops[o].rows
        /\ [ops[o] EXCEPT !.intent = st].lo = ops[o].lo
        /\ [ops[o] EXCEPT !.intent = st].intent = st
  <2> SUFFICES ASSUME NEW o \in DOMAIN ops
               PROVE  LET new == [ops[o] EXCEPT !.intent = st]
                      IN  /\ new \in OpRecord /\ new.engine = ops[o].engine
                          /\ new.do = ops[o].do /\ new.epoch = ops[o].epoch
                          /\ new.table = ops[o].table /\ new.rows = ops[o].rows
                          /\ new.lo = ops[o].lo /\ new.intent = st
    OBVIOUS
  <2>1. ops[o] \in OpRecord
    BY <1>1
  <2> QED
    BY <2>1 DEF OpRecord
<1>3. ops' = [o \in DOMAIN ops |-> IF o \in S THEN [ops[o] EXCEPT !.intent = st]
                                   ELSE ops[o]]
  BY DEF SetIntents
<1>4. ops' \in Seq(OpRecord) /\ Len(ops') = Len(ops) /\ DOMAIN ops' = DOMAIN ops
  BY <1>1, <1>2, <1>3
<1> QED
  BY <1>2, <1>3, <1>4 DEF QuietOps, Active, ConfirmedOK

(* The engine works on one, or the identity of its query is stored.        *)
LEMMA EngineQuiet ==
  ASSUME TypeOK, ConfirmedOK, NothingActsUnseen, NEW o \in DOMAIN ops,
         \/ Active(o) /\ \E e \in {"sent", "finished", "failed"} :
              ops' = [ops EXCEPT ![o].engine = e]
         \/ ops' = [ops EXCEPT ![o].query = TRUE]
  PROVE  QuietOps
<1>1. ops \in Seq(OpRecord) /\ \A p \in DOMAIN ops : ops[p] \in OpRecord
  BY DEF TypeOK
<1>a. ops[o] \in OpRecord
  BY <1>1
<1>2. PICK new \in OpRecord :
        /\ ops' = [ops EXCEPT ![o] = new]
        /\ new.do = ops[o].do /\ new.epoch = ops[o].epoch
        /\ new.table = ops[o].table /\ new.rows = ops[o].rows
        /\ new.intent = ops[o].intent /\ new.lo = ops[o].lo
        /\ new.engine = ops[o].engine \/ Active(o)
  <2>1. CASE Active(o) /\ \E e \in {"sent", "finished", "failed"} :
               ops' = [ops EXCEPT ![o].engine = e]
    <3>1. PICK e \in {"sent", "finished", "failed"} :
                 ops' = [ops EXCEPT ![o].engine = e]
      BY <2>1
    <3> DEFINE new == [ops[o] EXCEPT !.engine = e]
    <3>2. new \in OpRecord /\ new.do = ops[o].do /\ new.epoch = ops[o].epoch
          /\ new.table = ops[o].table /\ new.rows = ops[o].rows
          /\ new.intent = ops[o].intent /\ new.lo = ops[o].lo
      BY <1>a DEF OpRecord
    <3> QED
      BY <2>1, <3>1, <3>2
  <2>2. CASE ops' = [ops EXCEPT ![o].query = TRUE]
    <3> DEFINE new == [ops[o] EXCEPT !.query = TRUE]
    <3>1. new \in OpRecord /\ new.do = ops[o].do /\ new.epoch = ops[o].epoch
          /\ new.table = ops[o].table /\ new.rows = ops[o].rows
          /\ new.intent = ops[o].intent /\ new.engine = ops[o].engine
          /\ new.lo = ops[o].lo
      BY <1>a DEF OpRecord
    <3> QED
      BY <2>2, <3>1
  <2> QED
    BY <2>1, <2>2
<1>3. ops' \in Seq(OpRecord) /\ Len(ops') = Len(ops) /\ DOMAIN ops' = DOMAIN ops
      /\ ops'[o] = new /\ \A p \in DOMAIN ops : p # o => ops'[p] = ops[p]
  BY <1>1, <1>2
<1>4. Active(o) => ops[o].intent = "PREPARED"
  BY DEF NothingActsUnseen, Active
<1>5. \A p \in DOMAIN ops : ops[p].intent = "COMMITTED" => ops[p].engine = "finished"
  BY DEF ConfirmedOK
<1>6. \A p \in DOMAIN ops : Active(p)' <=> ops'[p].engine \in {"unsent", "sent"}
  BY DEF Active
<1> QED
  BY <1>2, <1>3, <1>4, <1>5, <1>6 DEF QuietOps, Active

(* Nothing happens to the operations.                                      *)
LEMMA SameQuiet ==
  ASSUME TypeOK, ConfirmedOK, ops' = ops
  PROVE  QuietOps
BY DEF QuietOps, TypeOK, ConfirmedOK, Active

(* One is begun under an open intent, before the request.                  *)
LEMMA BeginBegun ==
  ASSUME TypeOK, NEW do \in {"reset", "merge", "append", "replace"},
         NEW lo \in Nat, NEW rows \in Images, Begin(do, table, lo, rows)
  PROVE  BegunOps(do, rows) /\ ops'[Len(ops')].lo = lo
<1> DEFINE new == [epoch |-> epoch, table |-> table, do |-> do, lo |-> lo,
                   rows |-> rows, intent |-> "PREPARED", query |-> FALSE,
                   engine |-> "unsent"]
<1>1. new \in OpRecord
  BY DEF OpRecord, TypeOK
<1>2. /\ new.do = do /\ new.rows = rows /\ new.table = table
      /\ new.epoch = epoch /\ new.intent = "PREPARED" /\ new.engine = "unsent"
      /\ new.lo = lo
  OBVIOUS
<1>3. ops' = Append(ops, new) /\ Len(ops) < MaxOps /\ ops \in Seq(OpRecord)
      /\ MaxOps \in Nat
  BY RebuildAssumption DEF Begin, TypeOK
<1> HIDE DEF new
<1>4. /\ ops' \in Seq(OpRecord) /\ Len(ops') = Len(ops) + 1 /\ Len(ops) \in Nat
      /\ DOMAIN ops' = 1..(Len(ops) + 1) /\ DOMAIN ops = 1..Len(ops)
      /\ ops'[Len(ops) + 1] = new /\ \A o \in DOMAIN ops : ops'[o] = ops[o]
  BY <1>1, <1>3
<1> QED
  BY <1>2, <1>3, <1>4 DEF BegunOps

\* The parts of the invariant about what may still act.
UnseenInv ==
  /\ NothingActsUnseen /\ LastActs /\ VerifiedOK /\ SnapOK /\ ExecOK
  /\ ConfirmedOK /\ EpochsOK

\* The steps that begin a statement or a commit.
BegunReset == pc = "reset" /\ BegunOps("reset", Nothing)
BegunRows ==
  /\ pc = "write" /\ todo # <<>> /\ ops'[Len(ops')].lo = at
  /\ \E do \in {"merge", "append", "replace"} :
       /\ BegunOps(do, Head(todo))
       /\ do = "merge" <=> mode = "merge"
       /\ do = "append" /\ LooksUp => BeforeImages = {}
Begun ==
  /\ BegunReset \/ BegunRows
  /\ pc' = "exec"
  /\ UNCHANGED <<version, edited, mode, epoch, snap, progress, target, run,
                 table, at, chunk, todo, applied, verified, legacy, receipts,
                 again>>

(* A step begins one statement or commit, or none.                         *)
LEMMA OpsStep ==
  ASSUME TypeOK, UnseenInv,
         [Next]_vars
  PROVE  QuietOps \/ Begun
<1>0. /\ Nothing \in Images /\ 0 \in Nat /\ at \in Nat
      /\ todo # <<>> => Head(todo) \in Images
  <2>1. Nothing \in [{} -> 0..MaxEdits]
    BY DEF Nothing
  <2>2. Nothing \in Images
    BY <2>1 DEF Images
  <2> QED
    BY <2>2 DEF TypeOK
<1>1. ASSUME NEW row \in Changing, Edit(row[1], row[2])
      PROVE  QuietOps \/ Begun
  BY <1>1, SameQuiet DEF Edit, durableVars, memoryVars, UnseenInv
<1>2. ASSUME NEW o \in DOMAIN ops, Send(o)
      PROVE  QuietOps \/ Begun
  BY <1>2, EngineQuiet DEF Send, Active, UnseenInv
<1>3. ASSUME NEW o \in DOMAIN ops, Finish(o)
      PROVE  QuietOps \/ Begun
  BY <1>3, EngineQuiet DEF Finish, Active, UnseenInv
<1>4. ASSUME NEW o \in DOMAIN ops, Fail(o)
      PROVE  QuietOps \/ Begun
  BY <1>4, EngineQuiet DEF Fail, Active, UnseenInv
<1>5. ASSUME NEW o \in DOMAIN ops, RecoverStatement(o)
      PROVE  QuietOps \/ Begun
  <2> DEFINE S == {o}
             st == IF snap = "done" THEN "none" ELSE "COMMITTED"
  <2>1. /\ ops' = SetIntents(S, st) /\ st \in {"none", "COMMITTED"}
        /\ \A p \in DOMAIN ops : p \in S => ~Active(p)
        /\ st = "COMMITTED" => \A p \in DOMAIN ops : p \in S => ops[p].engine = "finished"
    BY <1>5 DEF RecoverStatement, Confirmable, UnseenInv, ConfirmedOK, Active
  <2> HIDE DEF S, st
  <2> QED
    BY <2>1, SettledQuiet DEF UnseenInv
<1>6. ASSUME NEW o \in DOMAIN ops, RecoverCommit(o)
      PROVE  QuietOps \/ Begun
  <2>1. PICK st \in {"none", "COMMITTED"} :
          /\ ops' = SetIntents({o}, st) /\ ~Active(o)
          /\ st = "COMMITTED" => ops[o].engine = "finished"
    BY <1>6 DEF RecoverCommit, UnseenInv, ConfirmedOK, Active
  <2> QED
    BY <2>1, SettledQuiet DEF UnseenInv
<1>7. ASSUME NEW o \in DOMAIN ops, CleanupIntent(o)
      PROVE  QuietOps \/ Begun
  <2> DEFINE S == {o}
             st == "none"
  <2>1. /\ ops' = SetIntents(S, st) /\ st \in {"none", "COMMITTED"}
        /\ \A p \in DOMAIN ops : p \in S => ~Active(p)
        /\ st = "COMMITTED" => \A p \in DOMAIN ops : p \in S => ops[p].engine = "finished"
    BY <1>7 DEF CleanupIntent, UnseenInv, ConfirmedOK, Active
  <2> HIDE DEF S, st
  <2> QED
    BY <2>1, SettledQuiet DEF UnseenInv
<1>8. ASSUME StartRun
      PROVE  QuietOps \/ Begun
  BY <1>8, SameQuiet
     DEF StartRun, Goto, sourceVars, durableVars, memoryVars, UnseenInv
<1>9. ASSUME UpgradeJobNativeRebuild
      PROVE  QuietOps \/ Begun
  BY <1>9, SameQuiet
     DEF UpgradeJobNativeRebuild, sourceVars, memoryVars, UnseenInv
<1>10. ASSUME RequestJobRebuild
       PROVE  QuietOps \/ Begun
  <2>1. ops' = SetIntents(Intents, "none") /\ \A o \in Intents : ops[o].intent = "COMMITTED"
    BY <1>10 DEF RequestJobRebuild, Settled
  <2>2. \A o \in DOMAIN ops : o \in Intents => ~Active(o)
    BY <2>1 DEF UnseenInv, ConfirmedOK, Active
  <2> QED
    BY <2>1, <2>2, SettledQuiet DEF UnseenInv
<1>11. ASSUME RecoverDone
       PROVE  QuietOps \/ Begun
  BY <1>11, SameQuiet
     DEF RecoverDone, Goto, sourceVars, durableVars, memoryVars, UnseenInv
<1>12. ASSUME RecordIcebergTrinoQuery
       PROVE  QuietOps \/ Begun
  BY <1>12, EngineQuiet DEF RecordIcebergTrinoQuery, UnseenInv, ExecOK
<1>13. ASSUME ValidateSnapshotSourceTables
       PROVE  QuietOps \/ Begun
  BY <1>13, SameQuiet
     DEF ValidateSnapshotSourceTables, Goto, sourceVars, durableVars,
         memoryVars, UnseenInv
<1>14. ASSUME ResetIssued
       PROVE  QuietOps \/ Begun
  <2>1. PICK o \in DOMAIN ops :
          ops' = SetIntents({o}, "COMMITTED") /\ ops[o].engine = "finished"
    BY <1>14 DEF ResetIssued, StatementConfirmed, Issued, Intents, Confirmable,
       UnseenInv, ConfirmedOK
  <2> QED
    BY <2>1, SettledQuiet DEF UnseenInv, Active
<1>15. ASSUME ResetSnapshotSourceTable
       PROVE  QuietOps \/ Begun
  <2>1. pc = "reset" /\ Begin("reset", table, 0, Nothing) /\ pc' = "exec"
    BY <1>15 DEF ResetSnapshotSourceTable, Begin, Goto
  <2>2. BegunOps("reset", Nothing)
    BY <1>0, <2>1, BeginBegun
  <2> QED
    BY <1>15, <2>1, <2>2
       DEF Begun, BegunReset, ResetSnapshotSourceTable, sourceVars, durableVars,
           memoryVars
<1>16. ASSUME ResetFinished
       PROVE  QuietOps \/ Begun
  <2> DEFINE S == {Current}
             st == "COMMITTED"
  <2>1. /\ ops' = SetIntents(S, st) /\ st \in {"none", "COMMITTED"}
        /\ \A p \in DOMAIN ops : p \in S => ~Active(p)
        /\ st = "COMMITTED" => \A p \in DOMAIN ops : p \in S => ops[p].engine = "finished"
    BY <1>16 DEF ResetFinished, Confirmable, UnseenInv, ConfirmedOK, Active
  <2> HIDE DEF S, st
  <2> QED
    BY <2>1, SettledQuiet DEF UnseenInv
<1>17. ASSUME SaveSnapshotStart
       PROVE  QuietOps \/ Begun
  BY <1>17, SameQuiet DEF SaveSnapshotStart, Goto, memoryVars, UnseenInv
<1>18. ASSUME SnapshotStart
       PROVE  QuietOps \/ Begun
  BY <1>18, SameQuiet
     DEF SnapshotStart, Goto, sourceVars, durableVars, UnseenInv
<1>19. ASSUME PlanTables
       PROVE  QuietOps \/ Begun
  BY <1>19, SameQuiet
     DEF PlanTables, Goto, sourceVars, durableVars, memoryVars, UnseenInv
<1>20. ASSUME ReadChunk
       PROVE  QuietOps \/ Begun
  BY <1>20, SameQuiet DEF ReadChunk, Goto, sourceVars, durableVars, UnseenInv
<1>21. ASSUME TableCopied
       PROVE  QuietOps \/ Begun
  BY <1>21, SameQuiet
     DEF TableCopied, Goto, sourceVars, durableVars, memoryVars, UnseenInv
<1>22. ASSUME BatchWritten
       PROVE  QuietOps \/ Begun
  BY <1>22, SameQuiet
     DEF BatchWritten, Goto, sourceVars, durableVars, memoryVars, UnseenInv
<1>23. ASSUME MergeIssued
       PROVE  QuietOps \/ Begun
  <2>1. PICK o \in DOMAIN ops :
          ops' = SetIntents({o}, "COMMITTED") /\ ops[o].engine = "finished"
    BY <1>23 DEF MergeIssued, StatementConfirmed, Issued, Intents, Confirmable,
       UnseenInv, ConfirmedOK
  <2> QED
    BY <2>1, SettledQuiet DEF UnseenInv, Active
<1>24. ASSUME MergeRows
       PROVE  QuietOps \/ Begun
  <2>1. PICK do \in {"merge", "append", "replace"} :
          /\ pc = "write" /\ todo # <<>> /\ Begin(do, table, at, Head(todo))
          /\ pc' = "exec" /\ do = "merge" /\ mode = "merge"
    BY <1>24 DEF MergeRows, Begin, Goto
  <2>2. Head(todo) \in Images
    BY <1>0, <2>1
  <2>3. BegunOps(do, Head(todo)) /\ ops'[Len(ops')].lo = at
    BY <1>0, <2>1, <2>2, BeginBegun
  <2> QED
    BY <1>24, <2>1, <2>3
       DEF Begun, BegunRows, MergeRows, sourceVars, durableVars, memoryVars
<1>25. ASSUME MergeFinished
       PROVE  QuietOps \/ Begun
  <2> DEFINE S == {Current}
             st == "COMMITTED"
  <2>1. /\ ops' = SetIntents(S, st) /\ st \in {"none", "COMMITTED"}
        /\ \A p \in DOMAIN ops : p \in S => ~Active(p)
        /\ st = "COMMITTED" => \A p \in DOMAIN ops : p \in S => ops[p].engine = "finished"
    BY <1>25 DEF MergeFinished, Confirmable, UnseenInv, ConfirmedOK, Active
  <2> HIDE DEF S, st
  <2> QED
    BY <2>1, SettledQuiet DEF UnseenInv
<1>26. ASSUME CommitRows
       PROVE  QuietOps \/ Begun
  <2>1. PICK do \in {"merge", "append", "replace"} :
          /\ pc = "write" /\ todo # <<>> /\ Begin(do, table, at, Head(todo))
          /\ pc' = "exec" /\ do # "merge" /\ mode = "native"
          /\ do = "append" /\ LooksUp => BeforeImages = {}
    BY <1>26 DEF CommitRows, Begin, Goto, Replacement
  <2>2. Head(todo) \in Images
    BY <1>0, <2>1
  <2>3. BegunOps(do, Head(todo)) /\ ops'[Len(ops')].lo = at
    BY <1>0, <2>1, <2>2, BeginBegun
  <2> QED
    BY <1>26, <2>1, <2>3
       DEF Begun, BegunRows, CommitRows, sourceVars, durableVars, memoryVars
<1>27. ASSUME CommitAccepted
       PROVE  QuietOps \/ Begun
  <2> DEFINE S == {Current}
             st == "COMMITTED"
  <2>1. /\ ops' = SetIntents(S, st) /\ st \in {"none", "COMMITTED"}
        /\ \A p \in DOMAIN ops : p \in S => ~Active(p)
        /\ st = "COMMITTED" => \A p \in DOMAIN ops : p \in S => ops[p].engine = "finished"
    BY <1>27 DEF CommitAccepted, UnseenInv, ConfirmedOK, Active
  <2> HIDE DEF S, st
  <2> QED
    BY <2>1, SettledQuiet DEF UnseenInv
<1>28. ASSUME CommitRejected
       PROVE  QuietOps \/ Begun
  <2> DEFINE S == {Current}
             st == "none"
  <2>1. /\ ops' = SetIntents(S, st) /\ st \in {"none", "COMMITTED"}
        /\ \A p \in DOMAIN ops : p \in S => ~Active(p)
        /\ st = "COMMITTED" => \A p \in DOMAIN ops : p \in S => ops[p].engine = "finished"
    BY <1>28 DEF CommitRejected, UnseenInv, ConfirmedOK, Active
  <2> HIDE DEF S, st
  <2> QED
    BY <2>1, SettledQuiet DEF UnseenInv
<1>29. ASSUME Acknowledged
       PROVE  QuietOps \/ Begun
  <2> DEFINE S == Accounted
             st == "none"
  <2>1. /\ ops' = SetIntents(S, st) /\ st \in {"none", "COMMITTED"}
        /\ \A p \in DOMAIN ops : p \in S => ~Active(p)
        /\ st = "COMMITTED" => \A p \in DOMAIN ops : p \in S => ops[p].engine = "finished"
    BY <1>29 DEF Acknowledged, Accounted, UnseenInv, ConfirmedOK, Active
  <2> HIDE DEF S, st
  <2> QED
    BY <2>1, SettledQuiet DEF UnseenInv
<1>30. ASSUME SourceRetry
       PROVE  QuietOps \/ Begun
  BY <1>30, SameQuiet DEF SourceRetry, Goto, sourceVars, durableVars, UnseenInv
<1>31. ASSUME ConfirmCompletion
       PROVE  QuietOps \/ Begun
  BY <1>31, SameQuiet
     DEF ConfirmCompletion, Goto, sourceVars, memoryVars, UnseenInv
<1>32. ASSUME Copied
       PROVE  QuietOps \/ Begun
  BY <1>32, SameQuiet DEF Copied, Goto, sourceVars, memoryVars, UnseenInv
<1>33. ASSUME RunEnds
       PROVE  QuietOps \/ Begun
  BY <1>33, SameQuiet DEF RunEnds, EndRun, sourceVars, durableVars, UnseenInv
<1>34. ASSUME UNCHANGED vars
       PROVE  QuietOps \/ Begun
  BY <1>34, SameQuiet DEF vars, UnseenInv
<1> QED
  BY <1>1, <1>2, <1>3, <1>4, <1>5, <1>6, <1>7, <1>8, <1>9, <1>10, <1>11,
     <1>12, <1>13, <1>14, <1>15, <1>16, <1>17, <1>18, <1>19, <1>20, <1>21,
     <1>22, <1>23, <1>24, <1>25, <1>26, <1>27, <1>28, <1>29, <1>30, <1>31,
     <1>32, <1>33, <1>34 DEF Next

(* Epochs are numbers.                                                     *)
LEMMA EpochNumbers ==
  ASSUME TypeOK
  PROVE  epoch \in Nat /\ \A o \in DOMAIN ops : ops[o].epoch \in Nat
<1>1. epoch \in Nat /\ \A o \in DOMAIN ops : ops[o] \in OpRecord
  BY RebuildAssumption DEF TypeOK
<1>2. \A op \in OpRecord : op.epoch \in Nat
  BY RebuildAssumption DEF OpRecord
<1> QED
  BY <1>1, <1>2

\* What a step that begins none does to the rest.
Moved ==
  /\ \/ \A o \in DOMAIN ops : ~Active(o)
     \/ /\ epoch' = epoch
        /\ snap' = "done" => snap = "done"
        /\ pc' \in {"down", "recover", pc}
  /\ \A o \in verified' : o \in DOMAIN ops /\ ~Active(o)
  /\ snap' = "done" => pc' \in {"down", "recover", "complete", "cleanup", "done"}
  /\ pc' = "exec" => pc = "exec" /\ table' = table
  /\ epoch' \in {epoch, epoch + 1}

(* A step that is in the way of what may still act leaves it open.         *)
LEMMA MoveStep ==
  ASSUME TypeOK, UnseenInv,
         [Next]_vars
  PROVE  Moved \/ Len(ops') # Len(ops)
<1>0. verified \subseteq DOMAIN ops /\ epoch \in Nat
      /\ ops \in Seq(OpRecord)
  BY RebuildAssumption DEF TypeOK
<1>1. ASSUME NEW row \in Changing, Edit(row[1], row[2])
      PROVE  Moved \/ Len(ops') # Len(ops)
  BY <1>1, <1>0
     DEF Edit, durableVars, memoryVars, Moved, UnseenInv, NothingActsUnseen,
         VerifiedOK, SnapOK, ExecOK, Active
<1>2. ASSUME NEW o \in DOMAIN ops, Send(o)
      PROVE  Moved \/ Len(ops') # Len(ops)
  BY <1>2, <1>0
     DEF Send, sourceVars, durableVars, memoryVars, Moved, UnseenInv,
         NothingActsUnseen, VerifiedOK, SnapOK, ExecOK, Active
<1>3. ASSUME NEW o \in DOMAIN ops, Finish(o)
      PROVE  Moved \/ Len(ops') # Len(ops)
  BY <1>3, <1>0
     DEF Finish, sourceVars, durableVars, memoryVars, Moved, UnseenInv,
         NothingActsUnseen, VerifiedOK, SnapOK, ExecOK, Active
<1>4. ASSUME NEW o \in DOMAIN ops, Fail(o)
      PROVE  Moved \/ Len(ops') # Len(ops)
  BY <1>4, <1>0
     DEF Fail, sourceVars, durableVars, memoryVars, Moved, UnseenInv,
         NothingActsUnseen, VerifiedOK, SnapOK, ExecOK, Active
<1>5. ASSUME NEW o \in DOMAIN ops, RecoverStatement(o)
      PROVE  Moved \/ Len(ops') # Len(ops)
  BY <1>5, <1>0
     DEF RecoverStatement, sourceVars, durableVars, Moved, UnseenInv,
         NothingActsUnseen, VerifiedOK, SnapOK, ExecOK, Active, Confirmable,
         ConfirmedOK, TypeOK
<1>6. ASSUME NEW o \in DOMAIN ops, RecoverCommit(o)
      PROVE  Moved \/ Len(ops') # Len(ops)
  BY <1>6, <1>0
     DEF RecoverCommit, sourceVars, durableVars, Moved, UnseenInv,
         NothingActsUnseen, VerifiedOK, SnapOK, ExecOK, Active, ConfirmedOK,
         TypeOK
<1>7. ASSUME NEW o \in DOMAIN ops, CleanupIntent(o)
      PROVE  Moved \/ Len(ops') # Len(ops)
  BY <1>7, <1>0
     DEF CleanupIntent, sourceVars, durableVars, memoryVars, Moved, UnseenInv,
         NothingActsUnseen, VerifiedOK, SnapOK, ExecOK, Active
<1>8. ASSUME StartRun
      PROVE  Moved \/ Len(ops') # Len(ops)
  BY <1>8, <1>0
     DEF StartRun, Goto, sourceVars, durableVars, memoryVars, Moved,
         UnseenInv, NothingActsUnseen, VerifiedOK, SnapOK, ExecOK, Active
<1>9. ASSUME UpgradeJobNativeRebuild
      PROVE  Moved \/ Len(ops') # Len(ops)
  BY <1>9, <1>0
     DEF UpgradeJobNativeRebuild, sourceVars, memoryVars, Moved, UnseenInv,
         NothingActsUnseen, VerifiedOK, SnapOK, ExecOK, Active
<1>10. ASSUME RequestJobRebuild
       PROVE  Moved \/ Len(ops') # Len(ops)
  BY <1>10, <1>0
     DEF RequestJobRebuild, sourceVars, memoryVars, Moved, UnseenInv,
         NothingActsUnseen, VerifiedOK, SnapOK, ExecOK, Active
<1>11. ASSUME RecoverDone
       PROVE  Moved \/ Len(ops') # Len(ops)
  <2>1. \A o \in DOMAIN ops : ~Active(o)
    BY <1>11
       DEF RecoverDone, AllVerified, Intents, UnseenInv, NothingActsUnseen,
       VerifiedOK, Active
  <2>2. snap' = "done" => pc' = "complete"
    BY <1>11 DEF RecoverDone, Goto, durableVars
  <2>3. pc' \in {"validate", "barrier", "complete"}
    BY <1>11 DEF RecoverDone, Goto, TypeOK
  <2> QED
    BY <1>11, <1>0, <2>1, <2>2, <2>3
       DEF RecoverDone, durableVars, memoryVars, Moved
<1>12. ASSUME RecordIcebergTrinoQuery
       PROVE  Moved \/ Len(ops') # Len(ops)
  BY <1>12, <1>0
     DEF RecordIcebergTrinoQuery, sourceVars, durableVars, memoryVars, Moved,
         UnseenInv, NothingActsUnseen, VerifiedOK, SnapOK, ExecOK, Active
<1>13. ASSUME ValidateSnapshotSourceTables
       PROVE  Moved \/ Len(ops') # Len(ops)
  BY <1>13, <1>0
     DEF ValidateSnapshotSourceTables, Goto, sourceVars, durableVars,
         memoryVars, Moved, UnseenInv, NothingActsUnseen, VerifiedOK, SnapOK,
         ExecOK, Active
<1>14. ASSUME ResetIssued
       PROVE  Moved \/ Len(ops') # Len(ops)
  BY <1>14, <1>0
     DEF ResetIssued, ResetApplied, Goto, sourceVars, durableVars, Moved,
         UnseenInv, NothingActsUnseen, VerifiedOK, SnapOK, ExecOK, Active
<1>15. ASSUME ResetSnapshotSourceTable
       PROVE  Moved \/ Len(ops') # Len(ops)
  <2>1. PICK new : ops' = Append(ops, new)
    BY <1>15 DEF ResetSnapshotSourceTable, Begin
  <2> QED
    BY <1>0, <2>1
<1>16. ASSUME ResetFinished
       PROVE  Moved \/ Len(ops') # Len(ops)
  BY <1>16, <1>0
     DEF ResetFinished, ResetApplied, Goto, sourceVars, durableVars, Moved,
         UnseenInv, NothingActsUnseen, VerifiedOK, SnapOK, ExecOK, Active,
         Confirmable
<1>17. ASSUME SaveSnapshotStart
       PROVE  Moved \/ Len(ops') # Len(ops)
  BY <1>17, <1>0
     DEF SaveSnapshotStart, Goto, memoryVars, Moved, UnseenInv,
         NothingActsUnseen, VerifiedOK, SnapOK, ExecOK, Active
<1>18. ASSUME SnapshotStart
       PROVE  Moved \/ Len(ops') # Len(ops)
  BY <1>18, <1>0
     DEF SnapshotStart, Goto, sourceVars, durableVars, Moved, UnseenInv,
         NothingActsUnseen, VerifiedOK, SnapOK, ExecOK, Active
<1>19. ASSUME PlanTables
       PROVE  Moved \/ Len(ops') # Len(ops)
  BY <1>19, <1>0
     DEF PlanTables, Goto, sourceVars, durableVars, memoryVars, Moved,
         UnseenInv, NothingActsUnseen, VerifiedOK, SnapOK, ExecOK, Active
<1>20. ASSUME ReadChunk
       PROVE  Moved \/ Len(ops') # Len(ops)
  BY <1>20, <1>0
     DEF ReadChunk, Goto, sourceVars, durableVars, Moved, UnseenInv,
         NothingActsUnseen, VerifiedOK, SnapOK, ExecOK, Active
<1>21. ASSUME TableCopied
       PROVE  Moved \/ Len(ops') # Len(ops)
  BY <1>21, <1>0
     DEF TableCopied, Goto, sourceVars, durableVars, memoryVars, Moved,
         UnseenInv, NothingActsUnseen, VerifiedOK, SnapOK, ExecOK, Active
<1>22. ASSUME BatchWritten
       PROVE  Moved \/ Len(ops') # Len(ops)
  BY <1>22, <1>0
     DEF BatchWritten, Goto, sourceVars, durableVars, memoryVars, Moved,
         UnseenInv, NothingActsUnseen, VerifiedOK, SnapOK, ExecOK, Active
<1>23. ASSUME MergeIssued
       PROVE  Moved \/ Len(ops') # Len(ops)
  BY <1>23, <1>0
     DEF MergeIssued, sourceVars, durableVars, Moved, UnseenInv,
         NothingActsUnseen, VerifiedOK, SnapOK, ExecOK, Active
<1>24. ASSUME MergeRows
       PROVE  Moved \/ Len(ops') # Len(ops)
  <2>1. PICK new : ops' = Append(ops, new)
    BY <1>24 DEF MergeRows, Begin
  <2> QED
    BY <1>0, <2>1
<1>25. ASSUME MergeFinished
       PROVE  Moved \/ Len(ops') # Len(ops)
  BY <1>25, <1>0
     DEF MergeFinished, Goto, sourceVars, durableVars, Moved, UnseenInv,
         NothingActsUnseen, VerifiedOK, SnapOK, ExecOK, Active, Confirmable
<1>26. ASSUME CommitRows
       PROVE  Moved \/ Len(ops') # Len(ops)
  <2>1. PICK new : ops' = Append(ops, new)
    BY <1>26 DEF CommitRows, Begin
  <2> QED
    BY <1>0, <2>1
<1>27. ASSUME CommitAccepted
       PROVE  Moved \/ Len(ops') # Len(ops)
  BY <1>27, <1>0
     DEF CommitAccepted, Goto, sourceVars, durableVars, Moved, UnseenInv,
         NothingActsUnseen, VerifiedOK, SnapOK, ExecOK, Active
<1>28. ASSUME CommitRejected
       PROVE  Moved \/ Len(ops') # Len(ops)
  BY <1>28, <1>0
     DEF CommitRejected, Goto, sourceVars, durableVars, memoryVars, Moved,
         UnseenInv, NothingActsUnseen, VerifiedOK, SnapOK, ExecOK, Active
<1>29. ASSUME Acknowledged
       PROVE  Moved \/ Len(ops') # Len(ops)
  BY <1>29, <1>0
     DEF Acknowledged, Goto, sourceVars, Moved, UnseenInv, NothingActsUnseen,
         VerifiedOK, SnapOK, ExecOK, Active
<1>30. ASSUME SourceRetry
       PROVE  Moved \/ Len(ops') # Len(ops)
  BY <1>30, <1>0
     DEF SourceRetry, Goto, sourceVars, durableVars, Moved, UnseenInv,
         NothingActsUnseen, VerifiedOK, SnapOK, ExecOK, Active
<1>31. ASSUME ConfirmCompletion
       PROVE  Moved \/ Len(ops') # Len(ops)
  BY <1>31, <1>0
     DEF ConfirmCompletion, Goto, sourceVars, memoryVars, Moved, UnseenInv,
         NothingActsUnseen, VerifiedOK, SnapOK, ExecOK, Active
<1>32. ASSUME Copied
       PROVE  Moved \/ Len(ops') # Len(ops)
  BY <1>32, <1>0
     DEF Copied, Goto, sourceVars, memoryVars, Moved, UnseenInv,
         NothingActsUnseen, VerifiedOK, SnapOK, ExecOK, Active
<1>33. ASSUME RunEnds
       PROVE  Moved \/ Len(ops') # Len(ops)
  BY <1>33, <1>0
     DEF RunEnds, EndRun, sourceVars, durableVars, Moved, UnseenInv,
         NothingActsUnseen, VerifiedOK, SnapOK, ExecOK, Active
<1>34. ASSUME UNCHANGED vars
       PROVE  Moved \/ Len(ops') # Len(ops)
  BY <1>34, <1>0
     DEF vars, sourceVars, durableVars, memoryVars, Moved, UnseenInv,
     NothingActsUnseen, VerifiedOK, SnapOK, ExecOK, Active
<1> QED
  BY <1>1, <1>2, <1>3, <1>4, <1>5, <1>6, <1>7, <1>8, <1>9, <1>10, <1>11,
     <1>12, <1>13, <1>14, <1>15, <1>16, <1>17, <1>18, <1>19, <1>20, <1>21,
     <1>22, <1>23, <1>24, <1>25, <1>26, <1>27, <1>28, <1>29, <1>30, <1>31,
     <1>32, <1>33, <1>34 DEF Next

(* What may still act keeps an open intent, in every step.                 *)
LEMMA UnseenStep ==
  ASSUME TypeOK, UnseenInv, [Next]_vars
  PROVE  UnseenInv'
<1>1. CASE Begun
  <2>1. PICK do, rows : BegunOps(do, rows)
    BY <1>1 DEF Begun, BegunReset, BegunRows
  <2>2. /\ pc \in {"reset", "write"} /\ pc' = "exec" /\ epoch' = epoch
        /\ snap' = snap /\ table' = table /\ verified' = verified
    BY <1>1 DEF Begun, BegunReset, BegunRows
  <2>3. \A o \in DOMAIN ops : ~Active(o)
    BY <2>2 DEF UnseenInv, NothingActsUnseen, Active
  <2>4. snap # "done"
    BY <2>2 DEF UnseenInv, SnapOK
  <2>5. /\ DOMAIN ops' = DOMAIN ops \cup {Len(ops')}
        /\ \A o \in DOMAIN ops : ops'[o] = ops[o]
        /\ ops'[Len(ops')].intent = "PREPARED" /\ ops'[Len(ops')].epoch = epoch
        /\ ops'[Len(ops')].table = table
    BY <2>1 DEF BegunOps
  <2>6. \A o \in DOMAIN ops : ~Active(o)'
    BY <2>3, <2>5 DEF Active
  <2>7. NothingActsUnseen'
    BY <2>2, <2>4, <2>5, <2>6 DEF NothingActsUnseen, Active, Current
  <2>8. VerifiedOK'
    BY <2>2, <2>6 DEF VerifiedOK, TypeOK
  <2>9. SnapOK' /\ ExecOK'
    BY <2>2, <2>4, <2>5 DEF SnapOK, ExecOK, Current
  <2>10. ConfirmedOK'
    BY <2>5 DEF ConfirmedOK, UnseenInv
  <2>11. EpochsOK'
    <3>1. \A o \in DOMAIN ops : ops[o].epoch <= epoch
      BY DEF EpochsOK, UnseenInv
    <3>2. epoch <= epoch
      BY EpochNumbers
    <3> QED
      BY <2>2, <2>5, <3>1, <3>2 DEF EpochsOK
  <2>12. LastActs'
    BY <2>5, <2>6 DEF LastActs, Current, Active
  <2> QED
    BY <2>12, <2>7, <2>8, <2>9, <2>10, <2>11 DEF UnseenInv
<1>2. CASE QuietOps
  <2>1. DOMAIN ops' = DOMAIN ops /\ Len(ops') = Len(ops)
        /\ \A o \in DOMAIN ops :
             /\ ops'[o].epoch = ops[o].epoch /\ ops'[o].table = ops[o].table
             /\ Active(o)' => Active(o) /\ ops'[o].intent = ops[o].intent
             /\ ops'[o].intent = "COMMITTED" => ops'[o].engine = "finished"
    BY <1>2 DEF QuietOps
  <2>2. Moved
    BY <1>2, MoveStep DEF QuietOps
  <2>3. NothingActsUnseen'
    BY <2>1, <2>2 DEF NothingActsUnseen, Active, Moved, Current, UnseenInv
  <2>4. VerifiedOK'
    BY <2>1, <2>2 DEF VerifiedOK, Moved
  <2>5. SnapOK' /\ ExecOK'
    BY <2>1, <2>2 DEF SnapOK, ExecOK, Current, Moved, UnseenInv
  <2>6. ConfirmedOK'
    BY <2>1 DEF ConfirmedOK
  <2>7. EpochsOK'
    <3> SUFFICES ASSUME NEW o \in DOMAIN ops
                 PROVE  ops'[o].epoch <= epoch'
      BY <2>1 DEF EpochsOK
    <3>1. ops[o].epoch <= epoch /\ epoch' \in {epoch, epoch + 1} /\ ops'[o].epoch = ops[o].epoch
      BY <2>1, <2>2 DEF EpochsOK, Moved, UnseenInv
    <3>2. ops[o].epoch \in Int /\ epoch \in Int
      BY EpochNumbers
    <3> QED
      BY <3>1, <3>2
  <2>8. LastActs'
    BY <2>1 DEF LastActs, Current, UnseenInv
  <2> QED
    BY <2>3, <2>4, <2>5, <2>6, <2>7, <2>8 DEF UnseenInv
<1> QED
  BY <1>1, <1>2, OpsStep

(* Intents change, and the engine does nothing.                            *)
LEMMA SettledSame ==
  ASSUME TypeOK, NEW S, NEW st, ops' = SetIntents(S, st)
  PROVE  \A o \in DOMAIN ops : ops'[o].engine = ops[o].engine
<1>1. \A o \in DOMAIN ops : ops[o] \in OpRecord
  BY DEF TypeOK
<1>2. \A op \in OpRecord : [op EXCEPT !.intent = st].engine = op.engine
  BY DEF OpRecord
<1> QED
  BY <1>1, <1>2 DEF SetIntents

\* No target changes, and no operation finishes.
NoResult ==
  /\ target' = target
  /\ \A o \in DOMAIN ops : ops'[o].engine = "finished" => ops[o].engine = "finished"

(* Only a step of the engine changes a target and finishes an operation.   *)
LEMMA ResultStep ==
  ASSUME TypeOK,
         [Next]_vars
  PROVE  (\E p \in DOMAIN ops : Finish(p)) \/ NoResult
<1> USE DEF NoResult
<1>0. ops \in Seq(OpRecord) /\ \A o \in DOMAIN ops : ops[o] \in OpRecord
  BY DEF TypeOK
<1>1. ASSUME NEW row \in Changing, Edit(row[1], row[2])
      PROVE  (\E p \in DOMAIN ops : Finish(p)) \/ NoResult
  BY <1>1, <1>0 DEF Edit
<1>2. ASSUME NEW o \in DOMAIN ops, Send(o)
      PROVE  (\E p \in DOMAIN ops : Finish(p)) \/ NoResult
  BY <1>2, <1>0 DEF Send
<1>3. ASSUME NEW o \in DOMAIN ops, Finish(o)
      PROVE  (\E p \in DOMAIN ops : Finish(p)) \/ NoResult
  BY <1>3
<1>4. ASSUME NEW o \in DOMAIN ops, Fail(o)
      PROVE  (\E p \in DOMAIN ops : Finish(p)) \/ NoResult
  BY <1>4, <1>0 DEF Fail
<1>5. ASSUME NEW o \in DOMAIN ops, RecoverStatement(o)
      PROVE  (\E p \in DOMAIN ops : Finish(p)) \/ NoResult
  <2>1. target' = target /\ \E S, st : ops' = SetIntents(S, st)
    BY <1>5 DEF RecoverStatement
  <2> QED
    BY <2>1, SettledSame
<1>6. ASSUME NEW o \in DOMAIN ops, RecoverCommit(o)
      PROVE  (\E p \in DOMAIN ops : Finish(p)) \/ NoResult
  <2>1. target' = target /\ \E S, st : ops' = SetIntents(S, st)
    BY <1>6 DEF RecoverCommit
  <2> QED
    BY <2>1, SettledSame
<1>7. ASSUME NEW o \in DOMAIN ops, CleanupIntent(o)
      PROVE  (\E p \in DOMAIN ops : Finish(p)) \/ NoResult
  <2>1. target' = target /\ \E S, st : ops' = SetIntents(S, st)
    BY <1>7 DEF CleanupIntent
  <2> QED
    BY <2>1, SettledSame
<1>8. ASSUME StartRun
      PROVE  (\E p \in DOMAIN ops : Finish(p)) \/ NoResult
  BY <1>8, <1>0 DEF StartRun
<1>9. ASSUME UpgradeJobNativeRebuild
      PROVE  (\E p \in DOMAIN ops : Finish(p)) \/ NoResult
  BY <1>9, <1>0 DEF UpgradeJobNativeRebuild
<1>10. ASSUME RequestJobRebuild
       PROVE  (\E p \in DOMAIN ops : Finish(p)) \/ NoResult
  <2>1. target' = target /\ \E S, st : ops' = SetIntents(S, st)
    BY <1>10 DEF RequestJobRebuild
  <2> QED
    BY <2>1, SettledSame
<1>11. ASSUME RecoverDone
       PROVE  (\E p \in DOMAIN ops : Finish(p)) \/ NoResult
  BY <1>11, <1>0 DEF RecoverDone
<1>12. ASSUME RecordIcebergTrinoQuery
       PROVE  (\E p \in DOMAIN ops : Finish(p)) \/ NoResult
  <2>1. ops' = [ops EXCEPT ![Current].query = TRUE] /\ target' = target
    BY <1>12 DEF RecordIcebergTrinoQuery
  <2> QED
    BY <1>0, <2>1
<1>13. ASSUME ValidateSnapshotSourceTables
       PROVE  (\E p \in DOMAIN ops : Finish(p)) \/ NoResult
  BY <1>13, <1>0 DEF ValidateSnapshotSourceTables
<1>14. ASSUME ResetIssued
       PROVE  (\E p \in DOMAIN ops : Finish(p)) \/ NoResult
  <2>1. target' = target /\ \E S, st : ops' = SetIntents(S, st)
    BY <1>14 DEF ResetIssued, StatementConfirmed
  <2> QED
    BY <2>1, SettledSame
<1>15. ASSUME ResetSnapshotSourceTable
       PROVE  (\E p \in DOMAIN ops : Finish(p)) \/ NoResult
  BY <1>15, <1>0 DEF ResetSnapshotSourceTable, Begin
<1>16. ASSUME ResetFinished
       PROVE  (\E p \in DOMAIN ops : Finish(p)) \/ NoResult
  <2>1. target' = target /\ \E S, st : ops' = SetIntents(S, st)
    BY <1>16 DEF ResetFinished
  <2> QED
    BY <2>1, SettledSame
<1>17. ASSUME SaveSnapshotStart
       PROVE  (\E p \in DOMAIN ops : Finish(p)) \/ NoResult
  BY <1>17, <1>0 DEF SaveSnapshotStart
<1>18. ASSUME SnapshotStart
       PROVE  (\E p \in DOMAIN ops : Finish(p)) \/ NoResult
  BY <1>18, <1>0 DEF SnapshotStart
<1>19. ASSUME PlanTables
       PROVE  (\E p \in DOMAIN ops : Finish(p)) \/ NoResult
  BY <1>19, <1>0 DEF PlanTables
<1>20. ASSUME ReadChunk
       PROVE  (\E p \in DOMAIN ops : Finish(p)) \/ NoResult
  BY <1>20, <1>0 DEF ReadChunk
<1>21. ASSUME TableCopied
       PROVE  (\E p \in DOMAIN ops : Finish(p)) \/ NoResult
  BY <1>21, <1>0 DEF TableCopied
<1>22. ASSUME BatchWritten
       PROVE  (\E p \in DOMAIN ops : Finish(p)) \/ NoResult
  BY <1>22, <1>0 DEF BatchWritten
<1>23. ASSUME MergeIssued
       PROVE  (\E p \in DOMAIN ops : Finish(p)) \/ NoResult
  <2>1. target' = target /\ \E S, st : ops' = SetIntents(S, st)
    BY <1>23 DEF MergeIssued, StatementConfirmed
  <2> QED
    BY <2>1, SettledSame
<1>24. ASSUME MergeRows
       PROVE  (\E p \in DOMAIN ops : Finish(p)) \/ NoResult
  BY <1>24, <1>0 DEF MergeRows, Begin
<1>25. ASSUME MergeFinished
       PROVE  (\E p \in DOMAIN ops : Finish(p)) \/ NoResult
  <2>1. target' = target /\ \E S, st : ops' = SetIntents(S, st)
    BY <1>25 DEF MergeFinished
  <2> QED
    BY <2>1, SettledSame
<1>26. ASSUME CommitRows
       PROVE  (\E p \in DOMAIN ops : Finish(p)) \/ NoResult
  BY <1>26, <1>0 DEF CommitRows, Begin
<1>27. ASSUME CommitAccepted
       PROVE  (\E p \in DOMAIN ops : Finish(p)) \/ NoResult
  <2>1. target' = target /\ \E S, st : ops' = SetIntents(S, st)
    BY <1>27 DEF CommitAccepted
  <2> QED
    BY <2>1, SettledSame
<1>28. ASSUME CommitRejected
       PROVE  (\E p \in DOMAIN ops : Finish(p)) \/ NoResult
  <2>1. target' = target /\ \E S, st : ops' = SetIntents(S, st)
    BY <1>28 DEF CommitRejected
  <2> QED
    BY <2>1, SettledSame
<1>29. ASSUME Acknowledged
       PROVE  (\E p \in DOMAIN ops : Finish(p)) \/ NoResult
  <2>1. target' = target /\ \E S, st : ops' = SetIntents(S, st)
    BY <1>29 DEF Acknowledged
  <2> QED
    BY <2>1, SettledSame
<1>30. ASSUME SourceRetry
       PROVE  (\E p \in DOMAIN ops : Finish(p)) \/ NoResult
  BY <1>30, <1>0 DEF SourceRetry
<1>31. ASSUME ConfirmCompletion
       PROVE  (\E p \in DOMAIN ops : Finish(p)) \/ NoResult
  BY <1>31, <1>0 DEF ConfirmCompletion
<1>32. ASSUME Copied
       PROVE  (\E p \in DOMAIN ops : Finish(p)) \/ NoResult
  BY <1>32, <1>0 DEF Copied
<1>33. ASSUME RunEnds
       PROVE  (\E p \in DOMAIN ops : Finish(p)) \/ NoResult
  BY <1>33, <1>0 DEF RunEnds
<1>34. ASSUME UNCHANGED vars
       PROVE  (\E p \in DOMAIN ops : Finish(p)) \/ NoResult
  BY <1>34 DEF vars
<1> QED
  BY <1>1, <1>2, <1>3, <1>4, <1>5, <1>6, <1>7, <1>8, <1>9, <1>10, <1>11,
     <1>12, <1>13, <1>14, <1>15, <1>16, <1>17, <1>18, <1>19, <1>20, <1>21,
     <1>22, <1>23, <1>24, <1>25, <1>26, <1>27, <1>28, <1>29, <1>30, <1>31,
     <1>32, <1>33, <1>34 DEF Next

\* The ways of a run: it waits, ends or starts over with the first table,
\* begins an operation, goes to the next table after a reset, or copies.
Stays == UNCHANGED <<pc, table, epoch, snap>>
AtStart == pc' \in {"down", "recover", "validate", "reset"} /\ table' = 1
Begins ==
  /\ pc' = "exec" /\ UNCHANGED <<epoch, snap, table>>
  /\ Len(ops') = Len(ops) + 1
  /\ \/ pc = "reset" /\ ops'[Current'].do = "reset" /\ ops'[Current'].epoch = epoch
     \/ pc = "write" /\ ops'[Current'].do # "reset"
Resets ==
  /\ Resetting /\ HasReset(table) /\ UNCHANGED <<epoch, snap>>
  /\ table' = FollowingTable
  /\ pc' = IF LastTable THEN "start" ELSE "reset"
Onwards ==
  /\ pc' \in {"barrier", "plan", "read", "write", "append", "ack", "complete",
             "cleanup", "done"}
  /\ snap' # "none"

(* The ways of a run.                                                      *)
LEMMA Passage ==
  ASSUME TypeOK, UnseenInv, PreflightOK, CopyOK,
         [Next]_vars
  PROVE  Stays \/ AtStart \/ Begins \/ Resets \/ Onwards
<1>0. ops \in Seq(OpRecord) /\ Len(ops) \in Nat
  BY DEF TypeOK
<1>1. ASSUME NEW row \in Changing, Edit(row[1], row[2])
      PROVE  Stays \/ AtStart \/ Begins \/ Resets \/ Onwards
  BY <1>1 DEF Edit, durableVars, memoryVars, Stays
<1>2. ASSUME NEW o \in DOMAIN ops, Send(o)
      PROVE  Stays \/ AtStart \/ Begins \/ Resets \/ Onwards
  BY <1>2 DEF Send, sourceVars, durableVars, memoryVars, Stays
<1>3. ASSUME NEW o \in DOMAIN ops, Finish(o)
      PROVE  Stays \/ AtStart \/ Begins \/ Resets \/ Onwards
  BY <1>3 DEF Finish, sourceVars, durableVars, memoryVars, Stays
<1>4. ASSUME NEW o \in DOMAIN ops, Fail(o)
      PROVE  Stays \/ AtStart \/ Begins \/ Resets \/ Onwards
  BY <1>4 DEF Fail, sourceVars, durableVars, memoryVars, Stays
<1>5. ASSUME NEW o \in DOMAIN ops, RecoverStatement(o)
      PROVE  Stays \/ AtStart \/ Begins \/ Resets \/ Onwards
  BY <1>5 DEF RecoverStatement, sourceVars, durableVars, Stays
<1>6. ASSUME NEW o \in DOMAIN ops, RecoverCommit(o)
      PROVE  Stays \/ AtStart \/ Begins \/ Resets \/ Onwards
  BY <1>6 DEF RecoverCommit, sourceVars, durableVars, Stays
<1>7. ASSUME NEW o \in DOMAIN ops, CleanupIntent(o)
      PROVE  Stays \/ AtStart \/ Begins \/ Resets \/ Onwards
  BY <1>7 DEF CleanupIntent, sourceVars, durableVars, memoryVars, Stays
<1>8. ASSUME StartRun
      PROVE  Stays \/ AtStart \/ Begins \/ Resets \/ Onwards
  BY <1>8
     DEF StartRun, Goto, sourceVars, durableVars, memoryVars, AtStart,
         PreflightOK
<1>9. ASSUME UpgradeJobNativeRebuild
      PROVE  Stays \/ AtStart \/ Begins \/ Resets \/ Onwards
  BY <1>9 DEF UpgradeJobNativeRebuild, sourceVars, memoryVars, Stays
<1>10. ASSUME RequestJobRebuild
       PROVE  Stays \/ AtStart \/ Begins \/ Resets \/ Onwards
  BY <1>10
     DEF RequestJobRebuild, sourceVars, memoryVars, Stays, AtStart, TypeOK,
         PreflightOK
<1>11. ASSUME RecoverDone
       PROVE  Stays \/ AtStart \/ Begins \/ Resets \/ Onwards
  <2>1. snap \in {"none", "open", "done"}
    BY DEF TypeOK
  <2>2. CASE snap = "none"
    BY <1>11, <2>2
       DEF RecoverDone, Goto, sourceVars, durableVars, memoryVars, AtStart,
           PreflightOK
  <2>3. CASE snap = "open"
    BY <1>11, <2>3
       DEF RecoverDone, Goto, sourceVars, durableVars, memoryVars, Onwards
  <2>4. CASE snap = "done"
    BY <1>11, <2>4
       DEF RecoverDone, Goto, sourceVars, durableVars, memoryVars, Onwards
  <2> QED
    BY <2>1, <2>2, <2>3, <2>4
<1>12. ASSUME RecordIcebergTrinoQuery
       PROVE  Stays \/ AtStart \/ Begins \/ Resets \/ Onwards
  BY <1>12
     DEF RecordIcebergTrinoQuery, sourceVars, durableVars, memoryVars, Stays
<1>13. ASSUME ValidateSnapshotSourceTables
       PROVE  Stays \/ AtStart \/ Begins \/ Resets \/ Onwards
  BY <1>13
     DEF ValidateSnapshotSourceTables, Goto, sourceVars, durableVars,
         memoryVars, AtStart, PreflightOK
<1>14. ASSUME ResetIssued
       PROVE  Stays \/ AtStart \/ Begins \/ Resets \/ Onwards
  <2>1. PICK o \in DOMAIN ops :
          /\ ops[o].do = "reset" /\ ops[o].epoch = epoch /\ ops[o].table = table
          /\ ops[o].engine = "finished"
    BY <1>14 DEF ResetIssued, StatementConfirmed, Issued, Intents, Confirmable,
       UnseenInv, ConfirmedOK
  <2>2. HasReset(table)
    BY <2>1 DEF HasReset, ResetBy
  <2> QED
    BY <1>14, <2>2
       DEF ResetIssued, ResetApplied, Goto, sourceVars, durableVars, Resets,
           Resetting
<1>15. ASSUME ResetSnapshotSourceTable
       PROVE  Stays \/ AtStart \/ Begins \/ Resets \/ Onwards
  <2> DEFINE new == [epoch |-> epoch, table |-> table, do |-> "reset", lo |-> 0,
                     rows |-> Nothing, intent |-> "PREPARED", query |-> FALSE,
                     engine |-> "unsent"]
  <2>1. /\ ops' = Append(ops, new) /\ pc' = "exec" /\ pc = "reset"
        /\ UNCHANGED <<epoch, snap, table>>
    BY <1>15
       DEF ResetSnapshotSourceTable, Goto, sourceVars, durableVars,
           memoryVars, Begin
  <2>2. new.do = "reset" /\ new.epoch = epoch
    OBVIOUS
  <2> HIDE DEF new
  <2>3. Current' = Len(ops) + 1 /\ ops'[Current'] = new
    BY <1>0, <2>1 DEF Current
  <2> QED
    BY <1>0, <2>1, <2>2, <2>3 DEF Begins, Replacement
<1>16. ASSUME ResetFinished
       PROVE  Stays \/ AtStart \/ Begins \/ Resets \/ Onwards
  <2>1. HasReset(table)
    BY <1>16 DEF ResetFinished, Confirmable, UnseenInv, ExecOK, PreflightOK,
       Resetting, HasReset, ResetBy
  <2> QED
    BY <1>16, <2>1
       DEF ResetFinished, ResetApplied, Goto, sourceVars, durableVars, Resets,
           Resetting
<1>17. ASSUME SaveSnapshotStart
       PROVE  Stays \/ AtStart \/ Begins \/ Resets \/ Onwards
  BY <1>17 DEF SaveSnapshotStart, Goto, memoryVars, Onwards, CopyOK
<1>18. ASSUME SnapshotStart
       PROVE  Stays \/ AtStart \/ Begins \/ Resets \/ Onwards
  BY <1>18 DEF SnapshotStart, Goto, sourceVars, durableVars, Onwards, CopyOK
<1>19. ASSUME PlanTables
       PROVE  Stays \/ AtStart \/ Begins \/ Resets \/ Onwards
  BY <1>19
     DEF PlanTables, Goto, sourceVars, durableVars, memoryVars, Onwards,
         CopyOK
<1>20. ASSUME ReadChunk
       PROVE  Stays \/ AtStart \/ Begins \/ Resets \/ Onwards
  BY <1>20 DEF ReadChunk, Goto, sourceVars, durableVars, Onwards, CopyOK
<1>21. ASSUME TableCopied
       PROVE  Stays \/ AtStart \/ Begins \/ Resets \/ Onwards
  BY <1>21
     DEF TableCopied, Goto, sourceVars, durableVars, memoryVars, Onwards,
         CopyOK
<1>22. ASSUME BatchWritten
       PROVE  Stays \/ AtStart \/ Begins \/ Resets \/ Onwards
  BY <1>22
     DEF BatchWritten, Goto, sourceVars, durableVars, memoryVars, Onwards,
         CopyOK
<1>23. ASSUME MergeIssued
       PROVE  Stays \/ AtStart \/ Begins \/ Resets \/ Onwards
  BY <1>23 DEF MergeIssued, sourceVars, durableVars, Stays
<1>24. ASSUME MergeRows
       PROVE  Stays \/ AtStart \/ Begins \/ Resets \/ Onwards
  <2> DEFINE new == [epoch |-> epoch, table |-> table, do |-> "merge", lo |-> at,
                     rows |-> Head(todo), intent |-> "PREPARED", query |-> FALSE,
                     engine |-> "unsent"]
  <2>1. /\ ops' = Append(ops, new) /\ pc' = "exec" /\ pc = "write"
        /\ UNCHANGED <<epoch, snap, table>>
    BY <1>24 DEF MergeRows, Goto, sourceVars, durableVars, memoryVars, Begin
  <2>2. new.do = "merge" /\ new.epoch = epoch
    OBVIOUS
  <2> HIDE DEF new
  <2>3. Current' = Len(ops) + 1 /\ ops'[Current'] = new
    BY <1>0, <2>1 DEF Current
  <2> QED
    BY <1>0, <2>1, <2>2, <2>3 DEF Begins, Replacement
<1>25. ASSUME MergeFinished
       PROVE  Stays \/ AtStart \/ Begins \/ Resets \/ Onwards
  BY <1>25 DEF MergeFinished, Goto, sourceVars, durableVars, Onwards, CopyOK
<1>26. ASSUME CommitRows
       PROVE  Stays \/ AtStart \/ Begins \/ Resets \/ Onwards
  <2> DEFINE new == [epoch |-> epoch, table |-> table, do |-> Replacement, lo |-> at,
                     rows |-> Head(todo), intent |-> "PREPARED", query |-> FALSE,
                     engine |-> "unsent"]
  <2>1. /\ ops' = Append(ops, new) /\ pc' = "exec" /\ pc = "write"
        /\ UNCHANGED <<epoch, snap, table>>
    BY <1>26 DEF CommitRows, Goto, sourceVars, durableVars, memoryVars, Begin
  <2>2. new.do = Replacement /\ new.epoch = epoch
    OBVIOUS
  <2> HIDE DEF new
  <2>3. Current' = Len(ops) + 1 /\ ops'[Current'] = new
    BY <1>0, <2>1 DEF Current
  <2> QED
    BY <1>0, <2>1, <2>2, <2>3 DEF Begins, Replacement
<1>27. ASSUME CommitAccepted
       PROVE  Stays \/ AtStart \/ Begins \/ Resets \/ Onwards
  BY <1>27
     DEF CommitAccepted, Goto, sourceVars, durableVars, Onwards, CopyOK,
         Statement
<1>28. ASSUME CommitRejected
       PROVE  Stays \/ AtStart \/ Begins \/ Resets \/ Onwards
  BY <1>28
     DEF CommitRejected, Goto, sourceVars, durableVars, memoryVars, Onwards,
         CopyOK, Statement
<1>29. ASSUME Acknowledged
       PROVE  Stays \/ AtStart \/ Begins \/ Resets \/ Onwards
  BY <1>29 DEF Acknowledged, Goto, sourceVars, Onwards, CopyOK
<1>30. ASSUME SourceRetry
       PROVE  Stays \/ AtStart \/ Begins \/ Resets \/ Onwards
  BY <1>30 DEF SourceRetry, Goto, sourceVars, durableVars, Onwards, CopyOK
<1>31. ASSUME ConfirmCompletion
       PROVE  Stays \/ AtStart \/ Begins \/ Resets \/ Onwards
  BY <1>31 DEF ConfirmCompletion, Goto, sourceVars, memoryVars, Onwards, CopyOK
<1>32. ASSUME Copied
       PROVE  Stays \/ AtStart \/ Begins \/ Resets \/ Onwards
  BY <1>32 DEF Copied, Goto, sourceVars, memoryVars, Onwards, CopyOK
<1>33. ASSUME RunEnds
       PROVE  Stays \/ AtStart \/ Begins \/ Resets \/ Onwards
  BY <1>33 DEF RunEnds, EndRun, sourceVars, durableVars, AtStart, PreflightOK
<1>34. ASSUME UNCHANGED vars
       PROVE  Stays \/ AtStart \/ Begins \/ Resets \/ Onwards
  BY <1>34 DEF vars, sourceVars, durableVars, memoryVars, Stays
<1> QED
  BY <1>1, <1>2, <1>3, <1>4, <1>5, <1>6, <1>7, <1>8, <1>9, <1>10, <1>11,
     <1>12, <1>13, <1>14, <1>15, <1>16, <1>17, <1>18, <1>19, <1>20, <1>21,
     <1>22, <1>23, <1>24, <1>25, <1>26, <1>27, <1>28, <1>29, <1>30, <1>31,
     <1>32, <1>33, <1>34 DEF Next

(* A modulus within the tables changes nothing.                            *)
LEMMA Following ==
  ASSUME NEW t \in Table
  PROVE  t # Tables => 1 + (t % Tables) = t + 1
<1>1. t \in Nat /\ Tables \in Nat /\ 1 <= t /\ t <= Tables
  BY RebuildAssumption DEF Table
<1> QED
  BY <1>1

(* A reset that has acted has acted for good.                              *)
LEMMA ResetsKept ==
  ASSUME TypeOK, QuietOps \/ Begun, epoch' = epoch, NEW t
  PROVE  HasReset(t) => HasReset(t)'
<1>1. CASE QuietOps
  BY <1>1 DEF QuietOps, HasReset, ResetBy, Active
<1>2. CASE Begun
  <2>1. PICK do, rows : BegunOps(do, rows)
    BY <1>2 DEF Begun, BegunReset, BegunRows
  <2>2. /\ DOMAIN ops' = DOMAIN ops \cup {Len(ops')}
        /\ \A o \in DOMAIN ops : ops'[o] = ops[o]
    BY <2>1 DEF BegunOps
  <2> QED
    BY <2>2 DEF HasReset, ResetBy
<1> QED
  BY <1>1, <1>2

(* A reset that has acted, unless it is finished now, has acted before.    *)
LEMMA ResetsBefore ==
  ASSUME TypeOK, QuietOps \/ Begun, NoResult, epoch' = epoch, NEW t
  PROVE  HasReset(t)' => HasReset(t)
<1>1. CASE QuietOps
  BY <1>1 DEF QuietOps, HasReset, ResetBy, NoResult
<1>2. CASE Begun
  <2>1. PICK do, rows : BegunOps(do, rows)
    BY <1>2 DEF Begun, BegunReset, BegunRows
  <2>2. /\ DOMAIN ops' = DOMAIN ops \cup {Len(ops')}
        /\ \A o \in DOMAIN ops : ops'[o] = ops[o]
        /\ ops'[Len(ops')].engine = "unsent"
    BY <2>1 DEF BegunOps
  <2> QED
    BY <2>2 DEF HasReset, ResetBy
<1> QED
  BY <1>1, <1>2

(* A statement or commit acts on the rows of its table only.  A reset      *)
(* empties the scope, and the others write rows of their own submission.   *)
LEMMA EffectFacts ==
  ASSUME TypeOK, NEW o \in DOMAIN ops, Finish(o), NEW op, op = ops[o],
         NEW t \in Table, NEW k \in Keys
  PROVE  \/ /\ target'[t][k] = target[t][k]
            /\ op.do = "reset" /\ op.table = t => ~InScope(t, k)
         \/ op.do = "reset" /\ op.table = t /\ target'[t][k] = Absent
         \/ /\ op.do # "reset" /\ op.table = t /\ k \in DOMAIN op.rows
            /\ \E n : target'[t][k] = Written(op, k, n)
<1>1. /\ op \in OpRecord /\ target \in [Table -> [Keys -> Cell]]
      /\ target' = [target EXCEPT ![op.table] = Effect(op)]
  BY DEF TypeOK, Finish
<1>2. op.table \in Table /\ op.do \in {"reset", "merge", "append", "replace"}
  BY <1>1 DEF OpRecord
<1>3. CASE t # op.table
  BY <1>1, <1>3
<1>4. CASE t = op.table
  <2>1. target'[t][k] = Effect(op)[k]
    BY <1>1, <1>2, <1>4
  <2>2. Effect(op)[k] =
          IF op.do = "reset" THEN IF InScope(t, k) THEN Absent ELSE target[t][k]
          ELSE IF k \in DOMAIN op.rows
               THEN Written(op, k, Copies(op, target[t][k].n))
          ELSE target[t][k]
    BY <1>4 DEF Effect
  <2> QED
    BY <1>4, <2>1, <2>2
<1> QED
  BY <1>3, <1>4

\* The submission is the same, and only the preflight saves a start.
SameEpoch ==
  epoch' = epoch /\ (snap' # "none" => snap # "none" \/ pc = "start")

(* Only a new submission changes the epoch.                                *)
LEMMA EpochStep ==
  ASSUME TypeOK, CopyOK,
         [Next]_vars
  PROVE  SameEpoch \/ RequestJobRebuild
<1>1. ASSUME NEW row \in Changing, Edit(row[1], row[2])
      PROVE  SameEpoch \/ RequestJobRebuild
  BY <1>1 DEF Edit, durableVars, SameEpoch
<1>2. ASSUME NEW o \in DOMAIN ops, Send(o)
      PROVE  SameEpoch \/ RequestJobRebuild
  BY <1>2 DEF Send, durableVars, SameEpoch
<1>3. ASSUME NEW o \in DOMAIN ops, Finish(o)
      PROVE  SameEpoch \/ RequestJobRebuild
  BY <1>3 DEF Finish, durableVars, SameEpoch
<1>4. ASSUME NEW o \in DOMAIN ops, Fail(o)
      PROVE  SameEpoch \/ RequestJobRebuild
  BY <1>4 DEF Fail, durableVars, SameEpoch
<1>5. ASSUME NEW o \in DOMAIN ops, RecoverStatement(o)
      PROVE  SameEpoch \/ RequestJobRebuild
  BY <1>5 DEF RecoverStatement, durableVars, SameEpoch
<1>6. ASSUME NEW o \in DOMAIN ops, RecoverCommit(o)
      PROVE  SameEpoch \/ RequestJobRebuild
  BY <1>6 DEF RecoverCommit, durableVars, SameEpoch
<1>7. ASSUME NEW o \in DOMAIN ops, CleanupIntent(o)
      PROVE  SameEpoch \/ RequestJobRebuild
  BY <1>7 DEF CleanupIntent, durableVars, SameEpoch
<1>8. ASSUME StartRun
      PROVE  SameEpoch \/ RequestJobRebuild
  BY <1>8 DEF StartRun, durableVars, SameEpoch
<1>9. ASSUME UpgradeJobNativeRebuild
      PROVE  SameEpoch \/ RequestJobRebuild
  BY <1>9 DEF UpgradeJobNativeRebuild, SameEpoch
<1>10. ASSUME RequestJobRebuild
       PROVE  SameEpoch \/ RequestJobRebuild
  BY <1>10
<1>11. ASSUME RecoverDone
       PROVE  SameEpoch \/ RequestJobRebuild
  BY <1>11 DEF RecoverDone, durableVars, SameEpoch
<1>12. ASSUME RecordIcebergTrinoQuery
       PROVE  SameEpoch \/ RequestJobRebuild
  BY <1>12 DEF RecordIcebergTrinoQuery, durableVars, SameEpoch
<1>13. ASSUME ValidateSnapshotSourceTables
       PROVE  SameEpoch \/ RequestJobRebuild
  BY <1>13 DEF ValidateSnapshotSourceTables, durableVars, SameEpoch
<1>14. ASSUME ResetIssued
       PROVE  SameEpoch \/ RequestJobRebuild
  BY <1>14 DEF ResetIssued, durableVars, SameEpoch
<1>15. ASSUME ResetSnapshotSourceTable
       PROVE  SameEpoch \/ RequestJobRebuild
  BY <1>15 DEF ResetSnapshotSourceTable, durableVars, SameEpoch
<1>16. ASSUME ResetFinished
       PROVE  SameEpoch \/ RequestJobRebuild
  BY <1>16 DEF ResetFinished, durableVars, SameEpoch
<1>17. ASSUME SaveSnapshotStart
       PROVE  SameEpoch \/ RequestJobRebuild
  BY <1>17 DEF SaveSnapshotStart, SameEpoch
<1>18. ASSUME SnapshotStart
       PROVE  SameEpoch \/ RequestJobRebuild
  BY <1>18 DEF SnapshotStart, durableVars, SameEpoch
<1>19. ASSUME PlanTables
       PROVE  SameEpoch \/ RequestJobRebuild
  BY <1>19 DEF PlanTables, durableVars, SameEpoch
<1>20. ASSUME ReadChunk
       PROVE  SameEpoch \/ RequestJobRebuild
  BY <1>20 DEF ReadChunk, durableVars, SameEpoch
<1>21. ASSUME TableCopied
       PROVE  SameEpoch \/ RequestJobRebuild
  BY <1>21 DEF TableCopied, durableVars, SameEpoch
<1>22. ASSUME BatchWritten
       PROVE  SameEpoch \/ RequestJobRebuild
  BY <1>22 DEF BatchWritten, durableVars, SameEpoch
<1>23. ASSUME MergeIssued
       PROVE  SameEpoch \/ RequestJobRebuild
  BY <1>23 DEF MergeIssued, durableVars, SameEpoch
<1>24. ASSUME MergeRows
       PROVE  SameEpoch \/ RequestJobRebuild
  BY <1>24 DEF MergeRows, durableVars, SameEpoch
<1>25. ASSUME MergeFinished
       PROVE  SameEpoch \/ RequestJobRebuild
  BY <1>25 DEF MergeFinished, durableVars, SameEpoch
<1>26. ASSUME CommitRows
       PROVE  SameEpoch \/ RequestJobRebuild
  BY <1>26 DEF CommitRows, durableVars, SameEpoch
<1>27. ASSUME CommitAccepted
       PROVE  SameEpoch \/ RequestJobRebuild
  BY <1>27 DEF CommitAccepted, durableVars, SameEpoch
<1>28. ASSUME CommitRejected
       PROVE  SameEpoch \/ RequestJobRebuild
  BY <1>28 DEF CommitRejected, durableVars, SameEpoch
<1>29. ASSUME Acknowledged
       PROVE  SameEpoch \/ RequestJobRebuild
  BY <1>29 DEF Acknowledged, SameEpoch
<1>30. ASSUME SourceRetry
       PROVE  SameEpoch \/ RequestJobRebuild
  BY <1>30 DEF SourceRetry, durableVars, SameEpoch
<1>31. ASSUME ConfirmCompletion
       PROVE  SameEpoch \/ RequestJobRebuild
  BY <1>31 DEF ConfirmCompletion, CopyOK, SameEpoch
<1>32. ASSUME Copied
       PROVE  SameEpoch \/ RequestJobRebuild
  BY <1>32 DEF Copied, SameEpoch
<1>33. ASSUME RunEnds
       PROVE  SameEpoch \/ RequestJobRebuild
  BY <1>33 DEF RunEnds, durableVars, SameEpoch
<1>34. ASSUME UNCHANGED vars
       PROVE  SameEpoch \/ RequestJobRebuild
  BY <1>34 DEF vars, durableVars, SameEpoch
<1> QED
  BY <1>1, <1>2, <1>3, <1>4, <1>5, <1>6, <1>7, <1>8, <1>9, <1>10, <1>11,
     <1>12, <1>13, <1>14, <1>15, <1>16, <1>17, <1>18, <1>19, <1>20, <1>21,
     <1>22, <1>23, <1>24, <1>25, <1>26, <1>27, <1>28, <1>29, <1>30, <1>31,
     <1>32, <1>33, <1>34 DEF Next

(* A step of the engine leaves an emptied scope emptied, and a reset       *)
(* empties the scope of its table.                                         *)
LEMMA EmptiedFinish ==
  ASSUME TypeOK, UnseenInv, NEW o \in DOMAIN ops, Finish(o), NEW t \in Table,
         Emptied(t) \/ (ops[o].do = "reset" /\ ops[o].table = t)
  PROVE  Emptied(t)'
<1> SUFFICES ASSUME NEW k \in Keys, target'[t][k].n > 0, InScope(t, k)'
             PROVE  target'[t][k].epoch = epoch'
  BY DEF Emptied
<1> DEFINE op == ops[o]
<1>1. op.epoch = epoch /\ epoch' = epoch
  BY DEF UnseenInv, NothingActsUnseen, Finish, durableVars
<1>2. /\ Absent.n = 0
      /\ \A n : Written(op, k, n).epoch = op.epoch
  BY DEF Absent, Written
<1> HIDE DEF op
<1>3. \/ /\ target'[t][k] = target[t][k]
         /\ op.do = "reset" /\ op.table = t => ~InScope(t, k)
      \/ target'[t][k] = Absent
      \/ \E n : target'[t][k] = Written(op, k, n)
  BY EffectFacts DEF op
<1>4. CASE target'[t][k] = target[t][k] /\ (op.do = "reset" /\ op.table = t => ~InScope(t, k))
  <2>1. InScope(t, k) <=> InScope(t, k)'
    BY <1>4 DEF InScope
  <2>2. Emptied(t)
    BY <1>4, <2>1 DEF op
  <2> QED
    BY <1>1, <1>4, <2>1, <2>2 DEF Emptied
<1>5. CASE target'[t][k] = Absent
  BY <1>2, <1>5
<1>6. CASE \E n : target'[t][k] = Written(op, k, n)
  BY <1>1, <1>2, <1>6
<1> QED
  BY <1>3, <1>4, <1>5, <1>6

(* A table that a reset has emptied stays so, in every step.               *)
LEMMA ResetsStep ==
  ASSUME TypeOK, UnseenInv, CopyOK, ResetsOK, [Next]_vars
  PROVE  ResetsOK'
<1> SUFFICES ASSUME NEW t \in Table, HasReset(t)'
             PROVE  Emptied(t)'
  BY DEF ResetsOK
<1>1. CASE RequestJobRebuild
  <2>1. epoch' = epoch + 1 /\ epoch \in Nat /\ pc = "down"
    BY <1>1, EpochNumbers DEF RequestJobRebuild
  <2>2. QuietOps
    BY <2>1, OpsStep DEF Begun, BegunReset, BegunRows
  <2>3. PICK o \in DOMAIN ops : ops[o].epoch = epoch + 1
    BY <2>1, <2>2 DEF QuietOps, HasReset, ResetBy
  <2> QED
    BY <2>1, <2>3 DEF UnseenInv, EpochsOK
<1>2. CASE epoch' = epoch
  <2>1. CASE \E o \in DOMAIN ops : Finish(o)
    <3>1. PICK o \in DOMAIN ops : Finish(o)
      BY <2>1
    <3>2. PICK p \in DOMAIN ops' : ResetBy(p, t)'
      BY DEF HasReset
    <3>3. /\ DOMAIN ops' = DOMAIN ops
          /\ ops'[p].do = ops[p].do /\ ops'[p].epoch = ops[p].epoch
          /\ ops'[p].table = ops[p].table
          /\ p # o => ops'[p] = ops[p]
      <4>1. ops' = [ops EXCEPT ![o].engine = "finished"]
        BY <3>1 DEF Finish
      <4>2. \A q \in DOMAIN ops : ops[q] \in OpRecord
        BY DEF TypeOK
      <4> QED
        BY <3>2, <4>1, <4>2 DEF OpRecord
    <3>4. CASE p = o
      BY <3>1, <3>2, <3>3, <3>4, EmptiedFinish DEF ResetBy
    <3>5. CASE p # o
      <4>1. HasReset(t)
        BY <1>2, <3>2, <3>3, <3>5 DEF HasReset, ResetBy
      <4> QED
        BY <3>1, <4>1, EmptiedFinish DEF ResetsOK
    <3> QED
      BY <3>4, <3>5
  <2>2. CASE NoResult
    <3>1. HasReset(t)
      BY <1>2, <2>2, OpsStep, ResetsBefore
    <3> QED
      BY <1>2, <2>2, <3>1 DEF ResetsOK, Emptied, InScope, NoResult
  <2> QED
    BY <2>1, <2>2, ResultStep
<1> QED
  BY <1>1, <1>2, EpochStep DEF SameEpoch

(* The preflight resets one table after the other, and the copy starts     *)
(* when it has reset them all.                                             *)
LEMMA PreflightStep ==
  ASSUME TypeOK, UnseenInv, CopyOK, PreflightOK, [Next]_vars
  PROVE  PreflightOK' /\ CopyOK'
<1>0. /\ QuietOps \/ Begun
      /\ SameEpoch \/ RequestJobRebuild
      /\ Stays \/ AtStart \/ Begins \/ Resets \/ Onwards
  BY OpsStep, EpochStep, Passage
<1>a. epoch' = epoch => \A t \in Table : HasReset(t) => HasReset(t)'
  BY <1>0, ResetsKept
<1>b. /\ table \in Nat /\ table >= 1 /\ table <= Tables /\ Tables \in Nat
      /\ 1..(table - 1) \subseteq Table
  BY RebuildAssumption DEF TypeOK, Table
<1>1. CASE AtStart
  <2>1. PreflightOK'
    BY <1>1 DEF AtStart, PreflightOK, Resetting
  <2> QED
    BY <1>1, <2>1 DEF AtStart, CopyOK
<1>2. CASE Stays
  <2>1. QuietOps
    BY <1>0, <1>2 DEF Begun, BegunReset, BegunRows, Stays
  <2>2. pc = "exec" => /\ ops'[Current'].do = ops[Current].do
                       /\ ops'[Current'].epoch = ops[Current].epoch
    BY <2>1 DEF QuietOps, Current, UnseenInv, ExecOK
  <2>3. Resetting' <=> Resetting
    BY <1>2, <2>2 DEF Resetting, Stays
  <2>4. PreflightOK'
    BY <1>2, <1>a, <1>b, <2>2, <2>3 DEF PreflightOK, Stays
  <2>5. CopyOK'
    BY <1>2, <2>2 DEF CopyOK, Stays
  <2> QED
    BY <2>4, <2>5
<1>3. CASE Begins
  <2>1. Resetting' => Resetting
    BY <1>3 DEF Begins, Resetting
  <2>2. PreflightOK'
    BY <1>3, <1>a, <1>b, <2>1 DEF PreflightOK, Begins, Resetting
  <2>3. CopyOK'
    BY <1>3 DEF CopyOK, Begins
  <2> QED
    BY <2>2, <2>3
<1>4. CASE Resets
  <2>1. /\ table # Tables => table' = table + 1 /\ pc' = "reset"
        /\ table = Tables => pc' = "start"
    BY <1>4, Following DEF Resets, FollowingTable, LastTable, TypeOK
  <2>2. \A t \in 1..table : HasReset(t)'
    <3>1. \A t \in 1..(table - 1) : HasReset(t)
      BY <1>4 DEF Resets, PreflightOK
    <3>2. \A t \in 1..table : t \in Table /\ HasReset(t)
      BY <1>4, <1>b, <3>1 DEF Resets, Table
    <3> QED
      BY <1>4, <1>a, <3>2 DEF Resets
  <2>3. PreflightOK'
    BY <1>b, <2>1, <2>2 DEF PreflightOK, Resetting, Table
  <2>4. CopyOK'
    BY <2>1 DEF CopyOK
  <2> QED
    BY <2>3, <2>4
<1>5. CASE Onwards
  <2>1. PreflightOK'
    BY <1>5 DEF Onwards, PreflightOK, Resetting
  <2> QED
    BY <1>5, <2>1 DEF Onwards, CopyOK
<1> QED
  BY <1>0, <1>1, <1>2, <1>3, <1>4, <1>5

(* The scope stays emptied from the saved start on, in every step.         *)
LEMMA ScopeStep ==
  ASSUME TypeOK, UnseenInv, CopyOK, ResetsOK, PreflightOK, ScopeEmptied,
         [Next]_vars
  PROVE  ScopeEmptied'
<1>1. ScopeEmptied <=> (snap # "none" => \A t \in Table : Emptied(t))
  BY DEF ScopeEmptied, Emptied
<1>2. ScopeEmptied' <=> (snap' # "none" => \A t \in Table : Emptied(t)')
  BY DEF ScopeEmptied, Emptied
<1>3. CASE RequestJobRebuild
  BY <1>2, <1>3 DEF RequestJobRebuild
<1>4. CASE SameEpoch
  <2> SUFFICES ASSUME snap' # "none", NEW t \in Table
               PROVE  Emptied(t)'
    BY <1>2
  <2>1. Emptied(t)
    BY <1>1, <1>4 DEF SameEpoch, PreflightOK, ResetsOK
  <2>2. CASE \E o \in DOMAIN ops : Finish(o)
    BY <2>1, <2>2, EmptiedFinish
  <2>3. CASE NoResult
    BY <1>4, <2>1, <2>3 DEF Emptied, InScope, NoResult, SameEpoch
  <2> QED
    BY <2>2, <2>3, ResultStep
<1> QED
  BY <1>3, <1>4, EpochStep

(* The image of a batch is a row version for each of some keys.            *)
LEMMA ImageFacts ==
  ASSUME NEW rows \in Images
  PROVE  /\ DOMAIN rows \subseteq Keys
         /\ \A k \in DOMAIN rows : rows[k] \in Nat /\ rows[k] <= MaxEdits
         /\ Cardinality(DOMAIN rows) \in Nat
<1>1. PICK K \in SUBSET Keys : rows \in [K -> 0..MaxEdits]
  BY DEF Images
<1>2. IsFiniteSet(DOMAIN rows)
  BY <1>1, RebuildAssumption, FS_Subset
<1> QED
  BY <1>1, <1>2, RebuildAssumption, FS_CardinalityType

(* The smaller of two numbers is one of them.                              *)
LEMMA MinFacts ==
  ASSUME NEW i \in Nat, NEW j \in Nat
  PROVE  Min({i, j}) \in Nat /\ Min({i, j}) <= i /\ Min({i, j}) <= j
<1>1. CASE i <= j
  <2>1. Min({i, j}) = i
    BY <1>1 DEF Min
  <2> QED
    BY <1>1, <2>1
<1>2. CASE ~(i <= j)
  <2>1. Min({i, j}) = j
    BY <1>2 DEF Min
  <2> QED
    BY <1>2, <2>1
<1> QED
  BY <1>1, <1>2

(* A row written is there a natural number of times.                       *)
LEMMA CopiesNatural ==
  ASSUME NEW op \in OpRecord, op.do # "reset", NEW n \in Nat
  PROVE  Copies(op, n) \in Nat
<1>1. Max({n, 1}) \in Nat
  <2>1. CASE n <= 1
    <3>1. Max({n, 1}) = 1
      BY <2>1 DEF Max
    <3> QED
      BY <3>1
  <2>2. CASE ~(n <= 1)
    <3>1. Max({n, 1}) = n
      BY <2>2 DEF Max
    <3> QED
      BY <3>1
  <2> QED
    BY <2>1, <2>2
<1>2. op.do \in {"merge", "append", "replace"}
  BY DEF OpRecord
<1>3. CASE op.do = "merge"
  BY <1>1, <1>3 DEF Copies
<1>4. CASE op.do = "append"
  BY <1>4 DEF Copies
<1>5. CASE op.do = "replace"
  BY <1>5 DEF Copies
<1> QED
  BY <1>2, <1>3, <1>4, <1>5

(* The image of a piece of a batch is within the image of the batch.       *)
LEMMA PieceFacts ==
  ASSUME TypeOK, NEW keys \in Seq(Keys), NEW i \in Nat \ {0}, NEW j \in Nat,
         j <= Len(keys)
  PROVE  LET piece == Image(SubSeq(keys, i, j))
         IN  /\ piece \in Images /\ DOMAIN piece \subseteq Range(keys)
             /\ \A k \in DOMAIN piece : piece[k] = version[table][k]
<1> DEFINE piece == SubSeq(keys, i, j)
<1>1. \A n \in i..j : n \in DOMAIN keys /\ keys[n] \in Keys
  OBVIOUS
<1>2. /\ piece \in Seq(Keys)
      /\ Len(piece) = IF i <= j THEN j - i + 1 ELSE 0
      /\ \A n \in 1..(j - i + 1) : piece[n] = keys[i + n - 1]
  BY <1>1, SubSeqProperties
<1> HIDE DEF piece
<1>3. ASSUME NEW n \in DOMAIN piece
      PROVE  piece[n] \in Range(keys)
  <2>1. n \in 1..(j - i + 1)
    BY <1>2
  <2>2. i + n - 1 \in DOMAIN keys
    BY <1>1, <2>1
  <2> QED
    BY <1>2, <2>1, <2>2 DEF Range
<1>4. Range(piece) \subseteq Range(keys) /\ Range(keys) \subseteq Keys
  BY <1>3 DEF Range
<1>5. version[table] \in [Keys -> 0..MaxEdits]
  BY DEF TypeOK
<1>6. Image(piece) = [k \in Range(piece) |-> version[table][k]]
  BY DEF Image
<1>7. Image(piece) \in [Range(piece) -> 0..MaxEdits]
  BY <1>4, <1>5, <1>6
<1>8. Image(piece) \in Images
  BY <1>4, <1>7 DEF Images
<1> QED
  BY <1>4, <1>6, <1>8 DEF piece

(* A chunk that is read and its statements are images of the source.       *)
LEMMA ReadFacts ==
  ASSUME TypeOK, ReadChunk
  PROVE  /\ chunk' \in Images /\ todo' \in Seq(Images)
         /\ \A k \in DOMAIN chunk' : chunk'[k] = version[table][k]
         /\ \A i \in DOMAIN todo' : \A k \in DOMAIN todo'[i] :
              k \in DOMAIN chunk' /\ todo'[i][k] = version[table][k]
<1>1. /\ Source[table] \in Seq(Keys) /\ at \in Nat
      /\ ChunkSize \in Nat /\ StatementRows \in Nat \ {0}
  BY RebuildAssumption DEF TypeOK, Table
<1>2. Remaining \in Seq(Keys)
  <2>1. \A n \in (at + 1)..Len(Source[table]) : Source[table][n] \in Keys
    BY <1>1
  <2> QED
    BY <1>1, <2>1, SubSeqProperties DEF Remaining
<1> DEFINE n == Min({ChunkSize, Len(Remaining)})
           keys == SubSeq(Remaining, 1, n)
<1>3. n \in Nat /\ n <= Len(Remaining)
  BY <1>1, <1>2, MinFacts
<1> HIDE DEF n
<1>4. keys \in Seq(Keys)
  <2>1. \A i \in 1..n : Remaining[i] \in Keys
    BY <1>2, <1>3
  <2> QED
    BY <1>3, <2>1, SubSeqProperties
<1>5. chunk' = Image(keys) /\ todo' \in {<<>>, StatementsOf(keys)}
  BY DEF ReadChunk, n
<1> HIDE DEF keys
<1>6. /\ chunk' \in Images /\ DOMAIN chunk' = Range(keys)
      /\ \A k \in DOMAIN chunk' : chunk'[k] = version[table][k]
  <2>1. SubSeq(keys, 1, Len(keys)) = keys
    BY <1>4
  <2>2. Image(keys) \in Images
    <3>1. 1 \in Nat \ {0} /\ Len(keys) \in Nat /\ Len(keys) <= Len(keys)
      BY <1>4
    <3>2. Image(SubSeq(keys, 1, Len(keys))) \in Images
      BY <1>4, <3>1, PieceFacts
    <3> QED
      BY <2>1, <3>2
  <2> QED
    BY <1>5, <2>2 DEF Image
<1>7. CASE todo' = <<>>
  BY <1>6, <1>7
<1>8. CASE todo' = <<Image(keys)>>
  BY <1>5, <1>6, <1>8
<1>9. CASE mode # "native" /\ todo' = StatementsOf(keys)
  <2> DEFINE m == (Len(keys) + StatementRows - 1) \div StatementRows
             First(i) == (i - 1) * StatementRows + 1
             Until(i) == Min({i * StatementRows, Len(keys)})
  <2>1. m \in Nat
    BY <1>1, <1>4
  <2>2. todo' = [i \in 1..m |-> Image(SubSeq(keys, First(i), Until(i)))]
    BY <1>9 DEF StatementsOf
  <2>3. ASSUME NEW i \in 1..m
        PROVE  First(i) \in Nat \ {0} /\ Until(i) \in Nat /\ Until(i) <= Len(keys)
    <3>1. i - 1 \in Nat /\ i \in Nat
      BY <2>1
    <3>2. (i - 1) * StatementRows \in Nat /\ i * StatementRows \in Nat
      BY <1>1, <3>1
    <3>3. Len(keys) \in Nat
      BY <1>4
    <3>4. Until(i) \in Nat /\ Until(i) <= Len(keys)
      BY <3>2, <3>3, MinFacts
    <3> QED
      BY <3>2, <3>4
  <2> HIDE DEF m, First, Until
  <2>4. ASSUME NEW i \in 1..m
        PROVE  /\ todo'[i] \in Images /\ DOMAIN todo'[i] \subseteq Range(keys)
               /\ \A k \in DOMAIN todo'[i] : todo'[i][k] = version[table][k]
    <3>1. todo'[i] = Image(SubSeq(keys, First(i), Until(i)))
      BY <2>2
    <3> QED
      BY <1>4, <2>3, <3>1, PieceFacts
  <2>5. todo' \in Seq(Images) /\ DOMAIN todo' = 1..m
    BY <2>1, <2>2, <2>4
  <2> QED
    BY <1>6, <2>4, <2>5
<1> QED
  BY <1>5, <1>7, <1>8, <1>9 DEF StatementsOf

(* Only an update of the source changes a version.                         *)
LEMMA VersionStep ==
  ASSUME TypeOK,
         [Next]_vars
  PROVE  version' = version \/ \E r \in Changing : Edit(r[1], r[2])
<1>1. ASSUME NEW row \in Changing, Edit(row[1], row[2])
      PROVE  version' = version \/ \E r \in Changing : Edit(r[1], r[2])
  BY <1>1
<1>2. ASSUME NEW o \in DOMAIN ops, Send(o)
      PROVE  version' = version \/ \E r \in Changing : Edit(r[1], r[2])
  BY <1>2 DEF Send, sourceVars
<1>3. ASSUME NEW o \in DOMAIN ops, Finish(o)
      PROVE  version' = version \/ \E r \in Changing : Edit(r[1], r[2])
  BY <1>3 DEF Finish, sourceVars
<1>4. ASSUME NEW o \in DOMAIN ops, Fail(o)
      PROVE  version' = version \/ \E r \in Changing : Edit(r[1], r[2])
  BY <1>4 DEF Fail, sourceVars
<1>5. ASSUME NEW o \in DOMAIN ops, RecoverStatement(o)
      PROVE  version' = version \/ \E r \in Changing : Edit(r[1], r[2])
  BY <1>5 DEF RecoverStatement, sourceVars
<1>6. ASSUME NEW o \in DOMAIN ops, RecoverCommit(o)
      PROVE  version' = version \/ \E r \in Changing : Edit(r[1], r[2])
  BY <1>6 DEF RecoverCommit, sourceVars
<1>7. ASSUME NEW o \in DOMAIN ops, CleanupIntent(o)
      PROVE  version' = version \/ \E r \in Changing : Edit(r[1], r[2])
  BY <1>7 DEF CleanupIntent, sourceVars
<1>8. ASSUME StartRun
      PROVE  version' = version \/ \E r \in Changing : Edit(r[1], r[2])
  BY <1>8 DEF StartRun, sourceVars
<1>9. ASSUME UpgradeJobNativeRebuild
      PROVE  version' = version \/ \E r \in Changing : Edit(r[1], r[2])
  BY <1>9 DEF UpgradeJobNativeRebuild, sourceVars
<1>10. ASSUME RequestJobRebuild
       PROVE  version' = version \/ \E r \in Changing : Edit(r[1], r[2])
  BY <1>10 DEF RequestJobRebuild, sourceVars
<1>11. ASSUME RecoverDone
       PROVE  version' = version \/ \E r \in Changing : Edit(r[1], r[2])
  BY <1>11 DEF RecoverDone, sourceVars
<1>12. ASSUME RecordIcebergTrinoQuery
       PROVE  version' = version \/ \E r \in Changing : Edit(r[1], r[2])
  BY <1>12 DEF RecordIcebergTrinoQuery, sourceVars
<1>13. ASSUME ValidateSnapshotSourceTables
       PROVE  version' = version \/ \E r \in Changing : Edit(r[1], r[2])
  BY <1>13 DEF ValidateSnapshotSourceTables, sourceVars
<1>14. ASSUME ResetIssued
       PROVE  version' = version \/ \E r \in Changing : Edit(r[1], r[2])
  BY <1>14 DEF ResetIssued, sourceVars
<1>15. ASSUME ResetSnapshotSourceTable
       PROVE  version' = version \/ \E r \in Changing : Edit(r[1], r[2])
  BY <1>15 DEF ResetSnapshotSourceTable, sourceVars
<1>16. ASSUME ResetFinished
       PROVE  version' = version \/ \E r \in Changing : Edit(r[1], r[2])
  BY <1>16 DEF ResetFinished, sourceVars
<1>17. ASSUME SaveSnapshotStart
       PROVE  version' = version \/ \E r \in Changing : Edit(r[1], r[2])
  BY <1>17 DEF SaveSnapshotStart
<1>18. ASSUME SnapshotStart
       PROVE  version' = version \/ \E r \in Changing : Edit(r[1], r[2])
  BY <1>18 DEF SnapshotStart, sourceVars
<1>19. ASSUME PlanTables
       PROVE  version' = version \/ \E r \in Changing : Edit(r[1], r[2])
  BY <1>19 DEF PlanTables, sourceVars
<1>20. ASSUME ReadChunk
       PROVE  version' = version \/ \E r \in Changing : Edit(r[1], r[2])
  BY <1>20 DEF ReadChunk, sourceVars
<1>21. ASSUME TableCopied
       PROVE  version' = version \/ \E r \in Changing : Edit(r[1], r[2])
  BY <1>21 DEF TableCopied, sourceVars
<1>22. ASSUME BatchWritten
       PROVE  version' = version \/ \E r \in Changing : Edit(r[1], r[2])
  BY <1>22 DEF BatchWritten, sourceVars
<1>23. ASSUME MergeIssued
       PROVE  version' = version \/ \E r \in Changing : Edit(r[1], r[2])
  BY <1>23 DEF MergeIssued, sourceVars
<1>24. ASSUME MergeRows
       PROVE  version' = version \/ \E r \in Changing : Edit(r[1], r[2])
  BY <1>24 DEF MergeRows, sourceVars
<1>25. ASSUME MergeFinished
       PROVE  version' = version \/ \E r \in Changing : Edit(r[1], r[2])
  BY <1>25 DEF MergeFinished, sourceVars
<1>26. ASSUME CommitRows
       PROVE  version' = version \/ \E r \in Changing : Edit(r[1], r[2])
  BY <1>26 DEF CommitRows, sourceVars
<1>27. ASSUME CommitAccepted
       PROVE  version' = version \/ \E r \in Changing : Edit(r[1], r[2])
  BY <1>27 DEF CommitAccepted, sourceVars
<1>28. ASSUME CommitRejected
       PROVE  version' = version \/ \E r \in Changing : Edit(r[1], r[2])
  BY <1>28 DEF CommitRejected, sourceVars
<1>29. ASSUME Acknowledged
       PROVE  version' = version \/ \E r \in Changing : Edit(r[1], r[2])
  BY <1>29 DEF Acknowledged, sourceVars
<1>30. ASSUME SourceRetry
       PROVE  version' = version \/ \E r \in Changing : Edit(r[1], r[2])
  BY <1>30 DEF SourceRetry, sourceVars
<1>31. ASSUME ConfirmCompletion
       PROVE  version' = version \/ \E r \in Changing : Edit(r[1], r[2])
  BY <1>31 DEF ConfirmCompletion, sourceVars
<1>32. ASSUME Copied
       PROVE  version' = version \/ \E r \in Changing : Edit(r[1], r[2])
  BY <1>32 DEF Copied, sourceVars
<1>33. ASSUME RunEnds
       PROVE  version' = version \/ \E r \in Changing : Edit(r[1], r[2])
  BY <1>33 DEF RunEnds, sourceVars
<1>34. ASSUME UNCHANGED vars
       PROVE  version' = version \/ \E r \in Changing : Edit(r[1], r[2])
  BY <1>34 DEF vars, sourceVars
<1> QED
  BY <1>1, <1>2, <1>3, <1>4, <1>5, <1>6, <1>7, <1>8, <1>9, <1>10, <1>11,
     <1>12, <1>13, <1>14, <1>15, <1>16, <1>17, <1>18, <1>19, <1>20, <1>21,
     <1>22, <1>23, <1>24, <1>25, <1>26, <1>27, <1>28, <1>29, <1>30, <1>31,
     <1>32, <1>33, <1>34 DEF Next

\* What a step does to the chunk: the run writes no chunk any more, waits,
\* or goes on with what is still to be written.
Leaves == pc' \notin {"write", "exec"}
Waits == UNCHANGED <<pc, chunk, todo, table, epoch>>
Writes ==
  /\ Copying /\ pc' = "write" /\ UNCHANGED <<chunk, table, epoch>>
  /\ todo' \in {todo, Tail(todo)} /\ todo # <<>>

(* What a step does to the chunk.                                          *)
LEMMA ChunkWays ==
  ASSUME TypeOK, ChunkOK,
         [Next]_vars
  PROVE  Len(ops') # Len(ops) \/ ReadChunk \/ Leaves \/ Waits \/ Writes
<1>0. ops \in Seq(OpRecord) /\ Len(ops) \in Nat
  BY DEF TypeOK
<1>1. ASSUME NEW row \in Changing, Edit(row[1], row[2])
      PROVE  Len(ops') # Len(ops) \/ ReadChunk \/ Leaves \/ Waits \/ Writes
  BY <1>1 DEF Edit, durableVars, memoryVars, Waits
<1>2. ASSUME NEW o \in DOMAIN ops, Send(o)
      PROVE  Len(ops') # Len(ops) \/ ReadChunk \/ Leaves \/ Waits \/ Writes
  BY <1>2 DEF Send, sourceVars, durableVars, memoryVars, Waits
<1>3. ASSUME NEW o \in DOMAIN ops, Finish(o)
      PROVE  Len(ops') # Len(ops) \/ ReadChunk \/ Leaves \/ Waits \/ Writes
  BY <1>3 DEF Finish, sourceVars, durableVars, memoryVars, Waits
<1>4. ASSUME NEW o \in DOMAIN ops, Fail(o)
      PROVE  Len(ops') # Len(ops) \/ ReadChunk \/ Leaves \/ Waits \/ Writes
  BY <1>4 DEF Fail, sourceVars, durableVars, memoryVars, Waits
<1>5. ASSUME NEW o \in DOMAIN ops, RecoverStatement(o)
      PROVE  Len(ops') # Len(ops) \/ ReadChunk \/ Leaves \/ Waits \/ Writes
  BY <1>5 DEF RecoverStatement, sourceVars, durableVars, Waits
<1>6. ASSUME NEW o \in DOMAIN ops, RecoverCommit(o)
      PROVE  Len(ops') # Len(ops) \/ ReadChunk \/ Leaves \/ Waits \/ Writes
  BY <1>6 DEF RecoverCommit, sourceVars, durableVars, Waits
<1>7. ASSUME NEW o \in DOMAIN ops, CleanupIntent(o)
      PROVE  Len(ops') # Len(ops) \/ ReadChunk \/ Leaves \/ Waits \/ Writes
  BY <1>7 DEF CleanupIntent, sourceVars, durableVars, memoryVars, Waits
<1>8. ASSUME StartRun
      PROVE  Len(ops') # Len(ops) \/ ReadChunk \/ Leaves \/ Waits \/ Writes
  BY <1>8 DEF StartRun, Goto, sourceVars, durableVars, memoryVars, Leaves
<1>9. ASSUME UpgradeJobNativeRebuild
      PROVE  Len(ops') # Len(ops) \/ ReadChunk \/ Leaves \/ Waits \/ Writes
  BY <1>9 DEF UpgradeJobNativeRebuild, sourceVars, memoryVars, Waits
<1>10. ASSUME RequestJobRebuild
       PROVE  Len(ops') # Len(ops) \/ ReadChunk \/ Leaves \/ Waits \/ Writes
  BY <1>10 DEF RequestJobRebuild, sourceVars, memoryVars, Leaves
<1>11. ASSUME RecoverDone
       PROVE  Len(ops') # Len(ops) \/ ReadChunk \/ Leaves \/ Waits \/ Writes
  BY <1>11
     DEF RecoverDone, Goto, sourceVars, durableVars, memoryVars, Leaves,
         TypeOK
<1>12. ASSUME RecordIcebergTrinoQuery
       PROVE  Len(ops') # Len(ops) \/ ReadChunk \/ Leaves \/ Waits \/ Writes
  BY <1>12
     DEF RecordIcebergTrinoQuery, sourceVars, durableVars, memoryVars, Waits
<1>13. ASSUME ValidateSnapshotSourceTables
       PROVE  Len(ops') # Len(ops) \/ ReadChunk \/ Leaves \/ Waits \/ Writes
  BY <1>13
     DEF ValidateSnapshotSourceTables, Goto, sourceVars, durableVars,
         memoryVars, Leaves
<1>14. ASSUME ResetIssued
       PROVE  Len(ops') # Len(ops) \/ ReadChunk \/ Leaves \/ Waits \/ Writes
  BY <1>14 DEF ResetIssued, ResetApplied, Goto, sourceVars, durableVars, Leaves
<1>15. ASSUME ResetSnapshotSourceTable
       PROVE  Len(ops') # Len(ops) \/ ReadChunk \/ Leaves \/ Waits \/ Writes
  <2>1. \E new : ops' = Append(ops, new)
    BY <1>15 DEF ResetSnapshotSourceTable, Begin
  <2> QED
    BY <1>0, <2>1
<1>16. ASSUME ResetFinished
       PROVE  Len(ops') # Len(ops) \/ ReadChunk \/ Leaves \/ Waits \/ Writes
  BY <1>16
     DEF ResetFinished, ResetApplied, Goto, sourceVars, durableVars, Leaves
<1>17. ASSUME SaveSnapshotStart
       PROVE  Len(ops') # Len(ops) \/ ReadChunk \/ Leaves \/ Waits \/ Writes
  BY <1>17 DEF SaveSnapshotStart, Goto, memoryVars, Leaves
<1>18. ASSUME SnapshotStart
       PROVE  Len(ops') # Len(ops) \/ ReadChunk \/ Leaves \/ Waits \/ Writes
  BY <1>18 DEF SnapshotStart, Goto, sourceVars, durableVars, Leaves
<1>19. ASSUME PlanTables
       PROVE  Len(ops') # Len(ops) \/ ReadChunk \/ Leaves \/ Waits \/ Writes
  BY <1>19 DEF PlanTables, Goto, sourceVars, durableVars, memoryVars, Leaves
<1>20. ASSUME ReadChunk
       PROVE  Len(ops') # Len(ops) \/ ReadChunk \/ Leaves \/ Waits \/ Writes
  BY <1>20
<1>21. ASSUME TableCopied
       PROVE  Len(ops') # Len(ops) \/ ReadChunk \/ Leaves \/ Waits \/ Writes
  BY <1>21 DEF TableCopied, Goto, sourceVars, durableVars, memoryVars, Leaves
<1>22. ASSUME BatchWritten
       PROVE  Len(ops') # Len(ops) \/ ReadChunk \/ Leaves \/ Waits \/ Writes
  BY <1>22 DEF BatchWritten, Goto, sourceVars, durableVars, memoryVars, Leaves
<1>23. ASSUME MergeIssued
       PROVE  Len(ops') # Len(ops) \/ ReadChunk \/ Leaves \/ Waits \/ Writes
  BY <1>23 DEF MergeIssued, sourceVars, durableVars, Writes, Copying, ChunkOK
<1>24. ASSUME MergeRows
       PROVE  Len(ops') # Len(ops) \/ ReadChunk \/ Leaves \/ Waits \/ Writes
  <2>1. \E new : ops' = Append(ops, new)
    BY <1>24 DEF MergeRows, Begin
  <2> QED
    BY <1>0, <2>1
<1>25. ASSUME MergeFinished
       PROVE  Len(ops') # Len(ops) \/ ReadChunk \/ Leaves \/ Waits \/ Writes
  BY <1>25
     DEF MergeFinished, Goto, sourceVars, durableVars, Writes, Copying,
         ChunkOK
<1>26. ASSUME CommitRows
       PROVE  Len(ops') # Len(ops) \/ ReadChunk \/ Leaves \/ Waits \/ Writes
  <2>1. \E new : ops' = Append(ops, new)
    BY <1>26 DEF CommitRows, Begin
  <2> QED
    BY <1>0, <2>1
<1>27. ASSUME CommitAccepted
       PROVE  Len(ops') # Len(ops) \/ ReadChunk \/ Leaves \/ Waits \/ Writes
  BY <1>27
     DEF CommitAccepted, Goto, sourceVars, durableVars, Writes, Copying,
         ChunkOK, Statement
<1>28. ASSUME CommitRejected
       PROVE  Len(ops') # Len(ops) \/ ReadChunk \/ Leaves \/ Waits \/ Writes
  BY <1>28
     DEF CommitRejected, Goto, sourceVars, durableVars, memoryVars, Writes,
         Copying, ChunkOK, Statement
<1>29. ASSUME Acknowledged
       PROVE  Len(ops') # Len(ops) \/ ReadChunk \/ Leaves \/ Waits \/ Writes
  BY <1>29 DEF Acknowledged, Goto, sourceVars, Leaves
<1>30. ASSUME SourceRetry
       PROVE  Len(ops') # Len(ops) \/ ReadChunk \/ Leaves \/ Waits \/ Writes
  BY <1>30 DEF SourceRetry, Goto, sourceVars, durableVars, Leaves
<1>31. ASSUME ConfirmCompletion
       PROVE  Len(ops') # Len(ops) \/ ReadChunk \/ Leaves \/ Waits \/ Writes
  BY <1>31 DEF ConfirmCompletion, Goto, sourceVars, memoryVars, Leaves
<1>32. ASSUME Copied
       PROVE  Len(ops') # Len(ops) \/ ReadChunk \/ Leaves \/ Waits \/ Writes
  BY <1>32 DEF Copied, Goto, sourceVars, memoryVars, Leaves
<1>33. ASSUME RunEnds
       PROVE  Len(ops') # Len(ops) \/ ReadChunk \/ Leaves \/ Waits \/ Writes
  BY <1>33 DEF RunEnds, EndRun, sourceVars, durableVars, Leaves
<1>34. ASSUME UNCHANGED vars
       PROVE  Len(ops') # Len(ops) \/ ReadChunk \/ Leaves \/ Waits \/ Writes
  BY <1>34 DEF vars, sourceVars, durableVars, memoryVars, Waits
<1> QED
  BY <1>1, <1>2, <1>3, <1>4, <1>5, <1>6, <1>7, <1>8, <1>9, <1>10, <1>11,
     <1>12, <1>13, <1>14, <1>15, <1>16, <1>17, <1>18, <1>19, <1>20, <1>21,
     <1>22, <1>23, <1>24, <1>25, <1>26, <1>27, <1>28, <1>29, <1>30, <1>31,
     <1>32, <1>33, <1>34 DEF Next

(* Versions only grow.                                                     *)
LEMMA VersionsGrow ==
  ASSUME TypeOK, [Next]_vars
  PROVE  /\ version' \in [Table -> [Keys -> 0..MaxEdits]]
         /\ \A t \in Table, k \in Keys :
              version[t][k] \in Nat /\ version'[t][k] \in Nat
              /\ version[t][k] <= version'[t][k]
<1>0. version \in [Table -> [Keys -> 0..MaxEdits]] /\ MaxEdits \in Nat
  BY RebuildAssumption DEF TypeOK
<1>1. CASE version' = version
  BY <1>0, <1>1
<1>2. CASE \E r \in Changing : Edit(r[1], r[2])
  <2>1. PICK r \in Changing : Edit(r[1], r[2])
    BY <1>2
  <2>2. r[1] \in Table /\ r[2] \in Keys
    BY RebuildAssumption DEF Table
  <2>3. /\ version[r[1]][r[2]] < MaxEdits
        /\ version' = [version EXCEPT ![r[1]][r[2]] = version[r[1]][r[2]] + 1]
    BY <2>1 DEF Edit
  <2>4. version[r[1]][r[2]] + 1 \in 0..MaxEdits
    BY <1>0, <2>2, <2>3
  <2> QED
    BY <1>0, <2>2, <2>3, <2>4
<1> QED
  BY <1>1, <1>2, VersionStep

\* The engine writes nothing newer than v to a row.
NothingNewer(t, k, v) ==
  \A o \in DOMAIN ops :
    Finish(o) /\ ops[o].table = t /\ k \in DOMAIN ops[o].rows => ops[o].rows[k] <= v

(* An image that is fresh stays so, unless something newer is written.     *)
LEMMA FreshValue ==
  ASSUME TypeOK, [Next]_vars, epoch' = epoch, NEW t \in Table, NEW k \in Keys,
         NEW v \in Nat, Fresh(t, k, v), NothingNewer(t, k, v)
  PROVE  /\ v <= version'[t][k]
         /\ target'[t][k].epoch = epoch' => target'[t][k].version <= v
<1>1. v <= version'[t][k]
  BY VersionsGrow DEF Fresh
<1>2. CASE NoResult
  BY <1>1, <1>2 DEF Fresh, NoResult
<1>3. CASE \E o \in DOMAIN ops : Finish(o)
  <2>1. PICK o \in DOMAIN ops : Finish(o)
    BY <1>3
  <2> DEFINE op == ops[o]
  <2>2. /\ Absent.epoch = 0 /\ epoch > 0
        /\ \A n : Written(op, k, n).version = op.rows[k]
    BY RebuildAssumption DEF Absent, Written, TypeOK
  <2> HIDE DEF op
  <2>3. \/ target'[t][k] = target[t][k]
        \/ target'[t][k] = Absent
        \/ /\ op.table = t /\ k \in DOMAIN op.rows
           /\ \E n : target'[t][k] = Written(op, k, n)
    BY <2>1, EffectFacts DEF op
  <2>4. CASE target'[t][k] = target[t][k]
    BY <1>1, <2>4 DEF Fresh
  <2>5. CASE target'[t][k] = Absent
    BY <1>1, <2>2, <2>5 DEF Fresh
  <2>6. CASE /\ op.table = t /\ k \in DOMAIN op.rows
             /\ \E n : target'[t][k] = Written(op, k, n)
    <3>1. op.rows[k] <= v
      BY <2>1, <2>6 DEF NothingNewer, op
    <3> QED
      BY <1>1, <2>2, <2>6, <3>1 DEF Fresh
  <2> QED
    BY <2>3, <2>4, <2>5, <2>6
<1> QED
  BY <1>2, <1>3, ResultStep

(* No target is newer than the source or of a later submission, in every   *)
(* step.                                                                   *)
LEMMA CellsStep ==
  ASSUME TypeOK, UnseenInv, CopyOK, CellsOK, ActiveFresh, [Next]_vars
  PROVE  CellsOK'
<1> SUFFICES ASSUME NEW t \in Table, NEW k \in Keys
             PROVE  /\ target'[t][k].epoch <= epoch'
                    /\ target'[t][k].version <= version'[t][k]
  BY DEF CellsOK
<1>1. /\ epoch \in Nat /\ epoch' \in {epoch, epoch + 1}
      /\ version[t][k] \in Nat /\ version'[t][k] \in Nat
      /\ version[t][k] <= version'[t][k]
  BY EpochNumbers, VersionsGrow, EpochStep DEF SameEpoch, RequestJobRebuild
<1>2. target[t][k].epoch \in Nat /\ target[t][k].version \in Nat
  <2>1. target[t][k] \in Cell
    BY DEF TypeOK
  <2> QED
    BY <2>1 DEF Cell
<1>3. target[t][k].epoch <= epoch /\ target[t][k].version <= version[t][k]
  BY DEF CellsOK
<1>4. CASE target'[t][k] = target[t][k]
  BY <1>1, <1>2, <1>3, <1>4
<1>5. CASE target'[t][k] = Absent
  BY <1>1, <1>5 DEF Absent
<1>6. CASE \E o \in DOMAIN ops : /\ Finish(o) /\ k \in DOMAIN ops[o].rows
                               /\ ops[o].table = t
                               /\ \E n : target'[t][k] = Written(ops[o], k, n)
  <2>1. PICK o \in DOMAIN ops : /\ Finish(o) /\ k \in DOMAIN ops[o].rows
                               /\ ops[o].table = t
                               /\ \E n : target'[t][k] = Written(ops[o], k, n)
    BY <1>6
  <2>2. target'[t][k].epoch = ops[o].epoch /\ target'[t][k].version = ops[o].rows[k]
    BY <2>1 DEF Written
  <2>3. Active(o) /\ ops[o].epoch = epoch
    BY <2>1 DEF Finish, Active, UnseenInv, NothingActsUnseen
  <2>4. ops[o].rows[k] <= version[t][k]
    BY <2>1, <2>3 DEF ActiveFresh, Fresh
  <2>5. ops[o].rows[k] \in Nat
    <3>1. ops[o].rows \in Images
      <4>1. ops[o] \in OpRecord
        BY DEF TypeOK
      <4> QED
        BY <4>1 DEF OpRecord
    <3> QED
      BY <2>1, <3>1, ImageFacts
  <2> QED
    BY <1>1, <2>2, <2>3, <2>4, <2>5
<1>7. CASE NoResult
  BY <1>4, <1>7 DEF NoResult
<1>8. CASE \E o \in DOMAIN ops : Finish(o)
  BY <1>4, <1>5, <1>6, <1>8, EffectFacts
<1> QED
  BY <1>7, <1>8, ResultStep

(* The rows of an operation are an image.                                  *)
LEMMA RowsNatural ==
  ASSUME TypeOK, NEW o \in DOMAIN ops
  PROVE  /\ ops[o].table \in Table /\ DOMAIN ops[o].rows \subseteq Keys
         /\ \A k \in DOMAIN ops[o].rows :
              ops[o].rows[k] \in Nat /\ ops[o].rows[k] <= MaxEdits
<1>1. ops[o] \in OpRecord
  BY DEF TypeOK
<1>2. ops[o].rows \in Images /\ ops[o].table \in Table
  BY <1>1 DEF OpRecord
<1> QED
  BY <1>2, ImageFacts

(* What may still act is not older than what has been written, in every    *)
(* step.                                                                   *)
LEMMA ActiveStep ==
  ASSUME TypeOK, UnseenInv, ActiveFresh, ChunkOK, [Next]_vars
  PROVE  ActiveFresh'
<1> SUFFICES ASSUME NEW o \in DOMAIN ops', Active(o)', NEW k \in DOMAIN ops'[o].rows
             PROVE  /\ ops'[o].rows[k] <= version'[ops'[o].table][k]
                    /\ target'[ops'[o].table][k].epoch = epoch' =>
                         target'[ops'[o].table][k].version <= ops'[o].rows[k]
  BY DEF ActiveFresh, Fresh
<1>1. CASE QuietOps
  <2>1. /\ o \in DOMAIN ops /\ Active(o) /\ ops'[o].rows = ops[o].rows
        /\ ops'[o].table = ops[o].table /\ Len(ops') = Len(ops)
    BY <1>1 DEF QuietOps
  <2>2. epoch' = epoch
    BY <2>1, MoveStep DEF Moved
  <2> DEFINE t == ops[o].table
             v == ops[o].rows[k]
  <2>3. Fresh(t, k, v) /\ t \in Table /\ k \in Keys /\ v \in Nat
    BY <2>1, RowsNatural DEF ActiveFresh
  <2>4. NothingNewer(t, k, v)
    <3> SUFFICES ASSUME NEW p \in DOMAIN ops, Finish(p), k \in DOMAIN ops[p].rows
                 PROVE  ops[p].rows[k] <= v
      BY DEF NothingNewer
    <3>1. p = Current /\ o = Current
      BY <2>1 DEF Finish, Active, UnseenInv, LastActs
    <3> QED
      BY <2>3, <3>1
  <2> HIDE DEF t, v
  <2>5. /\ v <= version'[t][k]
        /\ target'[t][k].epoch = epoch' => target'[t][k].version <= v
    BY <2>2, <2>3, <2>4, FreshValue
  <2> QED
    BY <2>1, <2>5 DEF Fresh, t, v
<1>2. CASE Begun
  <2>1. /\ pc \in {"reset", "write"}
        /\ UNCHANGED <<version, epoch, target, table>>
    BY <1>2 DEF Begun, BegunReset, BegunRows
  <2>2. PICK do, rows :
          /\ BegunOps(do, rows)
          /\ rows = Nothing \/ (pc = "write" /\ todo # <<>> /\ rows = Head(todo))
    BY <1>2 DEF Begun, BegunReset, BegunRows
  <2>3. o \notin DOMAIN ops
    <3>1. \A p \in DOMAIN ops : ops'[p] = ops[p] /\ ~Active(p)
      BY <2>1, <2>2 DEF BegunOps, UnseenInv, NothingActsUnseen, Active
    <3> QED
      BY <3>1 DEF Active
  <2>4. ops'[o].rows = rows /\ ops'[o].table = table
    BY <2>2, <2>3 DEF BegunOps
  <2>5. pc = "write" /\ todo # <<>> /\ rows = Head(todo)
    BY <2>2, <2>4 DEF Nothing
  <2>6. Within(rows)
    BY <2>5 DEF ChunkOK, Copying, TypeOK
  <2>7. Fresh(table, k, rows[k])
    BY <2>4, <2>5, <2>6 DEF ChunkOK, Copying, Within
  <2> QED
    BY <2>1, <2>4, <2>7 DEF Fresh
<1> QED
  BY <1>1, <1>2, OpsStep

(* What the run still writes of its chunk stays fresh.                     *)
LEMMA ChunkFresh ==
  ASSUME TypeOK, UnseenInv, ChunkOK, Copying, [Next]_vars, epoch' = epoch,
         NEW k \in DOMAIN chunk
  PROVE  Fresh(table, k, chunk[k])
         /\ chunk[k] <= version'[table][k]
         /\ (target'[table][k].epoch = epoch' => target'[table][k].version <= chunk[k])
<1>1. Fresh(table, k, chunk[k]) /\ table \in Table /\ k \in Keys /\ chunk[k] \in Nat
  BY ImageFacts DEF ChunkOK, TypeOK
<1>2. NothingNewer(table, k, chunk[k])
  <2> SUFFICES ASSUME NEW p \in DOMAIN ops, Finish(p), k \in DOMAIN ops[p].rows
               PROVE  ops[p].rows[k] <= chunk[k]
    BY DEF NothingNewer
  <2>1. p = Current /\ pc = "exec"
    BY DEF Finish, Active, UnseenInv, LastActs, NothingActsUnseen, Copying
  <2>2. ops[p].rows[k] = chunk[k]
    BY <2>1 DEF ChunkOK, Within
  <2> QED
    BY <1>1, <2>2
<1> DEFINE t == table
           v == chunk[k]
<1>3. Fresh(t, k, v) /\ t \in Table /\ k \in Keys /\ v \in Nat /\ NothingNewer(t, k, v)
  BY <1>1, <1>2
<1> HIDE DEF t, v
<1>4. /\ v <= version'[t][k]
      /\ target'[t][k].epoch = epoch' => target'[t][k].version <= v
  BY <1>3, FreshValue
<1> QED
  BY <1>1, <1>4 DEF t, v

(* The chunk, in every step.                                               *)
LEMMA ChunkStep ==
  ASSUME TypeOK, UnseenInv, CopyOK, CellsOK, ChunkOK, [Next]_vars
  PROVE  ChunkOK'
<1> SUFFICES ASSUME Copying'
             PROVE  /\ \A i \in DOMAIN todo' : Within(todo[i])'
                    /\ \A k \in DOMAIN chunk' : Fresh(table, k, chunk[k])'
                    /\ pc' = "exec" => Within(ops[Current].rows)' /\ todo' # <<>>
  BY DEF ChunkOK
<1>1. CASE Begun
  <2>1. PICK do, rows :
          /\ BegunOps(do, rows)
          /\ \/ do = "reset"
             \/ pc = "write" /\ todo # <<>> /\ rows = Head(todo)
    BY <1>1 DEF Begun, BegunReset, BegunRows
  <2>2. /\ pc' = "exec"
        /\ UNCHANGED <<version, epoch, target, table, chunk, todo>>
    BY <1>1 DEF Begun
  <2>3. ops'[Current'].do = do /\ ops'[Current'].rows = rows
    BY <2>1 DEF BegunOps, Current
  <2>4. pc = "write" /\ todo # <<>> /\ rows = Head(todo)
    BY <2>1, <2>2, <2>3 DEF Copying
  <2>5. Copying /\ Within(rows)
    BY <2>4 DEF ChunkOK, Copying, TypeOK
  <2> QED
    BY <2>2, <2>3, <2>4, <2>5 DEF ChunkOK, Within, Fresh
<1>2. CASE QuietOps /\ ReadChunk
  <2>1. /\ UNCHANGED <<version, epoch, target, table>> /\ pc' = "write"
    BY <1>2 DEF ReadChunk, Goto, sourceVars, durableVars
  <2>2. ASSUME NEW k \in DOMAIN chunk'
        PROVE  Fresh(table, k, chunk[k])'
    <3>1. chunk'[k] = version[table][k] /\ k \in Keys /\ table \in Table
      BY <1>2, <2>2, ReadFacts, ImageFacts DEF TypeOK
    <3>2. version[table][k] \in Nat /\ target[table][k].version <= version[table][k]
      BY <3>1, VersionsGrow DEF CellsOK
    <3> QED
      BY <2>1, <3>1, <3>2 DEF Fresh
  <2>3. \A i \in DOMAIN todo' : Within(todo[i])'
    BY <1>2, ReadFacts DEF Within
  <2> QED
    BY <2>1, <2>2, <2>3
<1>3. CASE QuietOps /\ (Waits \/ Writes)
  <2>1. UNCHANGED <<chunk, table, epoch>>
    BY <1>3 DEF Waits, Writes
  <2>2. Copying
    BY <1>3 DEF Waits, Writes, Copying, QuietOps, Current, UnseenInv, ExecOK
  <2>3. \A k \in DOMAIN chunk' : Fresh(table, k, chunk[k])'
    BY <2>1, <2>2, ChunkFresh DEF Fresh
  <2>4. \A i \in DOMAIN todo : Within(todo[i])
    BY <2>2 DEF ChunkOK
  <2>5. CASE todo' = todo
    <3>1. pc' = "exec" => pc = "exec" /\ ops'[Current'].rows = ops[Current].rows
      BY <1>3 DEF Waits, Writes, QuietOps, Current, UnseenInv, ExecOK
    <3> QED
      BY <2>1, <2>2, <2>3, <2>4, <2>5, <3>1 DEF ChunkOK, Within
  <2>6. CASE todo' = Tail(todo) /\ todo # <<>> /\ pc' = "write"
    <3>1. \A i \in DOMAIN todo' : i + 1 \in DOMAIN todo /\ todo'[i] = todo[i + 1]
      BY <2>6 DEF TypeOK
    <3> QED
      BY <2>1, <2>3, <2>4, <2>6, <3>1 DEF Within
  <2> QED
    BY <1>3, <2>5, <2>6 DEF Waits, Writes
<1> QED
  BY <1>1, <1>2, <1>3, OpsStep, ChunkWays DEF QuietOps, Leaves, Copying

(* A row never goes back to an older image.                                *)
LEMMA ForwardStep ==
  ASSUME TypeOK, UnseenInv, CellsOK, ActiveFresh, [Next]_vars,
         NEW t \in Table, NEW k \in Keys, target'[t][k].n > 0
  PROVE  \/ target[t][k].epoch < target'[t][k].epoch
         \/ /\ target[t][k].epoch = target'[t][k].epoch
            /\ target[t][k].version <= target'[t][k].version
<1>1. /\ target[t][k].epoch \in Nat /\ target[t][k].version \in Nat
      /\ target[t][k].epoch <= epoch /\ epoch \in Nat
  <2>1. target[t][k] \in Cell
    BY DEF TypeOK
  <2> QED
    BY <2>1, EpochNumbers DEF Cell, CellsOK
<1>2. CASE target'[t][k] = target[t][k]
  BY <1>1, <1>2
<1>3. CASE \E o \in DOMAIN ops : /\ Finish(o) /\ k \in DOMAIN ops[o].rows
                               /\ ops[o].table = t
                               /\ \E n : target'[t][k] = Written(ops[o], k, n)
  <2>1. PICK o \in DOMAIN ops : /\ Finish(o) /\ k \in DOMAIN ops[o].rows
                               /\ ops[o].table = t
                               /\ \E n : target'[t][k] = Written(ops[o], k, n)
    BY <1>3
  <2>2. target'[t][k].epoch = ops[o].epoch /\ target'[t][k].version = ops[o].rows[k]
    BY <2>1 DEF Written
  <2>3. Active(o) /\ ops[o].epoch = epoch
    BY <2>1 DEF Finish, Active, UnseenInv, NothingActsUnseen
  <2>4. target[t][k].epoch = epoch => target[t][k].version <= ops[o].rows[k]
    BY <2>1, <2>3 DEF ActiveFresh, Fresh
  <2> QED
    BY <1>1, <2>2, <2>3, <2>4
<1>4. target'[t][k] # Absent
  BY DEF Absent
<1>5. CASE NoResult
  BY <1>2, <1>5 DEF NoResult
<1>6. CASE \E o \in DOMAIN ops : Finish(o)
  BY <1>2, <1>3, <1>4, <1>6, EffectFacts
<1> QED
  BY <1>5, <1>6, ResultStep

(* The next table is one of the tables.                                    *)
LEMMA FollowingTyped ==
  ASSUME table \in Table
  PROVE  FollowingTable \in Table
<1>1. table \in Nat /\ Tables \in Nat \ {0}
  BY RebuildAssumption DEF Table
<1>2. table % Tables \in 0..(Tables - 1)
  BY <1>1
<1> QED
  BY <1>1, <1>2 DEF FollowingTable, Table

\* Where the job and its run are.
JobTyped ==
  /\ edited' \subseteq Table \X Keys
  /\ mode' \in {"merge", "native"}
  /\ epoch' \in 1..MaxEpochs
  /\ snap' \in {"none", "open", "done"}
  /\ run' \in 0..MaxRuns
  /\ pc' \in {"down", "recover", "validate", "reset", "exec", "start",
              "barrier", "plan", "read", "write", "append", "ack",
              "complete", "cleanup", "done"}
  /\ table' \in Table
  /\ retries' \in 0..MaxRetries

(* Where the job and its run are has its type, in every step.              *)
LEMMA JobTypedStep ==
  ASSUME TypeOK,
         [Next]_vars
  PROVE  JobTyped
<1>0. /\ edited \subseteq Table \X Keys
      /\ mode \in {"merge", "native"}
      /\ epoch \in 1..MaxEpochs /\ MaxEpochs \in Nat
      /\ snap \in {"none", "open", "done"}
      /\ run \in 0..MaxRuns /\ MaxRuns \in Nat
      /\ pc \in {"down", "recover", "validate", "reset", "exec", "start",
                "barrier", "plan", "read", "write", "append", "ack",
                "complete", "cleanup", "done"}
      /\ table \in Table /\ 1 \in Table
      /\ progress = NoProgress \/ progress.table \in Table
      /\ retries \in 0..MaxRetries /\ MaxRetries \in Nat
  <2>1. MaxEpochs \in Nat /\ MaxRuns \in Nat /\ MaxRetries \in Nat /\ 1 \in Table
    BY RebuildAssumption DEF Table
  <2>2. progress = NoProgress \/ progress \in [table : Table, at : Nat]
    BY DEF TypeOK
  <2>3. progress = NoProgress \/ progress.table \in Table
    BY <2>2
  <2> QED
    BY <2>1, <2>3 DEF TypeOK
<1>1. ASSUME NEW row \in Changing, Edit(row[1], row[2])
      PROVE  JobTyped
  <2>1. row[1] \in Table /\ row[2] \in Keys
    BY RebuildAssumption DEF Table
  <2> QED
    BY <1>1, <1>0, <2>1 DEF Edit, durableVars, memoryVars, JobTyped
<1>2. ASSUME NEW o \in DOMAIN ops, Send(o)
      PROVE  JobTyped
  BY <1>2, <1>0 DEF Send, sourceVars, durableVars, memoryVars, JobTyped
<1>3. ASSUME NEW o \in DOMAIN ops, Finish(o)
      PROVE  JobTyped
  BY <1>3, <1>0 DEF Finish, sourceVars, durableVars, memoryVars, JobTyped
<1>4. ASSUME NEW o \in DOMAIN ops, Fail(o)
      PROVE  JobTyped
  BY <1>4, <1>0 DEF Fail, sourceVars, durableVars, memoryVars, JobTyped
<1>5. ASSUME NEW o \in DOMAIN ops, RecoverStatement(o)
      PROVE  JobTyped
  BY <1>5, <1>0 DEF RecoverStatement, sourceVars, durableVars, JobTyped
<1>6. ASSUME NEW o \in DOMAIN ops, RecoverCommit(o)
      PROVE  JobTyped
  BY <1>6, <1>0 DEF RecoverCommit, sourceVars, durableVars, JobTyped
<1>7. ASSUME NEW o \in DOMAIN ops, CleanupIntent(o)
      PROVE  JobTyped
  BY <1>7, <1>0 DEF CleanupIntent, sourceVars, durableVars, memoryVars, JobTyped
<1>8. ASSUME StartRun
      PROVE  JobTyped
  BY <1>8, <1>0 DEF StartRun, Goto, sourceVars, durableVars, memoryVars, JobTyped
<1>9. ASSUME UpgradeJobNativeRebuild
      PROVE  JobTyped
  BY <1>9, <1>0 DEF UpgradeJobNativeRebuild, sourceVars, memoryVars, JobTyped
<1>10. ASSUME RequestJobRebuild
       PROVE  JobTyped
  BY <1>10, <1>0 DEF RequestJobRebuild, sourceVars, memoryVars, JobTyped
<1>11. ASSUME RecoverDone
       PROVE  JobTyped
  <2>1. pc' \in {"validate", "barrier", "complete"}
    BY <1>11, <1>0 DEF RecoverDone, Goto
  <2> QED
    BY <1>11, <1>0, <2>1
       DEF RecoverDone, sourceVars, durableVars, memoryVars, JobTyped
<1>12. ASSUME RecordIcebergTrinoQuery
       PROVE  JobTyped
  BY <1>12, <1>0
     DEF RecordIcebergTrinoQuery, sourceVars, durableVars, memoryVars, JobTyped
<1>13. ASSUME ValidateSnapshotSourceTables
       PROVE  JobTyped
  BY <1>13, <1>0
     DEF ValidateSnapshotSourceTables, Goto, sourceVars, durableVars,
         memoryVars, JobTyped
<1>14. ASSUME ResetIssued
       PROVE  JobTyped
  BY <1>14, <1>0, FollowingTyped
     DEF ResetIssued, ResetApplied, Goto, sourceVars, durableVars, JobTyped
<1>15. ASSUME ResetSnapshotSourceTable
       PROVE  JobTyped
  BY <1>15, <1>0
     DEF ResetSnapshotSourceTable, Begin, Goto, sourceVars, durableVars,
         memoryVars, JobTyped
<1>16. ASSUME ResetFinished
       PROVE  JobTyped
  BY <1>16, <1>0, FollowingTyped
     DEF ResetFinished, ResetApplied, Goto, sourceVars, durableVars, JobTyped
<1>17. ASSUME SaveSnapshotStart
       PROVE  JobTyped
  BY <1>17, <1>0 DEF SaveSnapshotStart, Goto, memoryVars, JobTyped
<1>18. ASSUME SnapshotStart
       PROVE  JobTyped
  BY <1>18, <1>0 DEF SnapshotStart, Goto, sourceVars, durableVars, JobTyped
<1>19. ASSUME PlanTables
       PROVE  JobTyped
  BY <1>19, <1>0
     DEF PlanTables, Goto, sourceVars, durableVars, memoryVars, JobTyped,
         NoProgress
<1>20. ASSUME ReadChunk
       PROVE  JobTyped
  BY <1>20, <1>0 DEF ReadChunk, Goto, sourceVars, durableVars, JobTyped
<1>21. ASSUME TableCopied
       PROVE  JobTyped
  BY <1>21, <1>0, FollowingTyped
     DEF TableCopied, Goto, sourceVars, durableVars, memoryVars, JobTyped
<1>22. ASSUME BatchWritten
       PROVE  JobTyped
  BY <1>22, <1>0
     DEF BatchWritten, Goto, sourceVars, durableVars, memoryVars, JobTyped
<1>23. ASSUME MergeIssued
       PROVE  JobTyped
  BY <1>23, <1>0 DEF MergeIssued, sourceVars, durableVars, JobTyped
<1>24. ASSUME MergeRows
       PROVE  JobTyped
  BY <1>24, <1>0
     DEF MergeRows, Begin, Goto, sourceVars, durableVars, memoryVars, JobTyped
<1>25. ASSUME MergeFinished
       PROVE  JobTyped
  BY <1>25, <1>0 DEF MergeFinished, Goto, sourceVars, durableVars, JobTyped
<1>26. ASSUME CommitRows
       PROVE  JobTyped
  BY <1>26, <1>0
     DEF CommitRows, Begin, Goto, sourceVars, durableVars, memoryVars, JobTyped
<1>27. ASSUME CommitAccepted
       PROVE  JobTyped
  BY <1>27, <1>0 DEF CommitAccepted, Goto, sourceVars, durableVars, JobTyped
<1>28. ASSUME CommitRejected
       PROVE  JobTyped
  BY <1>28, <1>0
     DEF CommitRejected, Goto, sourceVars, durableVars, memoryVars, JobTyped
<1>29. ASSUME Acknowledged
       PROVE  JobTyped
  BY <1>29, <1>0 DEF Acknowledged, Goto, sourceVars, JobTyped
<1>30. ASSUME SourceRetry
       PROVE  JobTyped
  BY <1>30, <1>0 DEF SourceRetry, Goto, sourceVars, durableVars, JobTyped
<1>31. ASSUME ConfirmCompletion
       PROVE  JobTyped
  BY <1>31, <1>0 DEF ConfirmCompletion, Goto, sourceVars, memoryVars, JobTyped
<1>32. ASSUME Copied
       PROVE  JobTyped
  BY <1>32, <1>0 DEF Copied, Goto, sourceVars, memoryVars, JobTyped
<1>33. ASSUME RunEnds
       PROVE  JobTyped
  BY <1>33, <1>0 DEF RunEnds, EndRun, sourceVars, durableVars, JobTyped
<1>34. ASSUME UNCHANGED vars
       PROVE  JobTyped
  BY <1>34, <1>0 DEF vars, sourceVars, durableVars, memoryVars, JobTyped
<1> QED
  BY <1>1, <1>2, <1>3, <1>4, <1>5, <1>6, <1>7, <1>8, <1>9, <1>10, <1>11,
     <1>12, <1>13, <1>14, <1>15, <1>16, <1>17, <1>18, <1>19, <1>20, <1>21,
     <1>22, <1>23, <1>24, <1>25, <1>26, <1>27, <1>28, <1>29, <1>30, <1>31,
     <1>32, <1>33, <1>34 DEF Next

\* What the run has saved and remembers.
MemoryTyped ==
  /\ progress' = NoProgress \/ progress' \in [table : Table, at : Nat]
  /\ at' \in Nat
  /\ chunk' \in Images
  /\ todo' \in Seq(Images)
  /\ applied' \subseteq Table
  /\ legacy' \subseteq Table
  /\ verified' \subseteq DOMAIN ops
  /\ receipts' \subseteq DOMAIN ops

(* What the run has saved and remembers has its type, in every step.       *)
LEMMA MemoryTypedStep ==
  ASSUME TypeOK, ChunkOK,
         [Next]_vars
  PROVE  MemoryTyped
<1>0. /\ progress = NoProgress \/ progress \in [table : Table, at : Nat]
      /\ at \in Nat /\ 0 \in Nat /\ progress.at \in Nat
      /\ table \in Table
      /\ chunk \in Images /\ Nothing \in Images
      /\ todo \in Seq(Images) /\ <<>> \in Seq(Images)
      /\ applied \subseteq Table /\ legacy \subseteq Table
      /\ verified \subseteq DOMAIN ops /\ receipts \subseteq DOMAIN ops
  <2>1. Nothing \in [{} -> 0..MaxEdits]
    BY DEF Nothing
  <2>2. Nothing \in Images
    BY <2>1 DEF Images
  <2> QED
    BY <2>2 DEF TypeOK, NoProgress
<1>1. ASSUME NEW row \in Changing, Edit(row[1], row[2])
      PROVE  MemoryTyped
  BY <1>1, <1>0 DEF Edit, durableVars, memoryVars, MemoryTyped
<1>2. ASSUME NEW o \in DOMAIN ops, Send(o)
      PROVE  MemoryTyped
  BY <1>2, <1>0 DEF Send, sourceVars, durableVars, memoryVars, MemoryTyped
<1>3. ASSUME NEW o \in DOMAIN ops, Finish(o)
      PROVE  MemoryTyped
  BY <1>3, <1>0 DEF Finish, sourceVars, durableVars, memoryVars, MemoryTyped
<1>4. ASSUME NEW o \in DOMAIN ops, Fail(o)
      PROVE  MemoryTyped
  BY <1>4, <1>0 DEF Fail, sourceVars, durableVars, memoryVars, MemoryTyped
<1>5. ASSUME NEW o \in DOMAIN ops, RecoverStatement(o)
      PROVE  MemoryTyped
  <2>1. LegacyMerge(o) \subseteq Table
    BY RowsNatural DEF LegacyMerge
  <2> QED
    BY <1>5, <1>0, <2>1 DEF RecoverStatement, sourceVars, durableVars, MemoryTyped
<1>6. ASSUME NEW o \in DOMAIN ops, RecoverCommit(o)
      PROVE  MemoryTyped
  BY <1>6, <1>0 DEF RecoverCommit, sourceVars, durableVars, MemoryTyped
<1>7. ASSUME NEW o \in DOMAIN ops, CleanupIntent(o)
      PROVE  MemoryTyped
  BY <1>7, <1>0 DEF CleanupIntent, sourceVars, durableVars, memoryVars, MemoryTyped
<1>8. ASSUME StartRun
      PROVE  MemoryTyped
  BY <1>8, <1>0 DEF StartRun, Goto, sourceVars, durableVars, memoryVars, MemoryTyped
<1>9. ASSUME UpgradeJobNativeRebuild
      PROVE  MemoryTyped
  BY <1>9, <1>0 DEF UpgradeJobNativeRebuild, sourceVars, memoryVars, MemoryTyped
<1>10. ASSUME RequestJobRebuild
       PROVE  MemoryTyped
  BY <1>10, <1>0 DEF RequestJobRebuild, sourceVars, memoryVars, MemoryTyped
<1>11. ASSUME RecoverDone
       PROVE  MemoryTyped
  BY <1>11, <1>0
     DEF RecoverDone, Goto, sourceVars, durableVars, memoryVars, MemoryTyped
<1>12. ASSUME RecordIcebergTrinoQuery
       PROVE  MemoryTyped
  BY <1>12, <1>0
     DEF RecordIcebergTrinoQuery, sourceVars, durableVars, memoryVars, MemoryTyped
<1>13. ASSUME ValidateSnapshotSourceTables
       PROVE  MemoryTyped
  BY <1>13, <1>0
     DEF ValidateSnapshotSourceTables, Goto, sourceVars, durableVars,
         memoryVars, MemoryTyped
<1>14. ASSUME ResetIssued
       PROVE  MemoryTyped
  BY <1>14, <1>0
     DEF ResetIssued, ResetApplied, Goto, sourceVars, durableVars, MemoryTyped
<1>15. ASSUME ResetSnapshotSourceTable
       PROVE  MemoryTyped
  BY <1>15, <1>0
     DEF ResetSnapshotSourceTable, Begin, Goto, sourceVars, durableVars,
         memoryVars, MemoryTyped
<1>16. ASSUME ResetFinished
       PROVE  MemoryTyped
  BY <1>16, <1>0
     DEF ResetFinished, ResetApplied, Goto, sourceVars, durableVars, MemoryTyped
<1>17. ASSUME SaveSnapshotStart
       PROVE  MemoryTyped
  BY <1>17, <1>0 DEF SaveSnapshotStart, Goto, memoryVars, MemoryTyped
<1>18. ASSUME SnapshotStart
       PROVE  MemoryTyped
  BY <1>18, <1>0 DEF SnapshotStart, Goto, sourceVars, durableVars, MemoryTyped
<1>19. ASSUME PlanTables
       PROVE  MemoryTyped
  BY <1>19, <1>0
     DEF PlanTables, Goto, sourceVars, durableVars, memoryVars, MemoryTyped
<1>20. ASSUME ReadChunk
       PROVE  MemoryTyped
  BY <1>20, <1>0, ReadFacts
     DEF ReadChunk, Goto, sourceVars, durableVars, MemoryTyped
<1>21. ASSUME TableCopied
       PROVE  MemoryTyped
  BY <1>21, <1>0
     DEF TableCopied, Goto, sourceVars, durableVars, memoryVars, MemoryTyped
<1>22. ASSUME BatchWritten
       PROVE  MemoryTyped
  BY <1>22, <1>0
     DEF BatchWritten, Goto, sourceVars, durableVars, memoryVars, MemoryTyped
<1>23. ASSUME MergeIssued
       PROVE  MemoryTyped
  <2>1. todo # <<>> /\ todo' = Tail(todo)
    BY <1>23 DEF MergeIssued
  <2>2. todo' \in Seq(Images)
    BY <1>0, <2>1
  <2> QED
    BY <1>23, <1>0, <2>2 DEF MergeIssued, sourceVars, durableVars, MemoryTyped
<1>24. ASSUME MergeRows
       PROVE  MemoryTyped
  BY <1>24, <1>0
     DEF MergeRows, Begin, Goto, sourceVars, durableVars, memoryVars, MemoryTyped
<1>25. ASSUME MergeFinished
       PROVE  MemoryTyped
  <2>1. todo # <<>> /\ todo' = Tail(todo)
    BY <1>25 DEF MergeFinished, Copying, ChunkOK
  <2>2. todo' \in Seq(Images)
    BY <1>0, <2>1
  <2> QED
    BY <1>25, <1>0, <2>2
       DEF MergeFinished, Goto, sourceVars, durableVars, MemoryTyped
<1>26. ASSUME CommitRows
       PROVE  MemoryTyped
  BY <1>26, <1>0
     DEF CommitRows, Begin, Goto, sourceVars, durableVars, memoryVars, MemoryTyped
<1>27. ASSUME CommitAccepted
       PROVE  MemoryTyped
  <2>1. todo # <<>> /\ todo' = Tail(todo)
    BY <1>27 DEF CommitAccepted, Copying, ChunkOK, Statement
  <2>2. todo' \in Seq(Images)
    BY <1>0, <2>1
  <2> QED
    BY <1>27, <1>0, <2>2
       DEF CommitAccepted, Goto, sourceVars, durableVars, MemoryTyped
<1>28. ASSUME CommitRejected
       PROVE  MemoryTyped
  BY <1>28, <1>0
     DEF CommitRejected, Goto, sourceVars, durableVars, memoryVars, MemoryTyped
<1>29. ASSUME Acknowledged
       PROVE  MemoryTyped
  <2>1. Cardinality(DOMAIN chunk) \in Nat
    BY <1>0, ImageFacts
  <2>2. Saved \in [table : Table, at : Nat] /\ Saved.at \in Nat
    BY <1>0, <2>1 DEF Saved
  <2> QED
    BY <1>29, <1>0, <2>2 DEF Acknowledged, Goto, sourceVars, MemoryTyped
<1>30. ASSUME SourceRetry
       PROVE  MemoryTyped
  BY <1>30, <1>0 DEF SourceRetry, Goto, sourceVars, durableVars, MemoryTyped
<1>31. ASSUME ConfirmCompletion
       PROVE  MemoryTyped
  BY <1>31, <1>0 DEF ConfirmCompletion, Goto, sourceVars, memoryVars, MemoryTyped
<1>32. ASSUME Copied
       PROVE  MemoryTyped
  BY <1>32, <1>0 DEF Copied, Goto, sourceVars, memoryVars, MemoryTyped
<1>33. ASSUME RunEnds
       PROVE  MemoryTyped
  BY <1>33, <1>0 DEF RunEnds, EndRun, sourceVars, durableVars, MemoryTyped
<1>34. ASSUME UNCHANGED vars
       PROVE  MemoryTyped
  BY <1>34, <1>0 DEF vars, sourceVars, durableVars, memoryVars, MemoryTyped
<1> QED
  BY <1>1, <1>2, <1>3, <1>4, <1>5, <1>6, <1>7, <1>8, <1>9, <1>10, <1>11,
     <1>12, <1>13, <1>14, <1>15, <1>16, <1>17, <1>18, <1>19, <1>20, <1>21,
     <1>22, <1>23, <1>24, <1>25, <1>26, <1>27, <1>28, <1>29, <1>30, <1>31,
     <1>32, <1>33, <1>34 DEF Next

(* A flag stays a flag.                                                    *)
LEMMA AgainStep ==
  ASSUME TypeOK,
         [Next]_vars
  PROVE  again' \in BOOLEAN
<1>1. ASSUME NEW row \in Changing, Edit(row[1], row[2])
      PROVE  again' \in BOOLEAN
  BY <1>1 DEF Edit, TypeOK
<1>2. ASSUME NEW o \in DOMAIN ops, Send(o)
      PROVE  again' \in BOOLEAN
  BY <1>2 DEF Send, TypeOK
<1>3. ASSUME NEW o \in DOMAIN ops, Finish(o)
      PROVE  again' \in BOOLEAN
  BY <1>3 DEF Finish, TypeOK
<1>4. ASSUME NEW o \in DOMAIN ops, Fail(o)
      PROVE  again' \in BOOLEAN
  BY <1>4 DEF Fail, TypeOK
<1>5. ASSUME NEW o \in DOMAIN ops, RecoverStatement(o)
      PROVE  again' \in BOOLEAN
  BY <1>5 DEF RecoverStatement, TypeOK
<1>6. ASSUME NEW o \in DOMAIN ops, RecoverCommit(o)
      PROVE  again' \in BOOLEAN
  BY <1>6 DEF RecoverCommit, TypeOK
<1>7. ASSUME NEW o \in DOMAIN ops, CleanupIntent(o)
      PROVE  again' \in BOOLEAN
  BY <1>7 DEF CleanupIntent, TypeOK
<1>8. ASSUME StartRun
      PROVE  again' \in BOOLEAN
  BY <1>8 DEF StartRun, TypeOK
<1>9. ASSUME UpgradeJobNativeRebuild
      PROVE  again' \in BOOLEAN
  BY <1>9 DEF UpgradeJobNativeRebuild, TypeOK
<1>10. ASSUME RequestJobRebuild
       PROVE  again' \in BOOLEAN
  BY <1>10 DEF RequestJobRebuild, TypeOK
<1>11. ASSUME RecoverDone
       PROVE  again' \in BOOLEAN
  BY <1>11 DEF RecoverDone, TypeOK
<1>12. ASSUME RecordIcebergTrinoQuery
       PROVE  again' \in BOOLEAN
  BY <1>12 DEF RecordIcebergTrinoQuery, TypeOK
<1>13. ASSUME ValidateSnapshotSourceTables
       PROVE  again' \in BOOLEAN
  BY <1>13 DEF ValidateSnapshotSourceTables, TypeOK
<1>14. ASSUME ResetIssued
       PROVE  again' \in BOOLEAN
  BY <1>14 DEF ResetIssued, TypeOK
<1>15. ASSUME ResetSnapshotSourceTable
       PROVE  again' \in BOOLEAN
  BY <1>15 DEF ResetSnapshotSourceTable, TypeOK
<1>16. ASSUME ResetFinished
       PROVE  again' \in BOOLEAN
  BY <1>16 DEF ResetFinished, TypeOK
<1>17. ASSUME SaveSnapshotStart
       PROVE  again' \in BOOLEAN
  BY <1>17 DEF SaveSnapshotStart, TypeOK
<1>18. ASSUME SnapshotStart
       PROVE  again' \in BOOLEAN
  BY <1>18 DEF SnapshotStart, TypeOK
<1>19. ASSUME PlanTables
       PROVE  again' \in BOOLEAN
  BY <1>19 DEF PlanTables, TypeOK
<1>20. ASSUME ReadChunk
       PROVE  again' \in BOOLEAN
  BY <1>20 DEF ReadChunk, TypeOK
<1>21. ASSUME TableCopied
       PROVE  again' \in BOOLEAN
  BY <1>21 DEF TableCopied, TypeOK
<1>22. ASSUME BatchWritten
       PROVE  again' \in BOOLEAN
  BY <1>22 DEF BatchWritten, TypeOK
<1>23. ASSUME MergeIssued
       PROVE  again' \in BOOLEAN
  BY <1>23 DEF MergeIssued, TypeOK
<1>24. ASSUME MergeRows
       PROVE  again' \in BOOLEAN
  BY <1>24 DEF MergeRows, TypeOK
<1>25. ASSUME MergeFinished
       PROVE  again' \in BOOLEAN
  BY <1>25 DEF MergeFinished, TypeOK
<1>26. ASSUME CommitRows
       PROVE  again' \in BOOLEAN
  BY <1>26 DEF CommitRows, TypeOK
<1>27. ASSUME CommitAccepted
       PROVE  again' \in BOOLEAN
  BY <1>27 DEF CommitAccepted, TypeOK
<1>28. ASSUME CommitRejected
       PROVE  again' \in BOOLEAN
  BY <1>28 DEF CommitRejected, TypeOK
<1>29. ASSUME Acknowledged
       PROVE  again' \in BOOLEAN
  BY <1>29 DEF Acknowledged, TypeOK
<1>30. ASSUME SourceRetry
       PROVE  again' \in BOOLEAN
  BY <1>30 DEF SourceRetry
<1>31. ASSUME ConfirmCompletion
       PROVE  again' \in BOOLEAN
  BY <1>31 DEF ConfirmCompletion, TypeOK
<1>32. ASSUME Copied
       PROVE  again' \in BOOLEAN
  BY <1>32 DEF Copied, TypeOK
<1>33. ASSUME RunEnds
       PROVE  again' \in BOOLEAN
  BY <1>33 DEF RunEnds, TypeOK
<1>34. ASSUME UNCHANGED vars
       PROVE  again' \in BOOLEAN
  BY <1>34 DEF vars, TypeOK
<1> QED
  BY <1>1, <1>2, <1>3, <1>4, <1>5, <1>6, <1>7, <1>8, <1>9, <1>10, <1>11,
     <1>12, <1>13, <1>14, <1>15, <1>16, <1>17, <1>18, <1>19, <1>20, <1>21,
     <1>22, <1>23, <1>24, <1>25, <1>26, <1>27, <1>28, <1>29, <1>30, <1>31,
     <1>32, <1>33, <1>34 DEF Next

(* Targets have their type, in every step.                                 *)
LEMMA TargetTyped ==
  ASSUME TypeOK, UnseenInv, [Next]_vars
  PROVE  target' \in [Table -> [Keys -> Cell]]
<1>1. CASE NoResult
  BY <1>1 DEF NoResult, TypeOK
<1>2. CASE \E o \in DOMAIN ops : Finish(o)
  <2>1. PICK o \in DOMAIN ops : Finish(o)
    BY <1>2
  <2> DEFINE op == ops[o]
  <2>2. /\ op \in OpRecord /\ target \in [Table -> [Keys -> Cell]]
        /\ target' = [target EXCEPT ![op.table] = Effect(op)]
    BY <2>1 DEF TypeOK, Finish
  <2>3. /\ op.table \in Table /\ op.epoch \in 0..MaxEpochs
        /\ \A k \in DOMAIN op.rows : op.rows[k] \in 0..MaxEdits
    <3>1. op.table \in Table /\ op.epoch \in 1..MaxEpochs
      BY <2>2 DEF OpRecord
    <3> QED
      BY <3>1, RowsNatural, RebuildAssumption
  <2> HIDE DEF op
  <2>4. ASSUME NEW k \in Keys
        PROVE  Effect(op)[k] \in Cell
    <3> DEFINE cell == target[op.table][k]
    <3>1. cell \in Cell /\ Absent \in Cell /\ cell.n \in Nat
      BY <2>2, <2>3, RebuildAssumption DEF Cell, Absent
    <3>2. Effect(op)[k] =
            IF op.do = "reset" THEN IF InScope(op.table, k) THEN Absent ELSE cell
            ELSE IF k \in DOMAIN op.rows THEN Written(op, k, Copies(op, cell.n))
            ELSE cell
      BY DEF Effect
    <3>3. CASE op.do # "reset" /\ k \in DOMAIN op.rows
      <4>1. Copies(op, cell.n) \in Nat
        BY <2>2, <3>1, <3>3, CopiesNatural
      <4>2. \A n \in Nat : Written(op, k, n) \in Cell
        BY <2>3, <3>3 DEF Written, Cell
      <4> QED
        BY <3>2, <3>3, <4>1, <4>2
    <3>4. CASE op.do = "reset" \/ k \notin DOMAIN op.rows
      BY <3>1, <3>2, <3>4
    <3> QED
      BY <3>3, <3>4
  <2>5. Effect(op) \in [Keys -> Cell]
    BY <2>4 DEF Effect
  <2> QED
    BY <2>2, <2>3, <2>5
<1> QED
  BY <1>1, <1>2, ResultStep

(* Every step keeps the types.                                             *)
LEMMA TypeStep ==
  ASSUME TypeOK, UnseenInv, ChunkOK, [Next]_vars
  PROVE  TypeOK'
<1>1. ops' \in Seq(OpRecord) /\ Len(ops') <= MaxOps /\ DOMAIN ops \subseteq DOMAIN ops'
  <2>1. CASE QuietOps
    BY <2>1 DEF QuietOps, TypeOK
  <2>2. CASE Begun
    <3>1. PICK do, rows : BegunOps(do, rows)
      BY <2>2 DEF Begun, BegunReset, BegunRows
    <3> QED
      BY <3>1 DEF BegunOps
  <2> QED
    BY <2>1, <2>2, OpsStep
<1>2. version' \in [Table -> [Keys -> 0..MaxEdits]]
  BY VersionsGrow
<1>3. target' \in [Table -> [Keys -> Cell]]
  BY TargetTyped
<1>4. again' \in BOOLEAN
  BY AgainStep
<1>5. verified' \subseteq DOMAIN ops' /\ receipts' \subseteq DOMAIN ops'
  BY <1>1, MemoryTypedStep DEF MemoryTyped
<1>6. /\ edited' \subseteq Table \X Keys
      /\ mode' \in {"merge", "native"}
      /\ epoch' \in 1..MaxEpochs
      /\ snap' \in {"none", "open", "done"}
      /\ run' \in 0..MaxRuns
      /\ pc' \in {"down", "recover", "validate", "reset", "exec", "start",
                 "barrier", "plan", "read", "write", "append", "ack",
                 "complete", "cleanup", "done"}
      /\ table' \in Table
      /\ retries' \in 0..MaxRetries
  BY JobTypedStep DEF JobTyped
<1>7. /\ progress' = NoProgress \/ progress' \in [table : Table, at : Nat]
      /\ at' \in Nat
      /\ chunk' \in Images
      /\ todo' \in Seq(Images)
      /\ applied' \subseteq Table
      /\ legacy' \subseteq Table
  BY MemoryTypedStep DEF MemoryTyped
<1> QED
  BY <1>1, <1>2, <1>3, <1>4, <1>5, <1>6, <1>7 DEF TypeOK

-----------------------------------------------------------------------------
(* The theorems *)

(* Initially nothing has been begun, and nothing is of a submission yet.   *)
LEMMA InitRebuild ==
  ASSUME Init
  PROVE  RebuildInv
<1>0. /\ Tables \in Nat \ {0} /\ {MaxEdits, MaxOps, MaxRuns, MaxRetries} \subseteq Nat
      /\ 1 \in Table
  BY RebuildAssumption DEF Table
<1>1. ops = <<>> /\ DOMAIN ops = {} /\ Len(ops) = 0 /\ ops \in Seq(OpRecord)
  BY DEF Init
<1>2. pc = "down" /\ table = 1 /\ snap = "none" /\ verified = {}
  BY DEF Init
<1>3. /\ target \in [Table -> [Keys -> Cell]]
      /\ \A t \in Table, k \in Keys :
           target[t][k].epoch = 0 /\ target[t][k].version = 0
  <2>1. Absent \in Cell /\ Absent.epoch = 0 /\ Absent.version = 0
    BY <1>0, RebuildAssumption DEF Absent, Cell
  <2> DEFINE present == [Absent EXCEPT !.n = 1]
  <2>2. present \in Cell /\ present.epoch = 0 /\ present.version = 0
    BY <1>0, RebuildAssumption DEF Absent, Cell
  <2>3. target = [t \in Table |-> [k \in Keys |->
                   IF Before[t][k] = "absent" THEN Absent ELSE present]]
    BY DEF Init
  <2> HIDE DEF present
  <2> QED
    BY <2>1, <2>2, <2>3
<1>4. version \in [Table -> [Keys -> 0..MaxEdits]]
      /\ \A t \in Table, k \in Keys : version[t][k] = 0
  BY <1>0 DEF Init
<1>5. epoch \in 1..MaxEpochs /\ epoch = 1
  BY RebuildAssumption DEF Init
<1>6. chunk \in Images /\ todo \in Seq(Images)
  <2>1. Nothing \in [{} -> 0..MaxEdits]
    BY DEF Nothing
  <2>2. Nothing \in Images
    BY <2>1 DEF Images
  <2> QED
    BY <2>2 DEF Init
<1>7. TypeOK
  <2>1. again \in BOOLEAN /\ progress = NoProgress /\ mode \in {"merge", "native"}
    BY DEF Init
  <2>2. /\ edited = {} /\ run = 0 /\ at = 0 /\ applied = {} /\ legacy = {}
        /\ receipts = {} /\ retries = 0
    BY DEF Init
  <2> QED
    BY <1>0, <1>1, <1>2, <1>3, <1>4, <1>5, <1>6, <2>1, <2>2 DEF TypeOK
<1>8. CellsOK
  BY <1>3, <1>4, <1>5 DEF CellsOK
<1>9. NothingActsUnseen /\ LastActs /\ VerifiedOK /\ SnapOK /\ ExecOK
      /\ ConfirmedOK /\ EpochsOK /\ CopyOK /\ ActiveFresh
  BY <1>1, <1>2 DEF NothingActsUnseen, LastActs, VerifiedOK, SnapOK, ExecOK,
     ConfirmedOK, EpochsOK, CopyOK, ActiveFresh
<1>10. ResetsOK /\ PreflightOK /\ ScopeEmptied /\ ChunkOK
  BY <1>1, <1>2 DEF ResetsOK, HasReset, PreflightOK, Resetting, ScopeEmptied,
     ChunkOK, Copying
<1> QED
  BY <1>7, <1>8, <1>9, <1>10 DEF RebuildInv

(* The invariant is inductive: every step of the source, of the engine and *)
(* of a run keeps it.                                                      *)
LEMMA NextRebuild ==
  ASSUME RebuildInv, [Next]_vars
  PROVE  RebuildInv'
<1>1. TypeOK /\ UnseenInv /\ CopyOK /\ ResetsOK /\ PreflightOK /\ ScopeEmptied
      /\ CellsOK /\ ActiveFresh /\ ChunkOK
  BY DEF RebuildInv, UnseenInv
<1>2. TypeOK' /\ UnseenInv'
  BY <1>1, TypeStep, UnseenStep
<1>3. ResetsOK' /\ PreflightOK' /\ CopyOK' /\ ScopeEmptied'
  BY <1>1, ResetsStep, PreflightStep, ScopeStep
<1>4. CellsOK' /\ ActiveFresh' /\ ChunkOK'
  BY <1>1, CellsStep, ActiveStep, ChunkStep
<1> QED
  BY <1>2, <1>3, <1>4 DEF RebuildInv, UnseenInv

(* The invariant holds in every reachable state, with any tables, chunks,  *)
(* crashes, failed saves, late statements and submissions.                 *)
THEOREM RebuildInductive == Spec => []RebuildInv
<1>1. Init => RebuildInv
  BY InitRebuild
<1>2. RebuildInv /\ [Next]_vars => RebuildInv'
  BY NextRebuild
<1> QED
  BY <1>1, <1>2, PTL DEF Spec

(* Whatever a statement or commit may still do, its intent is open and of  *)
(* this submission, and no run copies, completes or starts a submission    *)
(* around it: BeginIcebergCommit comes before the request, and             *)
(* checkIcebergRecovery settles every intent before a run goes on.         *)
THEOREM UnseenNever == Spec => []NothingActsUnseen
<1>1. RebuildInv => NothingActsUnseen
  BY DEF RebuildInv
<1> QED
  BY <1>1, RebuildInductive, PTL

(* From the saved start of a copy on, the scope of each table holds only   *)
(* what this submission has written: SaveSnapshotStart follows the         *)
(* confirmed reset of every table, and no reset or older statement acts    *)
(* later.                                                                  *)
THEOREM ScopeStaysEmptied == Spec => []ScopeEmptied
<1>1. RebuildInv => ScopeEmptied
  BY DEF RebuildInv
<1> QED
  BY <1>1, RebuildInductive, PTL

(* No row of a target goes back to an older image, whatever statements are *)
(* late, retried after a restart or replaced by native commits: what may   *)
(* still act carries an image that is as new as what has been written.     *)
THEOREM RowsNeverBack == Spec => RowsForward
<1>1. RebuildInv /\ [Next]_vars =>
        [\A t \in Table, k \in Keys :
           LET old == target[t][k]
               new == target'[t][k]
           IN  old.n > 0 /\ new.n > 0 =>
                 \/ old.epoch < new.epoch
                 \/ old.epoch = new.epoch /\ old.version <= new.version]_vars
  BY ForwardStep DEF RebuildInv, UnseenInv
<1> QED
  BY <1>1, RebuildInductive, PTL DEF Spec, RowsForward
-----------------------------------------------------------------------------
(* Completion *)

\* Commits of the native writer; operations of this submission; what has
\* written its rows for it.
Native(o) == ops[o].do \in {"append", "replace"}
Ours(o) == ops[o].epoch = epoch
Wrote(o) == Ours(o) /\ ops[o].do # "reset" /\ ops[o].engine = "finished"

\* The chunk of a table that starts after a number of rows.
ChunkPlaces(t, a) == {i \in DOMAIN Source[t] : a < i /\ i <= a + ChunkSize}
ChunkAt(t, a) == {Source[t][i] : i \in ChunkPlaces(t, a)}
End(t, a) ==
  IF a + ChunkSize <= Len(Source[t]) THEN a + ChunkSize ELSE Len(Source[t])

\* The saved progress covers a row, or the rows of an operation.
Passed(t, i) == t < progress.table \/ (t = progress.table /\ i <= progress.at)
PassedOp(o) == Passed(ops[o].table, RowsEnd(o))

\* The copy goes on at this place, after the saved progress and nothing else.
Frontier(t, a) ==
  \/ t = progress.table /\ a = progress.at
  \/ /\ progress.table < t /\ a = 0
     /\ progress.table = 0 \/ progress.at >= Len(Source[progress.table])
     /\ \A s \in (progress.table + 1)..(t - 1) : Source[s] = <<>>

\* The steps that change what is saved of the job.
JobStays == UNCHANGED <<edited, mode, epoch, snap, progress, again>>
JobActs ==
  \/ \E row \in Changing : Edit(row[1], row[2])
  \/ UpgradeJobNativeRebuild \/ RequestJobRebuild \/ SaveSnapshotStart
  \/ Acknowledged \/ SourceRetry \/ ConfirmCompletion \/ Copied

\* The steps of a run.
RunStays ==
  UNCHANGED <<pc, table, at, chunk, todo, verified, legacy, receipts>>
RunEnded == RunEnds /\ pc' = "down" /\ verified' = {} /\ receipts' = {}
Prepares ==
  /\ \/ pc = "barrier" /\ pc' = "plan"
     \/ /\ pc \in {"validate", "reset"} \/ (pc = "exec" /\ ops[Current].do = "reset")
        /\ pc' \in {"reset", "start"} \/ (pc' = "exec" /\ BegunReset /\ Begun)
  /\ UNCHANGED <<at, chunk, todo, verified, legacy, receipts>>
Writing == pc = "write" /\ pc' = "exec" /\ BegunRows /\ Begun
CopySteps ==
  \/ PlanTables \/ ReadChunk \/ TableCopied \/ BatchWritten \/ MergeIssued
  \/ Writing \/ MergeFinished \/ CommitAccepted \/ CommitRejected
  \/ Acknowledged \/ SourceRetry
RunActs ==
  \/ \E o \in DOMAIN ops : RecoverStatement(o) \/ RecoverCommit(o)
  \/ RunEnded \/ StartRun \/ RecoverDone \/ Prepares \/ SaveSnapshotStart
  \/ CopySteps \/ ConfirmCompletion \/ Copied

(* What is saved of the job changes in a few steps only.                   *)
LEMMA JobWays ==
  ASSUME [Next]_vars
  PROVE  JobStays \/ JobActs
<1>1. ASSUME NEW row \in Changing, Edit(row[1], row[2])
      PROVE  JobStays \/ JobActs
  BY <1>1 DEF JobActs
<1>2. ASSUME NEW o \in DOMAIN ops, Send(o)
      PROVE  JobStays \/ JobActs
  BY <1>2 DEF Send, sourceVars, durableVars, JobStays
<1>3. ASSUME NEW o \in DOMAIN ops, Finish(o)
      PROVE  JobStays \/ JobActs
  BY <1>3 DEF Finish, sourceVars, durableVars, JobStays
<1>4. ASSUME NEW o \in DOMAIN ops, Fail(o)
      PROVE  JobStays \/ JobActs
  BY <1>4 DEF Fail, sourceVars, durableVars, JobStays
<1>5. ASSUME NEW o \in DOMAIN ops, RecoverStatement(o)
      PROVE  JobStays \/ JobActs
  BY <1>5 DEF RecoverStatement, sourceVars, durableVars, JobStays
<1>6. ASSUME NEW o \in DOMAIN ops, RecoverCommit(o)
      PROVE  JobStays \/ JobActs
  BY <1>6 DEF RecoverCommit, sourceVars, durableVars, JobStays
<1>7. ASSUME NEW o \in DOMAIN ops, CleanupIntent(o)
      PROVE  JobStays \/ JobActs
  BY <1>7 DEF CleanupIntent, sourceVars, durableVars, JobStays
<1>8. ASSUME StartRun
      PROVE  JobStays \/ JobActs
  BY <1>8 DEF StartRun, sourceVars, durableVars, JobStays
<1>9. ASSUME UpgradeJobNativeRebuild
      PROVE  JobStays \/ JobActs
  BY <1>9 DEF JobActs
<1>10. ASSUME RequestJobRebuild
       PROVE  JobStays \/ JobActs
  BY <1>10 DEF JobActs
<1>11. ASSUME RecoverDone
       PROVE  JobStays \/ JobActs
  BY <1>11 DEF RecoverDone, sourceVars, durableVars, JobStays
<1>12. ASSUME RecordIcebergTrinoQuery
       PROVE  JobStays \/ JobActs
  BY <1>12 DEF RecordIcebergTrinoQuery, sourceVars, durableVars, JobStays
<1>13. ASSUME ValidateSnapshotSourceTables
       PROVE  JobStays \/ JobActs
  BY <1>13 DEF ValidateSnapshotSourceTables, sourceVars, durableVars, JobStays
<1>14. ASSUME ResetIssued
       PROVE  JobStays \/ JobActs
  BY <1>14 DEF ResetIssued, sourceVars, durableVars, JobStays
<1>15. ASSUME ResetSnapshotSourceTable
       PROVE  JobStays \/ JobActs
  BY <1>15 DEF ResetSnapshotSourceTable, sourceVars, durableVars, JobStays
<1>16. ASSUME ResetFinished
       PROVE  JobStays \/ JobActs
  BY <1>16 DEF ResetFinished, sourceVars, durableVars, JobStays
<1>17. ASSUME SaveSnapshotStart
       PROVE  JobStays \/ JobActs
  BY <1>17 DEF JobActs
<1>18. ASSUME SnapshotStart
       PROVE  JobStays \/ JobActs
  BY <1>18 DEF SnapshotStart, sourceVars, durableVars, JobStays
<1>19. ASSUME PlanTables
       PROVE  JobStays \/ JobActs
  BY <1>19 DEF PlanTables, sourceVars, durableVars, JobStays
<1>20. ASSUME ReadChunk
       PROVE  JobStays \/ JobActs
  BY <1>20 DEF ReadChunk, sourceVars, durableVars, JobStays
<1>21. ASSUME TableCopied
       PROVE  JobStays \/ JobActs
  BY <1>21 DEF TableCopied, sourceVars, durableVars, JobStays
<1>22. ASSUME BatchWritten
       PROVE  JobStays \/ JobActs
  BY <1>22 DEF BatchWritten, sourceVars, durableVars, JobStays
<1>23. ASSUME MergeIssued
       PROVE  JobStays \/ JobActs
  BY <1>23 DEF MergeIssued, sourceVars, durableVars, JobStays
<1>24. ASSUME MergeRows
       PROVE  JobStays \/ JobActs
  BY <1>24 DEF MergeRows, sourceVars, durableVars, JobStays
<1>25. ASSUME MergeFinished
       PROVE  JobStays \/ JobActs
  BY <1>25 DEF MergeFinished, sourceVars, durableVars, JobStays
<1>26. ASSUME CommitRows
       PROVE  JobStays \/ JobActs
  BY <1>26 DEF CommitRows, sourceVars, durableVars, JobStays
<1>27. ASSUME CommitAccepted
       PROVE  JobStays \/ JobActs
  BY <1>27 DEF CommitAccepted, sourceVars, durableVars, JobStays
<1>28. ASSUME CommitRejected
       PROVE  JobStays \/ JobActs
  BY <1>28 DEF CommitRejected, sourceVars, durableVars, JobStays
<1>29. ASSUME Acknowledged
       PROVE  JobStays \/ JobActs
  BY <1>29 DEF JobActs
<1>30. ASSUME SourceRetry
       PROVE  JobStays \/ JobActs
  BY <1>30 DEF JobActs
<1>31. ASSUME ConfirmCompletion
       PROVE  JobStays \/ JobActs
  BY <1>31 DEF JobActs
<1>32. ASSUME Copied
       PROVE  JobStays \/ JobActs
  BY <1>32 DEF JobActs
<1>33. ASSUME RunEnds
       PROVE  JobStays \/ JobActs
  BY <1>33 DEF RunEnds, sourceVars, durableVars, JobStays
<1>34. ASSUME UNCHANGED vars
       PROVE  JobStays \/ JobActs
  BY <1>34 DEF vars, sourceVars, durableVars, JobStays
<1> QED
  BY <1>1, <1>2, <1>3, <1>4, <1>5, <1>6, <1>7, <1>8, <1>9, <1>10, <1>11, <1>12,
    <1>13, <1>14, <1>15, <1>16, <1>17, <1>18, <1>19, <1>20, <1>21, <1>22,
    <1>23, <1>24, <1>25, <1>26, <1>27, <1>28, <1>29, <1>30, <1>31, <1>32,
    <1>33, <1>34 DEF Next

(* What a run keeps in memory changes in its own steps.                    *)
LEMMA RunWays ==
  ASSUME TypeOK, UnseenInv, [Next]_vars
  PROVE  RunStays \/ RunActs
<1>0. ops \in Seq(OpRecord) /\ Len(ops) \in Nat
  BY DEF TypeOK
<1>1. ASSUME NEW row \in Changing, Edit(row[1], row[2])
      PROVE  RunStays \/ RunActs
  BY <1>1 DEF Edit, memoryVars, RunStays
<1>2. ASSUME NEW o \in DOMAIN ops, Send(o)
      PROVE  RunStays \/ RunActs
  BY <1>2 DEF Send, memoryVars, RunStays
<1>3. ASSUME NEW o \in DOMAIN ops, Finish(o)
      PROVE  RunStays \/ RunActs
  BY <1>3 DEF Finish, memoryVars, RunStays
<1>4. ASSUME NEW o \in DOMAIN ops, Fail(o)
      PROVE  RunStays \/ RunActs
  BY <1>4 DEF Fail, memoryVars, RunStays
<1>5. ASSUME NEW o \in DOMAIN ops, RecoverStatement(o)
      PROVE  RunStays \/ RunActs
  BY <1>5 DEF RunActs
<1>6. ASSUME NEW o \in DOMAIN ops, RecoverCommit(o)
      PROVE  RunStays \/ RunActs
  BY <1>6 DEF RunActs
<1>7. ASSUME NEW o \in DOMAIN ops, CleanupIntent(o)
      PROVE  RunStays \/ RunActs
  BY <1>7 DEF CleanupIntent, memoryVars, RunStays
<1>8. ASSUME StartRun
      PROVE  RunStays \/ RunActs
  BY <1>8 DEF RunActs
<1>9. ASSUME UpgradeJobNativeRebuild
      PROVE  RunStays \/ RunActs
  BY <1>9 DEF UpgradeJobNativeRebuild, memoryVars, RunStays
<1>10. ASSUME RequestJobRebuild
       PROVE  RunStays \/ RunActs
  BY <1>10 DEF RequestJobRebuild, memoryVars, RunStays
<1>11. ASSUME RecoverDone
       PROVE  RunStays \/ RunActs
  BY <1>11 DEF RunActs
<1>12. ASSUME RecordIcebergTrinoQuery
       PROVE  RunStays \/ RunActs
  BY <1>12 DEF RecordIcebergTrinoQuery, memoryVars, RunStays
<1>13. ASSUME ValidateSnapshotSourceTables
       PROVE  RunStays \/ RunActs
  BY <1>13 DEF ValidateSnapshotSourceTables, ResetApplied, Goto, memoryVars,
    Prepares, RunActs
<1>14. ASSUME ResetIssued
       PROVE  RunStays \/ RunActs
  BY <1>14 DEF ResetIssued, ResetApplied, Goto, memoryVars, Prepares, RunActs
<1>15. ASSUME ResetSnapshotSourceTable
       PROVE  RunStays \/ RunActs
  <2>1. /\ pc = "reset" /\ pc' = "exec" /\ Len(ops') = Len(ops) + 1
        /\ UNCHANGED <<at, chunk, todo, verified, legacy, receipts>>
    BY <1>15, <1>0 DEF ResetSnapshotSourceTable, Begin, Goto, memoryVars
  <2>2. Begun
    BY <1>0, <2>1, OpsStep DEF QuietOps
  <2>3. BegunReset
    BY <2>1, <2>2 DEF Begun, BegunRows
  <2> QED
    BY <2>1, <2>2, <2>3 DEF Prepares, RunActs
<1>16. ASSUME ResetFinished
       PROVE  RunStays \/ RunActs
  BY <1>16 DEF ResetFinished, ResetApplied, Goto, memoryVars, Prepares, RunActs
<1>17. ASSUME SaveSnapshotStart
       PROVE  RunStays \/ RunActs
  BY <1>17 DEF RunActs
<1>18. ASSUME SnapshotStart
       PROVE  RunStays \/ RunActs
  BY <1>18 DEF SnapshotStart, ResetApplied, Goto, memoryVars, Prepares, RunActs
<1>19. ASSUME PlanTables
       PROVE  RunStays \/ RunActs
  BY <1>19 DEF RunActs, CopySteps
<1>20. ASSUME ReadChunk
       PROVE  RunStays \/ RunActs
  BY <1>20 DEF RunActs, CopySteps
<1>21. ASSUME TableCopied
       PROVE  RunStays \/ RunActs
  BY <1>21 DEF RunActs, CopySteps
<1>22. ASSUME BatchWritten
       PROVE  RunStays \/ RunActs
  BY <1>22 DEF RunActs, CopySteps
<1>23. ASSUME MergeIssued
       PROVE  RunStays \/ RunActs
  BY <1>23 DEF RunActs, CopySteps
<1>24. ASSUME MergeRows
       PROVE  RunStays \/ RunActs
  <2>1. pc = "write" /\ pc' = "exec" /\ Len(ops') = Len(ops) + 1
    BY <1>24, <1>0 DEF MergeRows, Begin, Goto
  <2>2. Begun
    BY <1>0, <2>1, OpsStep DEF QuietOps
  <2>3. BegunRows
    BY <2>1, <2>2 DEF Begun, BegunReset
  <2> QED
    BY <2>1, <2>2, <2>3 DEF Writing, CopySteps, RunActs
<1>25. ASSUME MergeFinished
       PROVE  RunStays \/ RunActs
  BY <1>25 DEF RunActs, CopySteps
<1>26. ASSUME CommitRows
       PROVE  RunStays \/ RunActs
  <2>1. pc = "write" /\ pc' = "exec" /\ Len(ops') = Len(ops) + 1
    BY <1>26, <1>0 DEF CommitRows, Begin, Goto
  <2>2. Begun
    BY <1>0, <2>1, OpsStep DEF QuietOps
  <2>3. BegunRows
    BY <2>1, <2>2 DEF Begun, BegunReset
  <2> QED
    BY <2>1, <2>2, <2>3 DEF Writing, CopySteps, RunActs
<1>27. ASSUME CommitAccepted
       PROVE  RunStays \/ RunActs
  BY <1>27 DEF RunActs, CopySteps
<1>28. ASSUME CommitRejected
       PROVE  RunStays \/ RunActs
  BY <1>28 DEF RunActs, CopySteps
<1>29. ASSUME Acknowledged
       PROVE  RunStays \/ RunActs
  BY <1>29 DEF RunActs, CopySteps
<1>30. ASSUME SourceRetry
       PROVE  RunStays \/ RunActs
  BY <1>30 DEF RunActs, CopySteps
<1>31. ASSUME ConfirmCompletion
       PROVE  RunStays \/ RunActs
  BY <1>31 DEF RunActs
<1>32. ASSUME Copied
       PROVE  RunStays \/ RunActs
  BY <1>32 DEF RunActs
<1>33. ASSUME RunEnds
       PROVE  RunStays \/ RunActs
  BY <1>33 DEF RunActs, RunEnded, RunEnds, EndRun
<1>34. ASSUME UNCHANGED vars
       PROVE  RunStays \/ RunActs
  BY <1>34 DEF vars, memoryVars, RunStays
<1> QED
  BY <1>1, <1>2, <1>3, <1>4, <1>5, <1>6, <1>7, <1>8, <1>9, <1>10, <1>11, <1>12,
    <1>13, <1>14, <1>15, <1>16, <1>17, <1>18, <1>19, <1>20, <1>21, <1>22,
    <1>23, <1>24, <1>25, <1>26, <1>27, <1>28, <1>29, <1>30, <1>31, <1>32,
    <1>33, <1>34 DEF Next

\* What an operation is stays, and one that has acted or failed stays so.
OpKept(o) ==
  /\ o \in DOMAIN ops'
  /\ ops'[o].do = ops[o].do /\ ops'[o].epoch = ops[o].epoch
  /\ ops'[o].table = ops[o].table /\ ops'[o].rows = ops[o].rows
  /\ ops'[o].lo = ops[o].lo
  /\ ~Active(o) => ops'[o].engine = ops[o].engine
  /\ Active(o)' => Active(o) /\ ops'[o].intent = ops[o].intent

\* One that is begun.
OpNew(o) ==
  /\ Begun /\ o = Len(ops') /\ Len(ops') \notin DOMAIN ops
  /\ ops'[o].engine = "unsent" /\ ops'[o].intent = "PREPARED"
  /\ ops'[o].epoch = epoch /\ ops'[o].table = table
  /\ \/ pc = "reset" /\ ops'[o].do = "reset" /\ ops'[o].rows = Nothing
     \/ /\ pc = "write" /\ todo # <<>> /\ ops'[o].rows = Head(todo)
        /\ ops'[o].lo = at /\ ops'[o].do \in {"merge", "append", "replace"}
        /\ ops'[o].do = "merge" <=> mode = "merge"
        /\ ops'[o].do = "append" /\ LooksUp => BeforeImages = {}

(* Every operation is kept, and the only other one is begun.               *)
LEMMA OpsKept ==
  ASSUME TypeOK, UnseenInv, [Next]_vars
  PROVE  /\ \A o \in DOMAIN ops : OpKept(o)
         /\ \A o \in DOMAIN ops' : o \notin DOMAIN ops => OpNew(o)
<1>1. CASE QuietOps
  BY <1>1 DEF QuietOps, OpKept
<1>2. CASE Begun
  <2>1. PICK do, rows : BegunOps(do, rows)
    BY <1>2 DEF Begun, BegunReset, BegunRows
  <2>2. \A o \in DOMAIN ops : OpKept(o)
    BY <2>1 DEF BegunOps, OpKept, Active
  <2>3. \A o \in DOMAIN ops' : o \notin DOMAIN ops => o = Len(ops')
    BY <2>1 DEF BegunOps
  <2>4. OpNew(Len(ops'))
    <3>1. CASE BegunReset
      BY <1>2, <3>1 DEF BegunReset, BegunOps, OpNew
    <3>2. CASE BegunRows
      <4>1. PICK w \in {"merge", "append", "replace"} :
              /\ BegunOps(w, Head(todo)) /\ (w = "merge" <=> mode = "merge")
              /\ w = "append" /\ LooksUp => BeforeImages = {}
        BY <3>2 DEF BegunRows
      <4>2. pc = "write" /\ todo # <<>> /\ ops'[Len(ops')].lo = at
        BY <3>2 DEF BegunRows
      <4>3. /\ Len(ops') \notin DOMAIN ops
            /\ ops'[Len(ops')].engine = "unsent" /\ ops'[Len(ops')].intent = "PREPARED"
            /\ ops'[Len(ops')].epoch = epoch /\ ops'[Len(ops')].table = table
            /\ ops'[Len(ops')].rows = Head(todo) /\ ops'[Len(ops')].do = w
        BY <4>1 DEF BegunOps
      <4> QED
        BY <1>2, <4>1, <4>2, <4>3 DEF OpNew
    <3> QED
      BY <1>2, <3>1, <3>2 DEF Begun
  <2> QED
    BY <2>2, <2>3, <2>4
<1> QED
  BY <1>1, <1>2, OpsStep

(* An operation is of a table, with the rows of an image.                  *)
LEMMA OpFacts ==
  ASSUME TypeOK, NEW o \in DOMAIN ops
  PROVE  /\ ops[o].table \in Table /\ ops[o].rows \in Images /\ ops[o].lo \in Nat
         /\ DOMAIN ops[o].rows \subseteq Keys /\ RowsEnd(o) \in Nat
         /\ ops[o].do \in {"reset", "merge", "append", "replace"}
         /\ ops[o].epoch \in Nat \ {0} /\ ops[o].epoch \in 0..MaxEpochs
<1>1. ops[o] \in OpRecord
  BY DEF TypeOK
<1>2. /\ ops[o].table \in Table /\ ops[o].rows \in Images /\ ops[o].lo \in Nat
      /\ ops[o].do \in {"reset", "merge", "append", "replace"}
      /\ ops[o].epoch \in 1..MaxEpochs
  BY <1>1 DEF OpRecord
<1>3. DOMAIN ops[o].rows \subseteq Keys /\ Cardinality(DOMAIN ops[o].rows) \in Nat
  BY <1>2, ImageFacts
<1>4. MaxEpochs \in Nat
  BY RebuildAssumption
<1> QED
  BY <1>2, <1>3, <1>4 DEF RowsEnd

(* Only the engine makes an operation act.                                 *)
LEMMA WroteStep ==
  ASSUME TypeOK, UnseenInv, [Next]_vars, epoch' = epoch
  PROVE  /\ \A o \in DOMAIN ops : Wrote(o) => Wrote(o)'
         /\ \A o \in DOMAIN ops' : Wrote(o)' =>
              o \in DOMAIN ops /\ (Wrote(o) \/ (Active(o) /\ Ours(o) /\ Finish(o)))
<1>1. \A o \in DOMAIN ops : Wrote(o) => Wrote(o)'
  BY OpsKept DEF OpKept, Wrote, Ours, Active
<1>2. ASSUME NEW o \in DOMAIN ops', Wrote(o)'
      PROVE  o \in DOMAIN ops /\ (Wrote(o) \/ (Active(o) /\ Ours(o) /\ Finish(o)))
  <2>1. o \in DOMAIN ops
    BY <1>2, OpsKept DEF OpNew, Wrote
  <2>2. OpKept(o)
    BY <2>1, OpsKept
  <2>3. Ours(o) /\ ops[o].do # "reset" /\ ops'[o].engine = "finished"
    BY <1>2, <2>2 DEF OpKept, Wrote, Ours
  <2>4. CASE NoResult
    BY <2>1, <2>3, <2>4 DEF NoResult, Wrote
  <2>5. CASE \E p \in DOMAIN ops : Finish(p)
    <3>1. PICK p \in DOMAIN ops : Finish(p)
      BY <2>5
    <3>2. ops[p].engine = "sent" /\ ops' = [ops EXCEPT ![p].engine = "finished"]
      BY <3>1 DEF Finish
    <3>3. CASE p = o
      BY <2>1, <2>3, <3>1, <3>2, <3>3 DEF Active
    <3>4. CASE p # o
      <4>1. ops'[o] = ops[o]
        BY <2>1, <3>2, <3>4
      <4> QED
        BY <2>1, <2>3, <4>1 DEF Wrote
    <3> QED
      BY <3>3, <3>4
  <2> QED
    BY <2>4, <2>5, ResultStep
<1> QED
  BY <1>1, <1>2

(* SetIntents sets the intents of a set, and nothing else.                 *)
LEMMA SetIntentsFacts ==
  ASSUME TypeOK, NEW S, NEW st, ops' = SetIntents(S, st)
  PROVE  /\ DOMAIN ops' = DOMAIN ops
         /\ \A o \in DOMAIN ops :
              /\ ops'[o].intent = IF o \in S THEN st ELSE ops[o].intent
              /\ ops'[o].table = ops[o].table /\ ops'[o].rows = ops[o].rows
              /\ ops'[o].lo = ops[o].lo
<1>1. \A o \in DOMAIN ops : ops[o] \in OpRecord
  BY DEF TypeOK
<1>2. \A op \in OpRecord :
        /\ [op EXCEPT !.intent = st].intent = st
        /\ [op EXCEPT !.intent = st].table = op.table
        /\ [op EXCEPT !.intent = st].rows = op.rows
        /\ [op EXCEPT !.intent = st].lo = op.lo
  BY DEF OpRecord
<1> QED
  BY <1>1, <1>2 DEF SetIntents

\* What a step does to the intents: none comes without its operation, and one
\* goes after the copy, with a refused commit, or when the saved progress
\* covers its rows.
IntentsKept ==
  \A o \in DOMAIN ops :
    /\ o \in Intents' => o \in Intents
    /\ o \in Intents /\ o \notin Intents' =>
         /\ pc' # "exec"
         /\ \/ snap = "done"
            \/ ~Statement(o) /\ (ops[o].engine = "failed" \/ PassedOp(o)')

(* Intents of a set change, and stay where they are.                       *)
LEMMA IntentsConfirmed ==
  ASSUME TypeOK, NEW S, S \subseteq Intents, ops' = SetIntents(S, "COMMITTED")
  PROVE  IntentsKept
BY SetIntentsFacts DEF IntentsKept, Intents

(* Intents of a set go.                                                    *)
LEMMA IntentsRemoved ==
  ASSUME TypeOK, NEW S, S \subseteq Intents, ops' = SetIntents(S, "none"),
         pc' # "exec",
         \A o \in S : \/ snap = "done"
                      \/ ~Statement(o) /\ (ops[o].engine = "failed" \/ PassedOp(o)')
  PROVE  IntentsKept
BY SetIntentsFacts DEF IntentsKept, Intents

(* No intent changes.                                                      *)
LEMMA IntentsSame ==
  ASSUME TypeOK,
         \/ ops' = ops
         \/ \E o \in DOMAIN ops : \E e : ops' = [ops EXCEPT ![o].engine = e]
         \/ \E o, e : ops' = [ops EXCEPT ![o].query = e]
         \/ \E new : ops' = Append(ops, new)
  PROVE  IntentsKept
<1>1. ops \in Seq(OpRecord) /\ \A o \in DOMAIN ops : ops[o] \in OpRecord
  BY DEF TypeOK
<1>2. \A o \in DOMAIN ops : o \in DOMAIN ops' /\ ops'[o].intent = ops[o].intent
  <2>1. CASE ops' = ops
    BY <2>1
  <2>2. CASE \E o \in DOMAIN ops : \E e : ops' = [ops EXCEPT ![o].engine = e]
    BY <1>1, <2>2 DEF OpRecord
  <2>3. CASE \E o, e : ops' = [ops EXCEPT ![o].query = e]
    BY <1>1, <2>3 DEF OpRecord
  <2>4. CASE \E new : ops' = Append(ops, new)
    BY <1>1, <2>4
  <2> QED
    BY <2>1, <2>2, <2>3, <2>4
<1> QED
  BY <1>2 DEF IntentsKept, Intents

\* A run waits for what has an open intent.
ExecOpen == pc = "exec" => Current \in Intents

\* The intents are cleaned up after the copy.
ClosedOK == pc \in {"cleanup", "done"} => snap = "done"

(* An intent that the saved progress covers may go.                        *)
LEMMA CoveredPassed ==
  ASSUME TypeOK, NEW o \in DOMAIN ops, Covered(o), snap # "done",
         progress' = progress, ops'[o].table = ops[o].table,
         ops'[o].rows = ops[o].rows, ops'[o].lo = ops[o].lo
  PROVE  PassedOp(o)'
<1>1. RowsEnd(o)' = RowsEnd(o)
  BY DEF RowsEnd
<1>2. progress.table = ops[o].table /\ progress.at >= RowsEnd(o)
  BY DEF Covered
<1>3. progress.at \in Nat /\ RowsEnd(o) \in Nat
  BY OpFacts DEF TypeOK, NoProgress
<1> QED
  BY <1>1, <1>2, <1>3 DEF PassedOp, Passed

(* No intent goes while its statement or commit matters.                   *)
LEMMA IntentsStep ==
  ASSUME TypeOK, ExecOpen, ClosedOK, [Next]_vars
  PROVE  IntentsKept
<1>1. ASSUME NEW row \in Changing, Edit(row[1], row[2])
      PROVE  IntentsKept
  BY <1>1, IntentsSame DEF Edit
<1>2. ASSUME NEW o \in DOMAIN ops, Send(o)
      PROVE  IntentsKept
  BY <1>2, IntentsSame DEF Send
<1>3. ASSUME NEW o \in DOMAIN ops, Finish(o)
      PROVE  IntentsKept
  BY <1>3, IntentsSame DEF Finish
<1>4. ASSUME NEW o \in DOMAIN ops, Fail(o)
      PROVE  IntentsKept
  BY <1>4, IntentsSame DEF Fail
<1>5. ASSUME NEW o \in DOMAIN ops, RecoverStatement(o)
      PROVE  IntentsKept
  <2> DEFINE S == {o}
  <2>1. /\ ops' = SetIntents(S, IF snap = "done" THEN "none" ELSE "COMMITTED")
        /\ S \subseteq Intents /\ pc = "recover" /\ pc' = pc
    BY <1>5 DEF RecoverStatement
  <2> HIDE DEF S
  <2> QED
    BY <2>1, IntentsConfirmed, IntentsRemoved
<1>6. ASSUME NEW o \in DOMAIN ops, RecoverCommit(o)
      PROVE  IntentsKept
  <2> DEFINE S == {o}
  <2>1. S \subseteq Intents /\ pc = "recover" /\ pc' = pc /\ ~Statement(o)
    BY <1>6 DEF RecoverCommit
  <2>2. CASE ops' = SetIntents({o}, "COMMITTED")
    <3>1. ops' = SetIntents(S, "COMMITTED")
      BY <2>2
    <3> HIDE DEF S
    <3> QED
      BY <2>1, <3>1, IntentsConfirmed
  <2>3. CASE ops' = SetIntents({o}, "none") /\ Covered(o)
    <3>1. progress' = progress
      BY <1>6 DEF RecoverCommit, durableVars
    <3>2. snap = "done" \/ PassedOp(o)'
      BY <2>3, <3>1, SetIntentsFacts, CoveredPassed
    <3>3. ops' = SetIntents(S, "none") /\ \A p \in S : p = o
      BY <2>3
    <3> HIDE DEF S
    <3> QED
      BY <2>1, <3>2, <3>3, IntentsRemoved
  <2> QED
    BY <1>6, <2>2, <2>3 DEF RecoverCommit
<1>7. ASSUME NEW o \in DOMAIN ops, CleanupIntent(o)
      PROVE  IntentsKept
  <2> DEFINE S == {o}
  <2>1. /\ S \subseteq Intents /\ pc = "cleanup" /\ pc' = pc
        /\ ops' = SetIntents(S, "none")
    BY <1>7 DEF CleanupIntent
  <2>2. snap = "done"
    BY <2>1 DEF ClosedOK
  <2> HIDE DEF S
  <2> QED
    BY <2>1, <2>2, IntentsRemoved
<1>8. ASSUME StartRun
      PROVE  IntentsKept
  BY <1>8, IntentsSame DEF StartRun
<1>9. ASSUME UpgradeJobNativeRebuild
      PROVE  IntentsKept
  BY <1>9, IntentsSame DEF UpgradeJobNativeRebuild
<1>10. ASSUME RequestJobRebuild
       PROVE  IntentsKept
  <2>1. pc' = "down" /\ snap = "done" /\ ops' = SetIntents(Intents, "none")
    BY <1>10 DEF RequestJobRebuild
  <2>2. Intents \subseteq Intents
    OBVIOUS
  <2> QED
    BY <2>1, <2>2, IntentsRemoved
<1>11. ASSUME RecoverDone
       PROVE  IntentsKept
  BY <1>11, IntentsSame DEF RecoverDone
<1>12. ASSUME RecordIcebergTrinoQuery
       PROVE  IntentsKept
  BY <1>12, IntentsSame DEF RecordIcebergTrinoQuery
<1>13. ASSUME ValidateSnapshotSourceTables
       PROVE  IntentsKept
  BY <1>13, IntentsSame DEF ValidateSnapshotSourceTables
<1>14. ASSUME ResetIssued
       PROVE  IntentsKept
  <2>1. PICK p \in Issued("reset", table, Nothing) :
          ops' = SetIntents({p}, "COMMITTED")
    BY <1>14 DEF ResetIssued, StatementConfirmed
  <2> DEFINE S == {p}
  <2>2. S \subseteq Intents
    BY DEF Issued
  <2>3. ops' = SetIntents(S, "COMMITTED")
    BY <2>1
  <2> HIDE DEF S
  <2> QED
    BY <2>2, <2>3, IntentsConfirmed
<1>15. ASSUME ResetSnapshotSourceTable
       PROVE  IntentsKept
  <2>1. \E new : ops' = Append(ops, new)
    BY <1>15 DEF ResetSnapshotSourceTable, Begin
  <2> QED
    BY <2>1, IntentsSame
<1>16. ASSUME ResetFinished
       PROVE  IntentsKept
  <2> DEFINE S == {Current}
  <2>1. ops' = SetIntents(S, "COMMITTED") /\ pc = "exec"
    BY <1>16 DEF ResetFinished
  <2>2. S \subseteq Intents
    BY <2>1 DEF ExecOpen
  <2> HIDE DEF S
  <2> QED
    BY <2>1, <2>2, IntentsConfirmed
<1>17. ASSUME SaveSnapshotStart
       PROVE  IntentsKept
  BY <1>17, IntentsSame DEF SaveSnapshotStart
<1>18. ASSUME SnapshotStart
       PROVE  IntentsKept
  BY <1>18, IntentsSame DEF SnapshotStart
<1>19. ASSUME PlanTables
       PROVE  IntentsKept
  BY <1>19, IntentsSame DEF PlanTables
<1>20. ASSUME ReadChunk
       PROVE  IntentsKept
  BY <1>20, IntentsSame DEF ReadChunk
<1>21. ASSUME TableCopied
       PROVE  IntentsKept
  BY <1>21, IntentsSame DEF TableCopied
<1>22. ASSUME BatchWritten
       PROVE  IntentsKept
  BY <1>22, IntentsSame DEF BatchWritten
<1>23. ASSUME MergeIssued
       PROVE  IntentsKept
  <2>1. PICK p \in Issued("merge", table, Head(todo)) :
          ops' = SetIntents({p}, "COMMITTED")
    BY <1>23 DEF MergeIssued, StatementConfirmed
  <2> DEFINE S == {p}
  <2>2. S \subseteq Intents
    BY DEF Issued
  <2>3. ops' = SetIntents(S, "COMMITTED")
    BY <2>1
  <2> HIDE DEF S
  <2> QED
    BY <2>2, <2>3, IntentsConfirmed
<1>24. ASSUME MergeRows
       PROVE  IntentsKept
  <2>1. \E new : ops' = Append(ops, new)
    BY <1>24 DEF MergeRows, Begin
  <2> QED
    BY <2>1, IntentsSame
<1>25. ASSUME MergeFinished
       PROVE  IntentsKept
  <2> DEFINE S == {Current}
  <2>1. ops' = SetIntents(S, "COMMITTED") /\ pc = "exec"
    BY <1>25 DEF MergeFinished
  <2>2. S \subseteq Intents
    BY <2>1 DEF ExecOpen
  <2> HIDE DEF S
  <2> QED
    BY <2>1, <2>2, IntentsConfirmed
<1>26. ASSUME CommitRows
       PROVE  IntentsKept
  <2>1. \E new : ops' = Append(ops, new)
    BY <1>26 DEF CommitRows, Begin
  <2> QED
    BY <2>1, IntentsSame
<1>27. ASSUME CommitAccepted
       PROVE  IntentsKept
  <2> DEFINE S == {Current}
  <2>1. ops' = SetIntents(S, "COMMITTED") /\ pc = "exec"
    BY <1>27 DEF CommitAccepted
  <2>2. S \subseteq Intents
    BY <2>1 DEF ExecOpen
  <2> HIDE DEF S
  <2> QED
    BY <2>1, <2>2, IntentsConfirmed
<1>28. ASSUME CommitRejected
       PROVE  IntentsKept
  <2> DEFINE S == {Current}
  <2>1. /\ ops' = SetIntents(S, "none") /\ pc = "exec" /\ pc' = "write"
        /\ \A p \in S : ~Statement(p) /\ ops[p].engine = "failed"
    BY <1>28 DEF CommitRejected, Goto
  <2>2. S \subseteq Intents
    BY <2>1 DEF ExecOpen
  <2> HIDE DEF S
  <2> QED
    BY <2>1, <2>2, IntentsRemoved
<1>29. ASSUME Acknowledged
       PROVE  IntentsKept
  <2>1. /\ ops' = SetIntents(Accounted, "none") /\ pc' = "read"
        /\ progress' = Saved /\ Accounted \subseteq Intents
    BY <1>29 DEF Acknowledged, Accounted, Goto
  <2>2. ASSUME NEW p \in Accounted
        PROVE  ~Statement(p) /\ PassedOp(p)'
    <3>1. /\ ~Statement(p) /\ ops[p].table = table /\ RowsEnd(p) <= Saved.at
          /\ p \in DOMAIN ops
      BY DEF Accounted, Intents
    <3>2. RowsEnd(p)' = RowsEnd(p) /\ ops'[p].table = ops[p].table
      BY <2>1, <3>1, SetIntentsFacts DEF RowsEnd
    <3>3. progress'.table = table /\ progress'.at = Saved.at
      BY <2>1 DEF Saved
    <3> QED
      BY <3>1, <3>2, <3>3 DEF PassedOp, Passed
  <2> QED
    BY <2>1, <2>2, IntentsRemoved
<1>30. ASSUME SourceRetry
       PROVE  IntentsKept
  BY <1>30, IntentsSame DEF SourceRetry
<1>31. ASSUME ConfirmCompletion
       PROVE  IntentsKept
  BY <1>31, IntentsSame DEF ConfirmCompletion
<1>32. ASSUME Copied
       PROVE  IntentsKept
  BY <1>32, IntentsSame DEF Copied
<1>33. ASSUME RunEnds
       PROVE  IntentsKept
  BY <1>33, IntentsSame DEF RunEnds
<1>34. ASSUME UNCHANGED vars
       PROVE  IntentsKept
  BY <1>34, IntentsSame DEF vars
<1> QED
  BY <1>1, <1>2, <1>3, <1>4, <1>5, <1>6, <1>7, <1>8, <1>9, <1>10, <1>11, <1>12,
    <1>13, <1>14, <1>15, <1>16, <1>17, <1>18, <1>19, <1>20, <1>21, <1>22,
    <1>23, <1>24, <1>25, <1>26, <1>27, <1>28, <1>29, <1>30, <1>31, <1>32,
    <1>33, <1>34 DEF Next

(* A source query returns keys, each of them once.                         *)
LEMMA SourceFacts ==
  ASSUME NEW t \in Table
  PROVE  /\ Source[t] \in Seq(Keys) /\ Len(Source[t]) \in Nat
         /\ DOMAIN Source[t] = 1..Len(Source[t])
         /\ \A i \in DOMAIN Source[t] : Source[t][i] \in Keys
         /\ \A i, j \in DOMAIN Source[t] : Source[t][i] = Source[t][j] => i = j
         /\ ChunkSize \in Nat \ {0} /\ StatementRows \in Nat \ {0}
         /\ Tables \in Nat \ {0} /\ t \in Nat \ {0}
<1>1. Source[t] \in Seq(Keys) /\ IsInjective(Source[t])
  BY RebuildAssumption DEF Table
<1>2. \A i, j \in DOMAIN Source[t] : Source[t][i] = Source[t][j] => i = j
  BY <1>1 DEF IsInjective
<1> QED
  BY <1>1, <1>2, RebuildAssumption DEF Table

(* The saved progress is a place.                                          *)
LEMMA ProgressFacts ==
  ASSUME TypeOK
  PROVE  /\ progress.table \in Nat /\ progress.at \in Nat
         /\ progress.table # 0 => progress.table \in Table
<1>1. progress = [table |-> 0, at |-> 0] \/ progress \in [table : Table, at : Nat]
  BY DEF TypeOK, NoProgress
<1>2. Table \subseteq Nat
  BY RebuildAssumption DEF Table
<1>3. CASE progress = [table |-> 0, at |-> 0]
  BY <1>3
<1>4. CASE progress \in [table : Table, at : Nat]
  BY <1>2, <1>4
<1> QED
  BY <1>1, <1>3, <1>4

(* The place of a row tells the row.                                       *)
LEMMA ChunkKeys ==
  ASSUME NEW t \in Table, NEW a \in Nat, NEW i \in DOMAIN Source[t]
  PROVE  Source[t][i] \in ChunkAt(t, a) <=> i \in ChunkPlaces(t, a)
BY SourceFacts DEF ChunkAt, ChunkPlaces

(* The places of a chunk lie before its end.                               *)
LEMMA EndFacts ==
  ASSUME NEW t \in Table, NEW a \in Nat, a < Len(Source[t])
  PROVE  /\ End(t, a) \in Nat /\ a < End(t, a) /\ End(t, a) <= Len(Source[t])
         /\ ChunkPlaces(t, a) = {i \in DOMAIN Source[t] : a < i /\ i <= End(t, a)}
         /\ ChunkPlaces(t, a) = (a + 1)..End(t, a)
<1>1. /\ Len(Source[t]) \in Nat /\ DOMAIN Source[t] = 1..Len(Source[t])
      /\ ChunkSize \in Nat \ {0}
  BY SourceFacts
<1>2. CASE a + ChunkSize <= Len(Source[t])
  BY <1>1, <1>2 DEF End, ChunkPlaces
<1>3. CASE ~(a + ChunkSize <= Len(Source[t]))
  BY <1>1, <1>3 DEF End, ChunkPlaces
<1> QED
  BY <1>2, <1>3

(* The copy goes on at one place only.                                     *)
LEMMA FrontierUnique ==
  ASSUME TypeOK, NEW t \in Table, NEW u \in Table, NEW a \in Nat, NEW b \in Nat,
         a < Len(Source[t]), b < Len(Source[u]), Frontier(t, a), Frontier(u, b)
  PROVE  t = u /\ a = b
<1> DEFINE pt == progress.table
           pa == progress.at
<1>1. pt \in Nat /\ pa \in Nat /\ t \in Nat \ {0} /\ u \in Nat \ {0}
  BY ProgressFacts, SourceFacts
<1>2. /\ Len(Source[t]) \in Nat /\ Len(Source[u]) \in Nat
      /\ Source[t] = <<>> => Len(Source[t]) = 0
      /\ Source[u] = <<>> => Len(Source[u]) = 0
  BY SourceFacts
<1>3. \/ t = pt /\ a = pa
      \/ /\ pt < t /\ a = 0
         /\ pt = 0 \/ pa >= Len(Source[pt])
         /\ \A s \in (pt + 1)..(t - 1) : Source[s] = <<>>
  BY DEF Frontier
<1>4. \/ u = pt /\ b = pa
      \/ /\ pt < u /\ b = 0
         /\ pt = 0 \/ pa >= Len(Source[pt])
         /\ \A s \in (pt + 1)..(u - 1) : Source[s] = <<>>
  BY DEF Frontier
<1> HIDE DEF pt, pa
<1>5. CASE t = pt /\ a = pa
  BY <1>1, <1>2, <1>4, <1>5
<1>6. CASE u = pt /\ b = pa
  BY <1>1, <1>2, <1>3, <1>6
<1>7. CASE pt < t /\ pt < u /\ a = 0 /\ b = 0
  <2>1. ~(t < u)
    <3> SUFFICES ASSUME t < u
                 PROVE  FALSE
      OBVIOUS
    <3>1. t \in (pt + 1)..(u - 1)
      BY <1>1, <1>7
    <3> QED
      BY <1>1, <1>2, <1>4, <1>7, <3>1
  <2>2. ~(u < t)
    <3> SUFFICES ASSUME u < t
                 PROVE  FALSE
      OBVIOUS
    <3>1. u \in (pt + 1)..(t - 1)
      BY <1>1, <1>7
    <3> QED
      BY <1>1, <1>2, <1>3, <1>7, <3>1
  <2> QED
    BY <1>1, <1>7, <2>1, <2>2
<1> QED
  BY <1>1, <1>3, <1>4, <1>5, <1>6, <1>7

(* What the saved progress covers lies before the place of the copy.       *)
LEMMA FrontierBeyond ==
  ASSUME TypeOK, NEW t \in Table, NEW a \in Nat, Frontier(t, a),
         NEW i \in Nat, a < i
  PROVE  ~Passed(t, i)
BY ProgressFacts, SourceFacts DEF Frontier, Passed

(* A chunk is acknowledged: its rows are passed, and no others.            *)
LEMMA FrontierMoves ==
  ASSUME TypeOK, NEW t \in Table, NEW a \in Nat, a < Len(Source[t]),
         Frontier(t, a), progress' = [table |-> t, at |-> End(t, a)]
  PROVE  /\ \A u \in Table : \A i \in Nat : Passed(u, i) => Passed(u, i)'
         /\ \A u \in Table : \A i \in DOMAIN Source[u] :
              Passed(u, i)' => Passed(u, i) \/ (u = t /\ i \in ChunkPlaces(t, a))
         /\ Passed(t, End(t, a))' /\ Frontier(t, End(t, a))'
<1> DEFINE pt == progress.table
           pa == progress.at
           e == End(t, a)
<1>1. pt \in Nat /\ pa \in Nat /\ t \in Nat \ {0} /\ e \in Nat /\ a < e
  BY ProgressFacts, SourceFacts, EndFacts
<1>2. progress'.table = t /\ progress'.at = e
  OBVIOUS
<1>3. \/ t = pt /\ a = pa
      \/ /\ pt < t /\ a = 0
         /\ pt = 0 \/ pa >= Len(Source[pt])
         /\ \A s \in (pt + 1)..(t - 1) : Source[s] = <<>>
  BY DEF Frontier
<1>a. \A i \in DOMAIN Source[t] : a < i /\ i <= e => i \in ChunkPlaces(t, a)
  BY EndFacts
<1> HIDE DEF e
<1>4. ASSUME NEW u \in Table, NEW i \in Nat, Passed(u, i)
      PROVE  Passed(u, i)'
  <2>1. u \in Nat /\ (u < pt \/ (u = pt /\ i <= pa))
    BY <1>4, SourceFacts DEF Passed
  <2>2. u < t \/ (u = t /\ i <= e)
    BY <1>1, <1>3, <2>1
  <2> QED
    BY <1>2, <2>2 DEF Passed
<1>5. ASSUME NEW u \in Table, NEW i \in DOMAIN Source[u], Passed(u, i)'
      PROVE  Passed(u, i) \/ (u = t /\ i \in ChunkPlaces(t, a))
  <2>1. /\ u \in Nat /\ i \in Nat /\ i \in 1..Len(Source[u]) /\ Len(Source[u]) \in Nat
        /\ Source[u] # <<>>
    BY SourceFacts
  <2>2. u < t \/ (u = t /\ i <= e)
    BY <1>2, <1>5 DEF Passed
  <2>3. CASE u = t /\ i <= e /\ a < i
    BY <1>a, <2>3
  <2>4. CASE u = t /\ ~(a < i)
    <3>1. t = pt /\ a = pa
      BY <1>1, <1>3, <2>1, <2>4
    <3> QED
      BY <2>1, <2>4, <3>1, <1>1 DEF Passed
  <2>5. CASE u < t
    <3>1. u < pt \/ (u = pt /\ i <= pa)
      <4>1. CASE t = pt
        BY <2>5, <4>1
      <4>2. CASE pt < t /\ u > pt
        <5>1. u \in (pt + 1)..(t - 1)
          BY <1>1, <2>1, <2>5, <4>2
        <5> QED
          BY <1>1, <1>3, <2>1, <4>2, <5>1
      <4>3. CASE pt < t /\ u = pt
        BY <1>1, <1>3, <2>1, <4>3, SourceFacts
      <4> QED
        BY <1>1, <1>3, <2>1, <2>5, <4>1, <4>2, <4>3
    <3> QED
      BY <3>1 DEF Passed
  <2> QED
    BY <1>1, <2>1, <2>2, <2>3, <2>4, <2>5
<1>6. Passed(t, e)' /\ Frontier(t, e)'
  BY <1>1, <1>2 DEF Passed, Frontier
<1> QED
  BY <1>4, <1>5, <1>6 DEF e

(* The copy of a table ends, and goes on with the next one.                *)
LEMMA FrontierNext ==
  ASSUME TypeOK, NEW t \in Table, NEW a \in Nat, a >= Len(Source[t]), Frontier(t, a)
  PROVE  Frontier(t + 1, 0)
<1> DEFINE pt == progress.table
           pa == progress.at
<1>1. pt \in Nat /\ pa \in Nat /\ t \in Nat \ {0} /\ Len(Source[t]) \in Nat
  BY ProgressFacts, SourceFacts
<1>2. Len(Source[t]) = 0 => Source[t] = <<>>
  BY SourceFacts
<1>3. \/ t = pt /\ a = pa
      \/ /\ pt < t /\ a = 0
         /\ pt = 0 \/ pa >= Len(Source[pt])
         /\ \A s \in (pt + 1)..(t - 1) : Source[s] = <<>>
  BY DEF Frontier
<1> SUFFICES /\ pt < t + 1
             /\ pt = 0 \/ pa >= Len(Source[pt])
             /\ \A s \in (pt + 1)..t : Source[s] = <<>>
  <2>1. (t + 1) - 1 = t
    BY <1>1
  <2> QED
    BY <1>1, <2>1 DEF Frontier
<1> HIDE DEF pt, pa
<1>4. CASE t = pt /\ a = pa
  BY <1>1, <1>4
<1>5. CASE /\ pt < t /\ a = 0
           /\ pt = 0 \/ pa >= Len(Source[pt])
           /\ \A s \in (pt + 1)..(t - 1) : Source[s] = <<>>
  <2>1. Source[t] = <<>>
    BY <1>1, <1>2, <1>5
  <2>2. \A s \in (pt + 1)..t : s = t \/ s \in (pt + 1)..(t - 1)
    BY <1>1
  <2> QED
    BY <1>1, <1>5, <2>1, <2>2
<1> QED
  BY <1>3, <1>4, <1>5

(* After the last table every row is passed.                               *)
LEMMA FrontierEnd ==
  ASSUME TypeOK, Frontier(Tables + 1, 0), NEW t \in Table, NEW i \in DOMAIN Source[t]
  PROVE  Passed(t, i)
<1> DEFINE pt == progress.table
           pa == progress.at
<1>1. /\ pt \in Nat /\ pa \in Nat /\ (pt # 0 => pt \in Table)
      /\ t \in 1..Tables /\ Tables \in Nat
  BY ProgressFacts, RebuildAssumption DEF Table
<1>2. i \in Nat /\ i <= Len(Source[t]) /\ Len(Source[t]) \in Nat /\ Source[t] # <<>>
  BY SourceFacts
<1>3. pt # Tables + 1
  BY <1>1 DEF Table
<1>4. /\ pt = 0 \/ pa >= Len(Source[pt])
      /\ \A s \in (pt + 1)..((Tables + 1) - 1) : Source[s] = <<>>
  BY <1>3 DEF Frontier
<1>5. Tables = (Tables + 1) - 1
  BY <1>1
<1>6. t < pt \/ (t = pt /\ i <= pa)
  <2>1. ~(t > pt)
    <3> SUFFICES ASSUME t > pt
                 PROVE  FALSE
      OBVIOUS
    <3>1. t \in (pt + 1)..((Tables + 1) - 1)
      BY <1>1, <1>5
    <3> QED
      BY <1>2, <1>4, <3>1
  <2>2. CASE t = pt
    BY <1>1, <1>2, <1>4, <2>2
  <2> QED
    BY <1>1, <2>1, <2>2
<1> QED
  BY <1>6 DEF Passed

(* Quotients.                                                              *)
LEMMA QuotientFacts ==
  ASSUME NEW a \in Nat, NEW s \in Nat \ {0}
  PROVE  a \div s \in Nat /\ (a \div s) * s <= a /\ a < ((a \div s) + 1) * s
OBVIOUS

(* Products grow.                                                          *)
LEMMA ProductsGrow ==
  ASSUME NEW a \in Nat, NEW b \in Nat, NEW s \in Nat, a <= b
  PROVE  a * s <= b * s
OBVIOUS

(* The rows of a chunk are the ones of its places in the source query.     *)
LEMMA ChunkRows ==
  ASSUME TypeOK, at < Len(Source[table])
  PROVE  LET keys == SubSeq(Remaining, 1, Min({ChunkSize, Len(Remaining)}))
         IN  /\ keys \in Seq(Keys) /\ Len(keys) = End(table, at) - at
             /\ \A j \in 1..Len(keys) : at + j \in DOMAIN Source[table]
                                        /\ keys[j] = Source[table][at + j]
<1>1. /\ Source[table] \in Seq(Keys) /\ at \in Nat /\ table \in Table
      /\ ChunkSize \in Nat \ {0} /\ Len(Source[table]) \in Nat
      /\ \A i \in DOMAIN Source[table] : Source[table][i] \in Keys
  BY SourceFacts DEF TypeOK
<1> DEFINE L == Len(Source[table])
           n == Min({ChunkSize, Len(Remaining)})
<1>2. /\ Remaining \in Seq(Keys) /\ Len(Remaining) = L - at
      /\ \A j \in 1..(L - at) : Remaining[j] = Source[table][at + j]
  <2>1. \A i \in (at + 1)..L : Source[table][i] \in Keys
    BY <1>1
  <2>2. /\ Remaining \in Seq(Keys)
        /\ Len(Remaining) = IF at + 1 <= L THEN L - (at + 1) + 1 ELSE 0
        /\ \A j \in 1..(L - (at + 1) + 1) : Remaining[j] = Source[table][at + 1 + j - 1]
    BY <1>1, <2>1, SubSeqProperties DEF Remaining
  <2>3. L - (at + 1) + 1 = L - at /\ at + 1 <= L
        /\ \A j \in 1..(L - at) : at + 1 + j - 1 = at + j
    BY <1>1
  <2> QED
    BY <2>2, <2>3
<1>3. n = End(table, at) - at /\ n \in Nat /\ n <= L - at
  <2>1. CASE at + ChunkSize <= L
    <3>1. ChunkSize <= L - at /\ L - at \in Nat
      BY <1>1, <2>1
    <3>2. n = ChunkSize
      BY <1>1, <1>2, <3>1 DEF Min
    <3> QED
      BY <1>1, <2>1, <3>1, <3>2 DEF End
  <2>2. CASE ~(at + ChunkSize <= L)
    <3>1. L - at <= ChunkSize /\ L - at \in Nat
      BY <1>1, <2>2
    <3>2. n = L - at
      BY <1>1, <1>2, <3>1 DEF Min
    <3> QED
      BY <1>1, <2>2, <3>1, <3>2 DEF End
  <2> QED
    BY <2>1, <2>2
<1> HIDE DEF n, L
<1> DEFINE keys == SubSeq(Remaining, 1, n)
<1>4. /\ keys \in Seq(Keys) /\ Len(keys) = n
      /\ \A j \in 1..n : keys[j] = Remaining[j]
  <2>1. \A j \in 1..n : Remaining[j] \in Keys
    BY <1>2, <1>3
  <2>2. /\ keys \in Seq(Keys)
        /\ Len(keys) = IF 1 <= n THEN n - 1 + 1 ELSE 0
        /\ \A j \in 1..(n - 1 + 1) : keys[j] = Remaining[1 + j - 1]
    BY <1>3, <2>1, SubSeqProperties
  <2>3. n - 1 + 1 = n /\ \A j \in 1..n : 1 + j - 1 = j
    BY <1>3
  <2> QED
    BY <1>3, <2>2, <2>3
<1> HIDE DEF keys
<1>5. \A j \in 1..n : at + j \in DOMAIN Source[table]
  BY <1>1, <1>3 DEF L
<1>6. L - at \in Nat /\ 1..n \subseteq 1..(L - at)
  BY <1>1, <1>3 DEF L
<1> QED
  BY <1>2, <1>3, <1>4, <1>5, <1>6 DEF keys, n

(* The statements of a chunk write every row of it.                        *)
LEMMA PiecesCover ==
  ASSUME TypeOK, NEW keys \in Seq(Keys), NEW k \in Range(keys)
  PROVE  \E i \in DOMAIN StatementsOf(keys) : k \in DOMAIN StatementsOf(keys)[i]
<1>1. CASE mode = "native"
  <2>1. StatementsOf(keys) = <<Image(keys)>> /\ DOMAIN Image(keys) = Range(keys)
    BY <1>1 DEF StatementsOf, Image
  <2>2. 1 \in DOMAIN StatementsOf(keys) /\ StatementsOf(keys)[1] = Image(keys)
    BY <2>1
  <2> QED
    BY <2>1, <2>2
<1>2. CASE mode # "native"
  <2> DEFINE L == Len(keys)
             S == StatementRows
             m == (L + S - 1) \div S
  <2>1. S \in Nat \ {0} /\ L \in Nat
    BY RebuildAssumption
  <2>2. PICK j \in DOMAIN keys : keys[j] = k
    BY DEF Range
  <2>3. j \in Nat \ {0} /\ j <= L
    BY <2>2
  <2> DEFINE q == (j - 1) \div S
             i == q + 1
  <2>4. q \in Nat /\ q * S <= j - 1 /\ j - 1 < (q + 1) * S
    <3>1. j - 1 \in Nat /\ S \in Nat \ {0}
      BY <2>1, <2>3
    <3> HIDE DEF S
    <3> QED
      BY <3>1, QuotientFacts
  <2>5. m \in Nat /\ L + S - 1 < (m + 1) * S
    BY <2>1, QuotientFacts
  <2>a. StatementsOf(keys) =
          [n \in 1..m |-> Image(SubSeq(keys, (n - 1) * S + 1, Min({n * S, L})))]
    BY <1>2 DEF StatementsOf
  <2> HIDE DEF m, q
  <2>6. i <= m
    <3> SUFFICES ASSUME m <= q
                 PROVE  FALSE
      BY <2>4, <2>5
    <3>1. m * S <= q * S
      BY <2>1, <2>4, <2>5, ProductsGrow
    <3>2. (m + 1) * S = m * S + S /\ m * S \in Nat /\ q * S \in Nat
      BY <2>1, <2>4, <2>5
    <3> HIDE DEF S, L
    <3> QED
      BY <2>1, <2>3, <2>4, <2>5, <3>1, <3>2
  <2> DEFINE lo == (i - 1) * S + 1
             hi == Min({i * S, L})
  <2>7. lo = q * S + 1 /\ i \in Nat \ {0} /\ i - 1 = q
    BY <2>4
  <2>8. q * S \in Nat /\ i * S \in Nat /\ lo \in Nat \ {0} /\ lo <= j
    <3>1. q * S \in Nat /\ i * S \in Nat
      BY <2>1, <2>4
    <3> QED
      BY <2>3, <2>4, <2>7, <3>1
  <2>9. hi \in {i * S, L} /\ hi \in Nat /\ j <= hi /\ hi <= L
    <3>1. i * S = (q + 1) * S
      OBVIOUS
    <3>2. j <= i * S
      BY <2>3, <2>4, <2>8, <3>1
    <3>b. hi \in Nat /\ hi <= L
      BY <2>1, <2>8, MinFacts
    <3> DEFINE iS == i * S
    <3>c. iS \in Nat /\ j <= iS /\ hi = Min({iS, L})
      BY <2>8, <3>2
    <3> HIDE DEF iS, hi
    <3>3. CASE iS <= L
      <4>1. hi = iS
        BY <2>1, <3>3, <3>c DEF Min
      <4> QED
        BY <3>b, <3>c, <4>1 DEF iS
    <3>4. CASE ~(iS <= L)
      <4>1. hi = L
        BY <2>1, <3>4, <3>c DEF Min
      <4> QED
        BY <3>b, <2>3, <4>1
    <3> QED
      BY <3>3, <3>4
  <2>10. StatementsOf(keys)[i] = Image(SubSeq(keys, lo, hi)) /\ i \in DOMAIN StatementsOf(keys)
    <3>1. i \in 1..m
      BY <2>5, <2>6, <2>7
    <3> QED
      BY <2>a, <3>1
  <2> HIDE DEF lo, hi, i
  <2> DEFINE piece == SubSeq(keys, lo, hi)
  <2>11. /\ piece \in Seq(Keys) /\ Len(piece) = hi - lo + 1
         /\ piece[j - lo + 1] = k /\ j - lo + 1 \in DOMAIN piece
    <3>1. \A n \in lo..hi : keys[n] \in Keys
      BY <2>8, <2>9
    <3>2. /\ piece \in Seq(Keys)
          /\ Len(piece) = IF lo <= hi THEN hi - lo + 1 ELSE 0
          /\ \A n \in 1..(hi - lo + 1) : piece[n] = keys[lo + n - 1]
      BY <2>8, <2>9, <3>1, SubSeqProperties
    <3>3. j - lo + 1 \in 1..(hi - lo + 1) /\ lo + (j - lo + 1) - 1 = j /\ lo <= hi
      BY <2>3, <2>8, <2>9
    <3> HIDE DEF piece
    <3> QED
      BY <2>2, <3>2, <3>3
  <2>12. k \in DOMAIN Image(piece)
    BY <2>11 DEF Image, Range
  <2> QED
    BY <2>10, <2>12
<1> QED
  BY <1>1, <1>2

\* A receipt stands for the row at a place of the table.
Receipted(i) ==
  \E o \in receipts :
    ops[o].table = table /\ ops[o].lo < i /\ i <= RowsEnd(o)

(* A chunk is read: it is written unless receipts stand for all of it.     *)
LEMMA ChunkRead ==
  ASSUME TypeOK, ReadChunk
  PROVE  /\ at < Len(Source[table]) /\ DOMAIN chunk' = ChunkAt(table, at)
         /\ Cardinality(DOMAIN chunk') = End(table, at) - at
         /\ mode = "native" => todo' = <<>> \/ todo' = <<chunk'>>
         /\ \/ todo' = <<>> /\ \A i \in ChunkPlaces(table, at) : Receipted(i)
            \/ /\ \E i \in ChunkPlaces(table, at) : ~Receipted(i)
               /\ \A k \in DOMAIN chunk' : \E j \in DOMAIN todo' : k \in DOMAIN todo'[j]
<1>1. /\ Source[table] \in Seq(Keys) /\ at \in Nat /\ table \in Table
      /\ Len(Source[table]) \in Nat
  BY SourceFacts DEF TypeOK
<1>2. at < Len(Source[table])
  <2> SUFFICES ASSUME ~(at < Len(Source[table]))
               PROVE  Remaining = <<>>
    BY DEF ReadChunk
  <2>1. \A i \in (at + 1)..Len(Source[table]) : Source[table][i] \in Keys
    BY <1>1
  <2>2. Remaining \in Seq(Keys) /\ Len(Remaining) = 0
    BY <1>1, <2>1, SubSeqProperties DEF Remaining
  <2> QED
    BY <2>2
<1> DEFINE keys == SubSeq(Remaining, 1, Min({ChunkSize, Len(Remaining)}))
           n == End(table, at) - at
<1>3. /\ keys \in Seq(Keys) /\ Len(keys) = n
      /\ \A j \in 1..n : at + j \in DOMAIN Source[table]
                         /\ keys[j] = Source[table][at + j]
  BY <1>2, ChunkRows
<1>4. chunk' = Image(keys) /\ todo' = IF Received(keys) THEN <<>> ELSE StatementsOf(keys)
  BY DEF ReadChunk
<1>5. n \in Nat /\ ChunkPlaces(table, at) = (at + 1)..(at + n)
  <2>1. End(table, at) \in Nat /\ at < End(table, at)
        /\ ChunkPlaces(table, at) = (at + 1)..End(table, at)
    BY <1>1, <1>2, EndFacts
  <2> QED
    BY <1>1, <2>1
<1> HIDE DEF n, keys
<1>6. DOMAIN keys = 1..n
  BY <1>3
<1>a. \A i \in ChunkPlaces(table, at) : i - at \in 1..n /\ i = at + (i - at)
  BY <1>1, <1>5
<1>b. \A j \in 1..n : at + j \in ChunkPlaces(table, at)
  BY <1>1, <1>5
<1>7. Range(keys) = ChunkAt(table, at) /\ DOMAIN chunk' = Range(keys)
  <2>1. ASSUME NEW k \in Range(keys)
        PROVE  k \in ChunkAt(table, at)
    <3>1. PICK j \in 1..n : k = keys[j]
      BY <1>6 DEF Range
    <3> QED
      BY <1>3, <1>b, <3>1 DEF ChunkAt
  <2>2. ASSUME NEW k \in ChunkAt(table, at)
        PROVE  k \in Range(keys)
    <3>1. PICK i \in ChunkPlaces(table, at) : k = Source[table][i]
      BY DEF ChunkAt
    <3>2. keys[i - at] = k /\ i - at \in DOMAIN keys
      BY <1>3, <1>6, <1>a, <3>1
    <3> QED
      BY <3>2 DEF Range
  <2> QED
    BY <1>4, <2>1, <2>2 DEF Image
<1>8. Cardinality(Range(keys)) = n
  <2>1. IsFiniteSet(1..n) /\ Cardinality(1..n) = n
    BY <1>5, FS_Interval
  <2>2. IsInjective(keys)
    <3> SUFFICES ASSUME NEW i \in 1..n, NEW j \in 1..n, keys[i] = keys[j]
                 PROVE  i = j
      BY <1>6 DEF IsInjective
    <3>1. /\ at + i \in DOMAIN Source[table] /\ at + j \in DOMAIN Source[table]
          /\ Source[table][at + i] = Source[table][at + j]
      BY <1>3
    <3>2. at + i = at + j
      BY <1>1, <3>1, SourceFacts
    <3> QED
      BY <1>1, <1>5, <3>2
  <2>3. keys \in Bijection(1..n, Range(keys))
    BY <1>3, <1>6, <2>2 DEF Bijection, Injection, Surjection, Range, IsInjective
  <2>4. ExistsBijection(1..n, Range(keys))
    BY <2>3 DEF ExistsBijection
  <2> QED
    BY <2>1, <2>4, FS_Bijection
<1>9. Received(keys) <=> \A i \in ChunkPlaces(table, at) : Receipted(i)
  <2>1. Received(keys) <=> \A j \in 1..n : Receipted(at + j)
    BY <1>6 DEF Received, Receipted
  <2> QED
    BY <2>1, <1>a, <1>b
<1>10. mode = "native" => todo' = <<>> \/ todo' = <<chunk'>>
  BY <1>4 DEF StatementsOf
<1>11. CASE Received(keys)
  BY <1>2, <1>4, <1>7, <1>8, <1>9, <1>10, <1>11 DEF n
<1>12. CASE ~Received(keys)
  <2>1. \A k \in DOMAIN chunk' : \E j \in DOMAIN todo' : k \in DOMAIN todo'[j]
    BY <1>3, <1>4, <1>7, <1>12, PiecesCover
  <2> QED
    BY <1>2, <1>7, <1>8, <1>9, <1>10, <1>12, <2>1 DEF n
<1> QED
  BY <1>11, <1>12

(* A table has rows left while it is copied.                               *)
LEMMA TableEnds ==
  ASSUME TypeOK, Remaining = <<>>
  PROVE  at >= Len(Source[table])
<1>1. at \in Nat /\ Source[table] \in Seq(Keys) /\ Len(Source[table]) \in Nat
  BY SourceFacts DEF TypeOK
<1>2. \A i \in (at + 1)..Len(Source[table]) : Source[table][i] \in Keys
  BY <1>1
<1>3. Len(Remaining) = IF at + 1 <= Len(Source[table])
                       THEN Len(Source[table]) - (at + 1) + 1 ELSE 0
  BY <1>1, <1>2, SubSeqProperties DEF Remaining
<1>4. Len(<<>>) = 0
  OBVIOUS
<1> QED
  BY <1>1, <1>3, <1>4

(* The invariant that a completed rebuild is exact.                        *)

\* Rows are written of the source query of their table, and a native commit
\* writes a whole chunk.
RowsSourced ==
  \A o \in DOMAIN ops : DOMAIN ops[o].rows \subseteq Range(Source[ops[o].table])
NativeRows ==
  \A o \in DOMAIN ops : Native(o) =>
    /\ ops[o].lo < Len(Source[ops[o].table])
    /\ DOMAIN ops[o].rows = ChunkAt(ops[o].table, ops[o].lo)
    /\ RowsEnd(o) = End(ops[o].table, ops[o].lo)

\* A row of before the rebuild is there once at most, a copied one is of the
\* source query, and one outside of the scope stays.
CellForms ==
  \A t \in Table, k \in Keys :
    LET cell == target[t][k]
    IN  /\ cell.epoch = 0 => cell.n = 0 \/ (cell.n = 1 /\ Before[t][k] # "absent")
        /\ cell.epoch > 0 => cell.n > 0 /\ k \in Range(Source[t])
        /\ t \in Filtered /\ Before[t][k] = "outside" /\ k \notin Range(Source[t])
             => cell.n = 1

\* Nothing of a submission is copied before its start is saved, and nothing is
\* reset after it.
NotBegun ==
  snap = "none" =>
    /\ \A t \in Table, k \in Keys : target[t][k].epoch # epoch
    /\ \A o \in DOMAIN ops : Ours(o) => ops[o].do = "reset"
StartsAfter ==
  snap # "none" =>
    /\ pc \notin {"validate", "reset", "start"} /\ ~Resetting
    /\ \A o \in DOMAIN ops : Active(o) => ops[o].do # "reset"

\* What is written, may act or is to be written is up to date, unless the
\* stream repairs it.
CellsCurrent ==
  snap # "none" =>
    \A t \in Table, k \in Keys :
      target[t][k].epoch = epoch /\ <<t, k>> \notin edited =>
        target[t][k].version = version[t][k]
ActiveCurrent ==
  snap # "none" =>
    \A o \in DOMAIN ops : Active(o) =>
      \A k \in DOMAIN ops[o].rows :
        <<ops[o].table, k>> \notin edited =>
          ops[o].rows[k] = version[ops[o].table][k]
ChunkCurrent ==
  Copying => \A k \in DOMAIN chunk :
    <<table, k>> \notin edited => chunk[k] = version[table][k]

\* A copied row is there once.
CellsOnce ==
  ~again =>
    \A t \in Table, k \in Keys : target[t][k].epoch = epoch => target[t][k].n = 1

\* The rows of this submission are the ones its operations have written.
WrittenBy ==
  \A t \in Table, k \in Keys : target[t][k].epoch = epoch =>
    \E o \in DOMAIN ops : Wrote(o) /\ ops[o].table = t /\ k \in DOMAIN ops[o].rows
StaysWritten ==
  \A o \in DOMAIN ops : Wrote(o) =>
    \A k \in DOMAIN ops[o].rows : target[ops[o].table][k].epoch = epoch

\* Merges keep their intents while the copy goes on, and every run of the
\* native writer knows the tables that have any.
IntentsOurs == \A o \in Intents : Ours(o)
MergesKept ==
  snap = "open" =>
    \A o \in DOMAIN ops : Ours(o) /\ ops[o].do = "merge" => o \in Intents
MergesVerified ==
  \A o \in verified : ops[o].do = "merge" => ops[o].table \in legacy
MergesKnown ==
  pc \notin {"down", "recover"} /\ mode = "native" /\ snap = "open" =>
    \A o \in DOMAIN ops : Ours(o) /\ ops[o].do = "merge" => ops[o].table \in legacy

\* The copy goes on after the saved progress, with the chunk that comes next.
AtFrontier == pc \in {"read", "ack"} \/ Copying => Frontier(table, at)
InChunk ==
  pc = "ack" \/ Copying =>
    /\ at < Len(Source[table]) /\ DOMAIN chunk = ChunkAt(table, at)
    /\ Cardinality(DOMAIN chunk) = End(table, at) - at
NativeWhole ==
  Copying /\ mode = "native" /\ todo # <<>> =>
    Tail(todo) = <<>> /\ DOMAIN Head(todo) = DOMAIN chunk
ExecHead ==
  Copying /\ pc = "exec" =>
    /\ ops[Current].rows = Head(todo) /\ Ours(Current)
    /\ mode = "native" <=> Native(Current)

\* The rows of a chunk are written or still to be written.
ChunkWritten ==
  pc = "ack" \/ Copying =>
    \A k \in DOMAIN chunk :
      \/ target[table][k].epoch = epoch
      \/ pc # "ack" /\ \E i \in DOMAIN todo : k \in DOMAIN todo[i]

\* A native commit that is not refused is of a chunk that is passed or comes
\* next, and its intent does not go before.
NativePlace ==
  snap = "open" =>
    \A o \in DOMAIN ops : Ours(o) /\ Native(o) /\ ops[o].engine # "failed" =>
      PassedOp(o) \/ Frontier(ops[o].table, ops[o].lo)
IntentGone ==
  snap = "open" =>
    \A o \in DOMAIN ops :
      Ours(o) /\ Native(o) /\ ops[o].engine = "finished" /\ o \notin Intents =>
        PassedOp(o)

\* Recovery leaves a receipt of every commit whose intent it keeps, so that a
\* run knows which rows beyond the progress are written, or looks them up.
ReceiptsOK ==
  /\ pc = "down" => receipts = {} /\ verified = {}
  /\ \A o \in receipts : Native(o) /\ Wrote(o)
  /\ \A o \in verified \cap Intents : Native(o) => o \in receipts
LooksIn(t) == t \in Filtered \/ t \in legacy
ReceiptsKnown ==
  pc \in {"barrier", "plan", "read"} /\ snap = "open" /\ mode = "native" /\ ~again =>
    \A o \in DOMAIN ops : Native(o) /\ Wrote(o) =>
      PassedOp(o) \/ o \in receipts \/ LooksIn(ops[o].table)

\* Rows that are appended are not there.
AppendClear ==
  ~again =>
    \A o \in DOMAIN ops : Active(o) /\ ops[o].do = "append" =>
      \A k \in DOMAIN ops[o].rows : target[ops[o].table][k].n = 0
WriteClear ==
  /\ Copying /\ todo # <<>> /\ mode = "native" /\ ~LooksUp /\ ~again
  /\ pc = "exec" => ops[Current].engine # "finished"
  => \A k \in DOMAIN Head(todo) : target[table][k].epoch # epoch

\* What the progress covers is written, in the end everything.
PassedWritten ==
  snap = "open" =>
    \A t \in Table : \A i \in DOMAIN Source[t] :
      Passed(t, i) => target[t][Source[t][i]].epoch = epoch
AllPassed == pc = "complete" /\ snap = "open" => Frontier(Tables + 1, 0)
AllWritten ==
  snap = "done" =>
    \A t \in Table : \A i \in DOMAIN Source[t] : target[t][Source[t][i]].epoch = epoch

-----------------------------------------------------------------------------
(* The job's saved state, one part at a time.                              *)
LEMMA JobParts ==
  ASSUME [Next]_vars
  PROVE  /\ \/ UNCHANGED <<snap, epoch>> \/ SaveSnapshotStart
            \/ ConfirmCompletion \/ RequestJobRebuild
         /\ epoch' = epoch \/ RequestJobRebuild
         /\ progress' = progress \/ Acknowledged \/ Copied \/ RequestJobRebuild
         /\ mode' = mode \/ UpgradeJobNativeRebuild \/ RequestJobRebuild
         /\ again' = again \/ SourceRetry \/ RequestJobRebuild
         /\ \/ edited' = edited \/ SaveSnapshotStart
            \/ \E row \in Changing : Edit(row[1], row[2])
<1>1. CASE JobStays
  BY <1>1 DEF JobStays
<1>2. CASE \E row \in Changing : Edit(row[1], row[2])
  BY <1>2 DEF Edit, durableVars
<1>3. CASE UpgradeJobNativeRebuild
  BY <1>3 DEF UpgradeJobNativeRebuild, sourceVars
<1>4. CASE RequestJobRebuild
  BY <1>4 DEF RequestJobRebuild, sourceVars
<1>5. CASE SaveSnapshotStart
  BY <1>5 DEF SaveSnapshotStart
<1>6. CASE Acknowledged
  BY <1>6 DEF Acknowledged, sourceVars
<1>7. CASE SourceRetry
  BY <1>7 DEF SourceRetry, sourceVars, durableVars
<1>8. CASE ConfirmCompletion
  BY <1>8 DEF ConfirmCompletion, sourceVars
<1>9. CASE Copied
  BY <1>9 DEF Copied, sourceVars
<1> QED
  BY <1>1, <1>2, <1>3, <1>4, <1>5, <1>6, <1>7, <1>8, <1>9, JobWays DEF JobActs

(* A row of a target changes by an operation of this submission only, which *)
(* has acted until now.                                                    *)
LEMMA CellStep ==
  ASSUME TypeOK, UnseenInv, [Next]_vars, NEW t \in Table, NEW k \in Keys
  PROVE  \/ target'[t][k] = target[t][k]
         \/ \E o \in DOMAIN ops :
              LET op == ops[o]
              IN  /\ Finish(o) /\ Active(o) /\ Ours(o) /\ op.table = t
                  /\ \/ /\ op.do = "reset" /\ InScope(t, k)
                        /\ target'[t][k] = Absent
                     \/ /\ op.do # "reset" /\ k \in DOMAIN op.rows
                        /\ target'[t][k] = Written(op, k, Copies(op, target[t][k].n))
<1>1. CASE NoResult
  BY <1>1 DEF NoResult
<1>2. CASE \E o \in DOMAIN ops : Finish(o)
  <2>1. PICK o \in DOMAIN ops : Finish(o)
    BY <1>2
  <2> DEFINE op == ops[o]
  <2>2. /\ op.table \in Table /\ target \in [Table -> [Keys -> Cell]]
        /\ target' = [target EXCEPT ![op.table] = Effect(op)]
    BY <2>1, OpFacts DEF TypeOK, Finish
  <2>3. Active(o) /\ Ours(o)
    BY <2>1 DEF Finish, Active, UnseenInv, NothingActsUnseen, Ours
  <2> HIDE DEF op
  <2>4. CASE t # op.table
    BY <2>2, <2>4
  <2>5. CASE t = op.table
    <3>1. target'[t][k] = Effect(op)[k]
      BY <2>2, <2>5
    <3>2. Effect(op)[k] =
            IF op.do = "reset" THEN IF InScope(t, k) THEN Absent ELSE target[t][k]
            ELSE IF k \in DOMAIN op.rows
                 THEN Written(op, k, Copies(op, target[t][k].n))
            ELSE target[t][k]
      BY <2>5 DEF Effect
    <3> QED
      BY <2>1, <2>3, <2>5, <3>1, <3>2 DEF op
  <2> QED
    BY <2>4, <2>5
<1> QED
  BY <1>1, <1>2, ResultStep

(* An operation that acts writes its rows.                                 *)
LEMMA FinishWrites ==
  ASSUME TypeOK, NEW o \in DOMAIN ops, Finish(o), ops[o].do # "reset",
         NEW k \in DOMAIN ops[o].rows
  PROVE  target'[ops[o].table][k].epoch = ops[o].epoch
<1> DEFINE op == ops[o]
           t == op.table
<1>1. /\ t \in Table /\ k \in Keys /\ target \in [Table -> [Keys -> Cell]]
      /\ target' = [target EXCEPT ![t] = Effect(op)]
  BY OpFacts DEF TypeOK, Finish
<1>2. op.do # "reset" /\ k \in DOMAIN op.rows
  OBVIOUS
<1> HIDE DEF op
<1>3. target'[t][k] = Effect(op)[k]
  BY <1>1
<1>4. Effect(op)[k] = Written(op, k, Copies(op, target[t][k].n))
  BY <1>1, <1>2 DEF Effect
<1> QED
  BY <1>3, <1>4 DEF Written, op

\* The first statement of a batch is written.
Pops ==
  /\ Copying /\ todo # <<>> /\ pc' = "write" /\ todo' = Tail(todo)
  /\ \E o \in DOMAIN ops :
       Wrote(o) /\ ops[o].table = table /\ ops[o].rows = Head(todo)
  /\ UNCHANGED <<table, at, chunk, progress, again>>
Rejects ==
  /\ Copying /\ pc = "exec" /\ pc' = "write" /\ ops[Current].engine = "failed"
  /\ UNCHANGED <<table, at, chunk, todo, progress, again>>

(* The copy of a chunk.                                                    *)
LEMMA CopyWays ==
  ASSUME TypeOK, UnseenInv, ChunkOK, ExecHead, CopySteps
  PROVE  /\ UNCHANGED <<version, edited, mode, epoch, snap, target, verified,
                        legacy, receipts>>
         /\ \/ PlanTables \/ ReadChunk \/ TableCopied \/ BatchWritten \/ Pops
            \/ Writing \/ Rejects \/ Acknowledged \/ SourceRetry
<1>1. CASE PlanTables
  BY <1>1 DEF PlanTables, sourceVars, durableVars, memoryVars
<1>2. CASE ReadChunk
  BY <1>2 DEF ReadChunk, sourceVars, durableVars
<1>3. CASE TableCopied
  BY <1>3 DEF TableCopied, sourceVars, durableVars, memoryVars
<1>4. CASE BatchWritten
  BY <1>4 DEF BatchWritten, sourceVars, durableVars, memoryVars
<1>5. CASE MergeIssued
  <2>1. PICK o \in Issued("merge", table, Head(todo)) :
          ops[o].intent = "COMMITTED" \/ Confirmable(o)
    BY <1>5 DEF MergeIssued, StatementConfirmed
  <2>2. /\ o \in DOMAIN ops /\ Wrote(o) /\ ops[o].table = table
        /\ ops[o].rows = Head(todo)
    BY <2>1 DEF Issued, Intents, Confirmable, UnseenInv, ConfirmedOK, Wrote, Ours
  <2>3. Pops
    BY <1>5, <2>2 DEF MergeIssued, Pops, Copying, durableVars
  <2> QED
    BY <1>5, <2>3 DEF MergeIssued, sourceVars, durableVars
<1>6. CASE Writing
  BY <1>6 DEF Writing, Begun
<1>7. CASE MergeFinished
  <2>1. /\ pc = "exec" /\ ops[Current].do = "merge"
        /\ ops[Current].engine = "finished" /\ Copying
    BY <1>7 DEF MergeFinished, Confirmable, Copying
  <2>2. /\ Current \in DOMAIN ops /\ Wrote(Current) /\ ops[Current].table = table
        /\ ops[Current].rows = Head(todo) /\ todo # <<>>
    BY <2>1 DEF UnseenInv, ExecOK, ExecHead, Wrote, ChunkOK
  <2>3. Pops
    BY <1>7, <2>1, <2>2 DEF MergeFinished, Pops, Goto, durableVars
  <2> QED
    BY <1>7, <2>3 DEF MergeFinished, sourceVars, durableVars
<1>8. CASE CommitAccepted
  <2>1. /\ pc = "exec" /\ ops[Current].do # "reset"
        /\ ops[Current].engine = "finished" /\ Copying
    BY <1>8 DEF CommitAccepted, Statement, Copying
  <2>2. /\ Current \in DOMAIN ops /\ Wrote(Current) /\ ops[Current].table = table
        /\ ops[Current].rows = Head(todo) /\ todo # <<>>
    BY <2>1 DEF UnseenInv, ExecOK, ExecHead, Wrote, ChunkOK
  <2>3. Pops
    BY <1>8, <2>1, <2>2 DEF CommitAccepted, Pops, Goto, durableVars
  <2> QED
    BY <1>8, <2>3 DEF CommitAccepted, sourceVars, durableVars
<1>9. CASE CommitRejected
  <2>1. Rejects
    BY <1>9 DEF CommitRejected, Rejects, Statement, Copying, Goto, durableVars,
       memoryVars
  <2> QED
    BY <1>9, <2>1 DEF CommitRejected, sourceVars, durableVars, memoryVars
<1>10. CASE Acknowledged
  BY <1>10 DEF Acknowledged, sourceVars
<1>11. CASE SourceRetry
  BY <1>11 DEF SourceRetry, sourceVars, durableVars
<1> QED
  BY <1>1, <1>2, <1>3, <1>4, <1>5, <1>6, <1>7, <1>8, <1>9, <1>10, <1>11 DEF CopySteps

(* A run that stays where it is, while it is up, keeps what is saved of    *)
(* the job, but for updates of the source.                                 *)
LEMMA RunStaysJob ==
  ASSUME [Next]_vars, RunStays, pc # "down"
  PROVE  UNCHANGED <<mode, epoch, snap, progress, again>>
<1>1. pc' = pc
  BY DEF RunStays
<1>2. ~SaveSnapshotStart /\ ~ConfirmCompletion /\ ~Acknowledged /\ ~SourceRetry /\ ~Copied
  BY <1>1 DEF SaveSnapshotStart, ConfirmCompletion, Acknowledged, SourceRetry,
     Copied, Goto
<1>3. ~RequestJobRebuild /\ ~UpgradeJobNativeRebuild
  BY DEF RequestJobRebuild, UpgradeJobNativeRebuild
<1> QED
  BY <1>2, <1>3, JobParts

(* A batch is written from its head.                                       *)
LEMMA HeadFacts ==
  ASSUME TypeOK, ChunkOK, Copying, todo # <<>>
  PROVE  /\ Head(todo) \in Images /\ Within(Head(todo))
         /\ \A k : (\E i \in DOMAIN todo : k \in DOMAIN todo[i]) =>
              \/ k \in DOMAIN Head(todo)
              \/ \E i \in DOMAIN Tail(todo) : k \in DOMAIN Tail(todo)[i]
<1>1. /\ todo \in Seq(Images) /\ Len(todo) \in Nat \ {0} /\ Head(todo) = todo[1]
      /\ DOMAIN todo = 1..Len(todo) /\ DOMAIN Tail(todo) = 1..(Len(todo) - 1)
      /\ \A i \in 1..(Len(todo) - 1) : Tail(todo)[i] = todo[i + 1]
  BY DEF TypeOK
<1>2. Head(todo) \in Images /\ Within(Head(todo))
  BY <1>1 DEF ChunkOK
<1>3. ASSUME NEW k, NEW i \in DOMAIN todo, k \in DOMAIN todo[i]
      PROVE  \/ k \in DOMAIN Head(todo)
             \/ \E j \in DOMAIN Tail(todo) : k \in DOMAIN Tail(todo)[j]
  <2>1. CASE i = 1
    BY <1>1, <1>3, <2>1
  <2>2. CASE i # 1
    <3>1. i - 1 \in DOMAIN Tail(todo) /\ Tail(todo)[i - 1] = todo[(i - 1) + 1]
      BY <1>1, <2>2
    <3>2. (i - 1) + 1 = i
      BY <1>1
    <3> QED
      BY <1>3, <3>1, <3>2
  <2> QED
    BY <2>1, <2>2
<1> QED
  BY <1>2, <1>3

(* A row written over one or none is there once, if none is appended to.   *)
LEMMA CopiesFacts ==
  ASSUME NEW op, op.do \in {"merge", "append", "replace"}, NEW n \in Nat
  PROVE  /\ Copies(op, n) \in Nat /\ Copies(op, n) > 0
         /\ n \in {0, 1} /\ (op.do = "append" => n = 0) => Copies(op, n) = 1
<1>1. CASE op.do = "merge"
  <2>1. CASE n <= 1
    <3>1. Max({n, 1}) = 1
      BY <2>1 DEF Max
    <3> QED
      BY <1>1, <3>1 DEF Copies
  <2>2. CASE ~(n <= 1)
    <3>1. Max({n, 1}) = n
      BY <2>2 DEF Max
    <3> QED
      BY <1>1, <2>2, <3>1 DEF Copies
  <2> QED
    BY <2>1, <2>2
<1>2. CASE op.do = "append"
  BY <1>2 DEF Copies
<1>3. CASE op.do = "replace"
  BY <1>3 DEF Copies
<1> QED
  BY <1>1, <1>2, <1>3

(* Numbers of a row.                                                       *)
LEMMA CellNumbers ==
  ASSUME TypeOK, NEW t \in Table, NEW k \in Keys
  PROVE  /\ target[t][k].n \in Nat /\ target[t][k].epoch \in Nat
         /\ epoch \in Nat \ {0}
<1>1. target[t][k] \in Cell
  BY DEF TypeOK
<1>2. target[t][k].n \in Nat /\ target[t][k].epoch \in Nat
  BY <1>1 DEF Cell
<1>3. epoch \in 1..MaxEpochs
  BY DEF TypeOK
<1> QED
  BY <1>2, <1>3, RebuildAssumption

(* A row that is not updated while the stream's position is saved keeps    *)
(* its version.                                                            *)
LEMMA EditStep ==
  ASSUME TypeOK, [Next]_vars, ~SaveSnapshotStart, NEW t \in Table, NEW k \in Keys,
         <<t, k>> \notin edited'
  PROVE  <<t, k>> \notin edited /\ version'[t][k] = version[t][k]
<1>1. CASE \E row \in Changing : Edit(row[1], row[2])
  <2>1. PICK row \in Changing : Edit(row[1], row[2])
    BY <1>1
  <2> DEFINE u == row[1]
             l == row[2]
  <2>2. /\ edited' = edited \cup {<<u, l>>}
        /\ version' = [version EXCEPT ![u][l] = @ + 1]
    BY <2>1 DEF Edit
  <2> HIDE DEF u, l
  <2>3. ~(t = u /\ k = l)
    BY <2>2
  <2>4. version \in [Table -> [Keys -> 0..MaxEdits]]
    BY DEF TypeOK
  <2>5. version'[t][k] = version[t][k]
    <3>1. CASE t # u
      BY <2>2, <2>4, <3>1
    <3>2. CASE t = u /\ k # l
      BY <2>2, <2>4, <3>2
    <3> QED
      BY <2>3, <3>1, <3>2
  <2> QED
    BY <2>2, <2>5
<1>2. CASE ~\E row \in Changing : Edit(row[1], row[2])
  BY <1>2, VersionStep, JobParts
<1> QED
  BY <1>1, <1>2

(* A chunk is written: it is read now, or a step of its copy goes on.      *)
LEMMA CopyingWays ==
  ASSUME TypeOK, UnseenInv, ChunkOK, ExecHead, [Next]_vars, Copying'
  PROVE  \/ ReadChunk
         \/ /\ Copying
            /\ UNCHANGED <<mode, epoch, snap, progress, again, table, at, chunk,
                           legacy>>
            /\ \/ /\ RunStays /\ pc' = pc
                  /\ pc = "exec" => Current' = Current /\ Current \in DOMAIN ops
               \/ Pops \/ Writing \/ Rejects
<1>1. pc' \in {"write", "exec"}
  BY DEF Copying
<1>2. CASE RunStays
  <2>1. pc' = pc /\ pc # "down"
    BY <1>1, <1>2 DEF RunStays
  <2>2. pc = "exec" => QuietOps
    BY <2>1, OpsStep DEF Begun, BegunReset, BegunRows
  <2>3. pc = "exec" => Current' = Current /\ Current \in DOMAIN ops
                       /\ ops'[Current].do = ops[Current].do
    BY <2>2 DEF QuietOps, Current, UnseenInv, ExecOK
  <2>4. Copying
    BY <1>1, <2>1, <2>3 DEF Copying
  <2> QED
    BY <1>2, <2>1, <2>3, <2>4, RunStaysJob DEF RunStays
<1>3. CASE CopySteps
  <2>1. /\ UNCHANGED <<mode, epoch, snap, legacy>>
        /\ \/ PlanTables \/ ReadChunk \/ TableCopied \/ BatchWritten \/ Pops
           \/ Writing \/ Rejects \/ Acknowledged \/ SourceRetry
    BY <1>3, CopyWays
  <2>2. ~PlanTables /\ ~TableCopied /\ ~BatchWritten /\ ~Acknowledged /\ ~SourceRetry
    BY <1>1 DEF PlanTables, TableCopied, BatchWritten, Acknowledged, SourceRetry, Goto
  <2>3. CASE Writing
    BY <2>1, <2>3 DEF Writing, Begun, Copying
  <2>4. CASE Pops
    BY <2>1, <2>4 DEF Pops
  <2>5. CASE Rejects
    BY <2>1, <2>5 DEF Rejects
  <2> QED
    BY <2>1, <2>2, <2>3, <2>4, <2>5
<1>4. CASE RunActs /\ ~CopySteps
  <2>1. /\ \A o \in DOMAIN ops : ~RecoverStatement(o) /\ ~RecoverCommit(o)
        /\ ~RunEnded /\ ~StartRun /\ ~RecoverDone /\ ~SaveSnapshotStart
        /\ ~ConfirmCompletion /\ ~Copied
    BY <1>1 DEF RecoverStatement, RecoverCommit, RunEnded, StartRun, RecoverDone,
       SaveSnapshotStart, ConfirmCompletion, Copied, Goto, TypeOK
  <2>2. CASE Prepares
    <3>1. pc' = "exec" /\ BegunReset
      BY <1>1, <2>2 DEF Prepares
    <3>2. ops'[Len(ops')].do = "reset"
      BY <3>1 DEF BegunReset, BegunOps
    <3> QED
      BY <3>1, <3>2 DEF Copying, Current
  <2> QED
    BY <1>4, <2>1, <2>2 DEF RunActs
<1> QED
  BY <1>2, <1>3, <1>4, RunWays

-----------------------------------------------------------------------------
(* What is begun is of the chunk that comes next.                          *)
LEMMA RowsSourcedStep ==
  ASSUME TypeOK, UnseenInv, ChunkOK, InChunk, RowsSourced, [Next]_vars
  PROVE  RowsSourced'
<1> SUFFICES ASSUME NEW o \in DOMAIN ops'
             PROVE  DOMAIN ops'[o].rows \subseteq Range(Source[ops'[o].table])
  BY DEF RowsSourced
<1>1. CASE o \in DOMAIN ops
  BY <1>1, OpsKept DEF OpKept, RowsSourced
<1>2. CASE OpNew(o) /\ ops'[o].rows = Nothing
  BY <1>2 DEF Nothing
<1>3. CASE OpNew(o) /\ pc = "write" /\ todo # <<>> /\ ops'[o].rows = Head(todo)
  <2>1. Copying
    BY <1>3 DEF Copying
  <2>2. DOMAIN Head(todo) \subseteq ChunkAt(table, at) /\ ops'[o].table = table
    BY <1>3, <2>1, HeadFacts DEF Within, InChunk, OpNew
  <2>3. ChunkAt(table, at) \subseteq Range(Source[table])
    BY DEF ChunkAt, ChunkPlaces, Range
  <2> QED
    BY <1>3, <2>2, <2>3
<1> QED
  BY <1>1, <1>2, <1>3, OpsKept DEF OpNew

(* The native writer commits whole chunks.                                 *)
LEMMA NativeRowsStep ==
  ASSUME TypeOK, UnseenInv, ChunkOK, InChunk, NativeWhole, NativeRows, [Next]_vars
  PROVE  NativeRows'
<1> SUFFICES ASSUME NEW o \in DOMAIN ops', Native(o)'
             PROVE  /\ ops'[o].lo < Len(Source[ops'[o].table])
                    /\ DOMAIN ops'[o].rows = ChunkAt(ops'[o].table, ops'[o].lo)
                    /\ RowsEnd(o)' = End(ops'[o].table, ops'[o].lo)
  BY DEF NativeRows, End, ChunkAt, ChunkPlaces
<1>1. CASE o \in DOMAIN ops
  <2>1. OpKept(o) /\ Native(o) /\ RowsEnd(o)' = RowsEnd(o)
    BY <1>1, OpsKept DEF OpKept, Native, RowsEnd
  <2> QED
    BY <1>1, <2>1 DEF OpKept, NativeRows
<1>2. CASE OpNew(o)
  <2>1. /\ pc = "write" /\ todo # <<>> /\ ops'[o].rows = Head(todo)
        /\ ops'[o].lo = at /\ mode = "native" /\ ops'[o].table = table
    BY <1>2 DEF OpNew, Native, TypeOK
  <2>2. /\ at < Len(Source[table]) /\ DOMAIN Head(todo) = ChunkAt(table, at)
        /\ Cardinality(DOMAIN Head(todo)) = End(table, at) - at
    BY <2>1 DEF Copying, NativeWhole, InChunk
  <2>3. RowsEnd(o)' = at + (End(table, at) - at)
    BY <2>1, <2>2 DEF RowsEnd
  <2>4. at \in Nat /\ End(table, at) \in Nat
    BY <2>2, EndFacts DEF TypeOK
  <2> QED
    BY <2>1, <2>2, <2>3, <2>4
<1> QED
  BY <1>1, <1>2, OpsKept

(* A row is deleted within the scope only, and written of the source.      *)
LEMMA CellFormsStep ==
  ASSUME TypeOK, UnseenInv, RowsSourced, CellForms, [Next]_vars
  PROVE  CellForms'
<1> SUFFICES ASSUME NEW t \in Table, NEW k \in Keys
             PROVE  LET cell == target'[t][k]
                    IN  /\ cell.epoch = 0 =>
                             cell.n = 0 \/ (cell.n = 1 /\ Before[t][k] # "absent")
                        /\ cell.epoch > 0 => cell.n > 0 /\ k \in Range(Source[t])
                        /\ t \in Filtered /\ Before[t][k] = "outside"
                             /\ k \notin Range(Source[t]) => cell.n = 1
  BY DEF CellForms
<1>1. CASE target'[t][k] = target[t][k]
  BY <1>1 DEF CellForms
<1>2. CASE InScope(t, k) /\ target'[t][k] = Absent
  <2>1. Absent.n = 0 /\ Absent.epoch = 0
    BY DEF Absent
  <2>2. t \in Filtered /\ Before[t][k] = "outside" => target[t][k].epoch > 0
    BY <1>2 DEF InScope
  <2> QED
    BY <1>2, <2>1, <2>2 DEF CellForms
<1>3. CASE \E o \in DOMAIN ops :
             /\ ops[o].table = t /\ ops[o].do # "reset" /\ k \in DOMAIN ops[o].rows
             /\ target'[t][k] = Written(ops[o], k, Copies(ops[o], target[t][k].n))
  <2>1. PICK o \in DOMAIN ops :
             /\ ops[o].table = t /\ ops[o].do # "reset" /\ k \in DOMAIN ops[o].rows
             /\ target'[t][k] = Written(ops[o], k, Copies(ops[o], target[t][k].n))
    BY <1>3
  <2>2. k \in Range(Source[t])
    BY <2>1 DEF RowsSourced
  <2>3. Copies(ops[o], target[t][k].n) > 0
    BY <2>1, OpFacts, CellNumbers, CopiesFacts
  <2>4. ops[o].epoch # 0
    BY OpFacts
  <2> QED
    BY <2>1, <2>2, <2>3, <2>4 DEF Written
<1> QED
  BY <1>1, <1>2, <1>3, CellStep

(* Before the start is saved only resets are begun.                        *)
LEMMA NotBegunStep ==
  ASSUME TypeOK, UnseenInv, CopyOK, CellsOK, NotBegun, [Next]_vars
  PROVE  NotBegun'
<1> SUFFICES ASSUME snap' = "none"
             PROVE  /\ \A t \in Table, k \in Keys : target'[t][k].epoch # epoch'
                    /\ \A o \in DOMAIN ops' : ops'[o].epoch = epoch' => ops'[o].do = "reset"
  BY DEF NotBegun, Ours
<1>1. CASE RequestJobRebuild
  <2>1. epoch' = epoch + 1 /\ target' = target /\ epoch \in Nat
    BY <1>1, EpochNumbers DEF RequestJobRebuild
  <2>2. \A t \in Table, k \in Keys : target'[t][k].epoch # epoch'
    BY <2>1, CellNumbers DEF CellsOK
  <2>3. ~Begun
    BY <1>1 DEF RequestJobRebuild, Begun
  <2>4. \A o \in DOMAIN ops' : ops'[o].epoch # epoch'
    <3> SUFFICES ASSUME NEW o \in DOMAIN ops'
                 PROVE  ops'[o].epoch # epoch'
      OBVIOUS
    <3>1. o \in DOMAIN ops /\ ops'[o].epoch = ops[o].epoch
      BY <2>3, OpsKept DEF OpKept, OpNew
    <3>2. ops[o].epoch <= epoch /\ ops[o].epoch \in Nat
      BY <3>1, EpochNumbers DEF UnseenInv, EpochsOK
    <3> QED
      BY <2>1, <3>1, <3>2
  <2> QED
    BY <2>2, <2>4
<1>2. CASE snap = "none" /\ epoch' = epoch
  <2>1. ASSUME NEW t \in Table, NEW k \in Keys
        PROVE  target'[t][k].epoch # epoch'
    <3>1. CASE target'[t][k] = target[t][k]
      BY <1>2, <3>1 DEF NotBegun
    <3>2. CASE target'[t][k] = Absent
      BY <1>2, <3>2, CellNumbers DEF Absent
    <3> QED
      BY <1>2, <3>1, <3>2, CellStep DEF NotBegun
  <2>2. ASSUME NEW o \in DOMAIN ops', ops'[o].epoch = epoch'
        PROVE  ops'[o].do = "reset"
    <3>1. CASE o \in DOMAIN ops
      BY <1>2, <2>2, <3>1, OpsKept DEF OpKept, NotBegun, Ours
    <3>2. CASE OpNew(o)
      BY <1>2, <3>2 DEF OpNew, CopyOK
    <3> QED
      BY <3>1, <3>2, OpsKept
  <2> QED
    BY <2>1, <2>2
<1> QED
  BY <1>1, <1>2, JobParts DEF SaveSnapshotStart, ConfirmCompletion

(* No reset is left or begun after it.                                     *)
LEMMA StartsAfterStep ==
  ASSUME TypeOK, UnseenInv, CopyOK, ChunkOK, ExecHead, StartsAfter, [Next]_vars
  PROVE  StartsAfter'
<1> SUFFICES ASSUME snap' # "none"
             PROVE  /\ pc' \notin {"validate", "reset", "start"} /\ ~Resetting'
                    /\ \A o \in DOMAIN ops' : Active(o)' => ops'[o].do # "reset"
  BY DEF StartsAfter
<1>1. CASE SaveSnapshotStart
  <2>1. pc = "start" /\ pc' = "barrier" /\ ops' = ops
    BY <1>1 DEF SaveSnapshotStart, Goto
  <2>2. \A o \in DOMAIN ops : ~Active(o)
    BY <2>1 DEF UnseenInv, NothingActsUnseen, Active
  <2> QED
    BY <2>1, <2>2 DEF Resetting, Active
<1>2. CASE ~SaveSnapshotStart /\ snap # "none"
  <2>0. /\ pc \notin {"validate", "reset", "start"} /\ ~Resetting
        /\ \A o \in DOMAIN ops : Active(o) => ops[o].do # "reset"
    BY <1>2 DEF StartsAfter
  <2>1. \A o \in DOMAIN ops' : Active(o)' => ops'[o].do # "reset"
    <3> SUFFICES ASSUME NEW o \in DOMAIN ops', Active(o)'
                 PROVE  ops'[o].do # "reset"
      OBVIOUS
    <3>1. CASE o \in DOMAIN ops
      BY <2>0, <3>1, OpsKept DEF OpKept
    <3>2. CASE OpNew(o)
      BY <2>0, <3>2 DEF OpNew
    <3> QED
      BY <3>1, <3>2, OpsKept
  <2>2. pc' \notin {"validate", "reset", "start"} /\ ~Resetting'
    <3>1. CASE RunStays
      <4>1. pc' = pc
        BY <3>1 DEF RunStays
      <4>2. pc = "exec" => QuietOps
        BY <4>1, OpsStep DEF Begun, BegunReset, BegunRows
      <4>3. pc = "exec" => Current' = Current /\ Current \in DOMAIN ops
                           /\ ops'[Current].do = ops[Current].do
        BY <4>2 DEF QuietOps, Current, UnseenInv, ExecOK
      <4> QED
        BY <2>0, <4>1, <4>3 DEF Resetting
    <3>2. CASE CopySteps
      <4>1. CASE Writing
        <5>1. pc' = "exec" /\ ops'[Len(ops')].do # "reset"
          BY <4>1 DEF Writing, BegunRows, BegunOps
        <5> QED
          BY <5>1 DEF Resetting, Current
      <4>2. CASE Pops \/ Rejects
        BY <4>2 DEF Pops, Rejects, Resetting
      <4>3. CASE PlanTables \/ ReadChunk \/ TableCopied \/ BatchWritten
                 \/ Acknowledged \/ SourceRetry
        BY <4>3 DEF PlanTables, ReadChunk, TableCopied, BatchWritten,
           Acknowledged, SourceRetry, Goto, Resetting
      <4> QED
        BY <3>2, <4>1, <4>2, <4>3, CopyWays
    <3>3. CASE Prepares
      BY <2>0, <3>3 DEF Prepares, Resetting
    <3>4. CASE \/ \E o \in DOMAIN ops : RecoverStatement(o) \/ RecoverCommit(o)
               \/ RunEnded \/ StartRun \/ RecoverDone \/ ConfirmCompletion \/ Copied
      BY <1>2, <3>4 DEF RecoverStatement, RecoverCommit, RunEnded, StartRun,
         RecoverDone, ConfirmCompletion, Copied, Goto, Resetting, TypeOK
    <3> QED
      BY <1>2, <3>1, <3>2, <3>3, <3>4, RunWays DEF RunActs
  <2> QED
    BY <2>1, <2>2
<1> QED
  BY <1>1, <1>2, JobParts DEF RequestJobRebuild, ConfirmCompletion, SnapOK,
     UnseenInv, CopyOK

(* What the run remembers of the recovery, and when recovery ends.         *)
LEMMA RunParts ==
  ASSUME TypeOK, UnseenInv, ChunkOK, ExecHead, [Next]_vars
  PROVE  /\ \/ UNCHANGED <<verified, legacy, receipts>> \/ RunEnded
            \/ \E o \in DOMAIN ops : RecoverStatement(o) \/ RecoverCommit(o)
         /\ pc \in {"down", "recover"} => pc' \in {"down", "recover"} \/ RecoverDone
         /\ pc' = "down" => pc = "down" \/ RunEnded
<1>1. CASE RunStays
  BY <1>1 DEF RunStays
<1>2. CASE CopySteps
  <2>1. UNCHANGED <<verified, legacy, receipts>>
    BY <1>2, CopyWays
  <2>2. pc \in {"plan", "read", "write", "exec", "ack"} /\ pc' # "down"
    BY <1>2, CopyWays DEF PlanTables, ReadChunk, TableCopied, BatchWritten, Pops,
       Writing, Rejects, Copying, Acknowledged, SourceRetry, Goto
  <2> QED
    BY <2>1, <2>2
<1>3. CASE RecoverDone
  BY <1>3 DEF RecoverDone, Goto, memoryVars, TypeOK
<1>4. CASE StartRun
  BY <1>4 DEF StartRun, Goto, memoryVars
<1>5. CASE Prepares
  BY <1>5 DEF Prepares
<1>6. CASE SaveSnapshotStart
  BY <1>6 DEF SaveSnapshotStart, Goto, memoryVars
<1>7. CASE ConfirmCompletion
  BY <1>7 DEF ConfirmCompletion, Goto, memoryVars
<1>8. CASE Copied
  BY <1>8 DEF Copied, Goto, memoryVars
<1>9. CASE RunEnded
  BY <1>9 DEF RunEnded
<1>10. CASE \E o \in DOMAIN ops : RecoverStatement(o) \/ RecoverCommit(o)
  BY <1>10 DEF RecoverStatement, RecoverCommit
<1> QED
  BY <1>1, <1>2, <1>3, <1>4, <1>5, <1>6, <1>7, <1>8, <1>9, <1>10, RunWays
     DEF RunActs

(* A new submission has written nothing.                                   *)
LEMMA RequestEmpty ==
  ASSUME TypeOK, UnseenInv, CellsOK, RequestJobRebuild, [Next]_vars
  PROVE  /\ snap' = "none" /\ pc = "down" /\ target' = target
         /\ \A t \in Table, k \in Keys : target'[t][k].epoch # epoch'
         /\ \A o \in DOMAIN ops' : ~Ours(o)' /\ ops'[o].intent = "none"
<1>1. /\ epoch' = epoch + 1 /\ target' = target /\ epoch \in Nat
      /\ snap' = "none" /\ pc = "down" /\ pc' = "down"
      /\ ops' = SetIntents(Intents, "none")
  BY EpochNumbers DEF RequestJobRebuild
<1>2. \A t \in Table, k \in Keys : target'[t][k].epoch # epoch'
  BY <1>1, CellNumbers DEF CellsOK
<1>3. ~Begun
  BY <1>1 DEF Begun
<1>4. ASSUME NEW o \in DOMAIN ops'
      PROVE  ~Ours(o)' /\ ops'[o].intent = "none"
  <2>1. o \in DOMAIN ops /\ ops'[o].epoch = ops[o].epoch
    BY <1>3, OpsKept DEF OpKept, OpNew
  <2>2. ops[o].epoch <= epoch /\ ops[o].epoch \in Nat
    BY <2>1, EpochNumbers DEF UnseenInv, EpochsOK
  <2>3. ops'[o].intent = "none"
    BY <1>1, <2>1, SetIntentsFacts DEF Intents
  <2> QED
    BY <1>1, <2>1, <2>2, <2>3 DEF Ours
<1> QED
  BY <1>1, <1>2, <1>4

(* A chunk that is appended again stays so for the submission.             *)
LEMMA AgainBefore ==
  ASSUME TypeOK, [Next]_vars, ~again', ~RequestJobRebuild
  PROVE  ~again
<1>1. CASE SourceRetry
  <2>1. again' = (again \/ (mode = "native" /\ ~LooksUp))
    BY <1>1 DEF SourceRetry
  <2> QED
    BY <2>1
<1>2. CASE again' = again
  BY <1>2
<1> QED
  BY <1>1, <1>2, JobParts

(* A row that this submission has written stays so once the start is saved. *)
LEMMA CellStays ==
  ASSUME TypeOK, UnseenInv, StartsAfter, [Next]_vars, snap # "none",
         epoch' = epoch, NEW t \in Table, NEW k \in Keys,
         target[t][k].epoch = epoch
  PROVE  target'[t][k].epoch = epoch'
<1>1. \A o \in DOMAIN ops : Active(o) => ops[o].do # "reset"
  BY DEF StartsAfter
<1>2. \A o \in DOMAIN ops : \A n : Ours(o) => Written(ops[o], k, n).epoch = epoch
  BY DEF Written, Ours
<1> QED
  BY <1>1, <1>2, CellStep

(* A written row is up to date unless the stream repairs it.               *)
LEMMA CellsCurrentStep ==
  ASSUME TypeOK, UnseenInv, CopyOK, NotBegun, CellsCurrent, ActiveCurrent,
         [Next]_vars
  PROVE  CellsCurrent'
<1> SUFFICES ASSUME snap' # "none", NEW t \in Table, NEW k \in Keys,
                    target'[t][k].epoch = epoch', <<t, k>> \notin edited'
             PROVE  target'[t][k].version = version'[t][k]
  BY DEF CellsCurrent
<1>1. epoch' = epoch
  BY JobParts DEF RequestJobRebuild
<1>2. CASE SaveSnapshotStart
  BY <1>1, <1>2 DEF SaveSnapshotStart, StartAdmitted, NotBegun
<1>3. CASE ~SaveSnapshotStart
  <2>1. snap # "none"
    BY <1>3, JobParts DEF ConfirmCompletion, RequestJobRebuild, CopyOK
  <2>2. <<t, k>> \notin edited /\ version'[t][k] = version[t][k]
    BY <1>3, EditStep
  <2>3. CASE target'[t][k] = target[t][k]
    BY <1>1, <2>1, <2>2, <2>3 DEF CellsCurrent
  <2>4. CASE target'[t][k] = Absent
    BY <1>1, <2>4, CellNumbers DEF Absent
  <2>5. CASE \E o \in DOMAIN ops : \E n :
               /\ Active(o) /\ ops[o].table = t /\ k \in DOMAIN ops[o].rows
               /\ target'[t][k] = Written(ops[o], k, n)
    BY <2>1, <2>2, <2>5 DEF Written, ActiveCurrent
  <2> QED
    BY <2>3, <2>4, <2>5, CellStep
<1> QED
  BY <1>2, <1>3

(* So is what may still be written.                                        *)
LEMMA ActiveCurrentStep ==
  ASSUME TypeOK, UnseenInv, ChunkOK, CopyOK, ActiveCurrent, ChunkCurrent, StartsAfter,
         [Next]_vars
  PROVE  ActiveCurrent'
<1> SUFFICES ASSUME snap' # "none", NEW o \in DOMAIN ops', Active(o)',
                    NEW k \in DOMAIN ops'[o].rows,
                    <<ops'[o].table, k>> \notin edited'
             PROVE  ops'[o].rows[k] = version'[ops'[o].table][k]
  BY DEF ActiveCurrent
<1>1. CASE SaveSnapshotStart
  <2>1. pc = "start" /\ ops' = ops
    BY <1>1 DEF SaveSnapshotStart
  <2> QED
    BY <2>1 DEF UnseenInv, NothingActsUnseen, Active
<1>2. CASE ~SaveSnapshotStart /\ o \in DOMAIN ops
  <2>1. /\ Active(o) /\ ops'[o].rows = ops[o].rows /\ ops'[o].table = ops[o].table
    BY <1>2, OpsKept DEF OpKept
  <2>2. snap # "none"
    BY <1>2, JobParts DEF ConfirmCompletion, RequestJobRebuild, CopyOK
  <2>3. ops[o].table \in Table /\ k \in Keys
    BY <1>2, <2>1, OpFacts
  <2> QED
    BY <1>2, <2>1, <2>2, <2>3, EditStep DEF ActiveCurrent
<1>3. CASE ~SaveSnapshotStart /\ OpNew(o)
  <2>1. CASE pc = "reset"
    <3>1. ops'[o].rows = Nothing
      BY <1>3, <2>1 DEF OpNew
    <3> QED
      BY <3>1 DEF Nothing
  <2>2. CASE pc = "write" /\ todo # <<>> /\ ops'[o].rows = Head(todo)
    <3>1. k \in DOMAIN chunk /\ Head(todo)[k] = chunk[k] /\ Copying
      BY <2>2, HeadFacts DEF Within, Copying
    <3>2. ops'[o].table = table /\ table \in Table /\ k \in Keys
      BY <1>3, <3>1, ImageFacts DEF OpNew, TypeOK
    <3>3. <<table, k>> \notin edited /\ version'[table][k] = version[table][k]
      BY <1>3, <3>2, EditStep
    <3> QED
      BY <2>2, <3>1, <3>2, <3>3 DEF ChunkCurrent
  <2> QED
    BY <1>3, <2>1, <2>2 DEF OpNew
<1> QED
  BY <1>1, <1>2, <1>3, OpsKept

(* So is the chunk, of the position the stream goes on from.               *)
LEMMA ChunkCurrentStep ==
  ASSUME TypeOK, UnseenInv, ChunkOK, ExecHead, ChunkCurrent, [Next]_vars
  PROVE  ChunkCurrent'
<1> SUFFICES ASSUME Copying', NEW k \in DOMAIN chunk', <<table', k>> \notin edited'
             PROVE  chunk'[k] = version'[table'][k]
  BY DEF ChunkCurrent
<1>1. CASE ReadChunk
  BY <1>1, ReadFacts DEF ReadChunk, sourceVars
<1>2. CASE Copying /\ table' = table /\ chunk' = chunk
  <2>1. ~SaveSnapshotStart
    BY DEF SaveSnapshotStart, Goto, Copying
  <2>2. table \in Table /\ k \in Keys
    BY <1>2, ImageFacts DEF TypeOK
  <2> QED
    BY <1>2, <2>1, <2>2, EditStep DEF ChunkCurrent
<1> QED
  BY <1>1, <1>2, CopyingWays

(* A written row is there once: nothing is appended to one.                *)
LEMMA CellsOnceStep ==
  ASSUME TypeOK, UnseenInv, CellsOK, ScopeEmptied, NotBegun, CellForms, AppendClear,
         CellsOnce, [Next]_vars
  PROVE  CellsOnce'
<1> SUFFICES ASSUME ~again', NEW t \in Table, NEW k \in Keys,
                    target'[t][k].epoch = epoch'
             PROVE  target'[t][k].n = 1
  BY DEF CellsOnce
<1>1. epoch' = epoch /\ ~again
  <2>1. epoch' = epoch /\ ~RequestJobRebuild
    BY JobParts, RequestEmpty
  <2> QED
    BY <2>1, AgainBefore
<1>2. CASE target'[t][k] = target[t][k]
  BY <1>1, <1>2 DEF CellsOnce
<1>3. CASE target'[t][k] = Absent
  BY <1>1, <1>3, CellNumbers DEF Absent
<1>4. CASE \E o \in DOMAIN ops :
             /\ Active(o) /\ Ours(o) /\ ops[o].table = t
             /\ ops[o].do # "reset" /\ k \in DOMAIN ops[o].rows
             /\ target'[t][k] = Written(ops[o], k, Copies(ops[o], target[t][k].n))
  <2>1. PICK o \in DOMAIN ops :
             /\ Active(o) /\ Ours(o) /\ ops[o].table = t
             /\ ops[o].do # "reset" /\ k \in DOMAIN ops[o].rows
             /\ target'[t][k] = Written(ops[o], k, Copies(ops[o], target[t][k].n))
    BY <1>4
  <2>2. snap # "none"
    BY <2>1 DEF NotBegun
  <2>3. /\ target[t][k].n \in Nat /\ target[t][k].epoch \in Nat
    BY CellNumbers
  <2>4. target[t][k].n \in {0, 1}
    <3>1. CASE target[t][k].epoch = epoch
      BY <1>1, <3>1 DEF CellsOnce
    <3>2. CASE target[t][k].epoch = 0
      BY <3>2 DEF CellForms
    <3>3. CASE target[t][k].epoch > 0
      <4>1. target[t][k].n > 0 /\ InScope(t, k)
        BY <3>3 DEF CellForms, InScope
      <4> QED
        BY <2>2, <3>1, <4>1 DEF ScopeEmptied
    <3> QED
      BY <2>3, <3>2, <3>3
  <2>5. ops[o].do = "append" => target[t][k].n = 0
    BY <1>1, <2>1 DEF AppendClear
  <2>6. Copies(ops[o], target[t][k].n) = 1
    BY <2>1, <2>3, <2>4, <2>5, OpFacts, CopiesFacts
  <2> QED
    BY <2>1, <2>6 DEF Written
<1> QED
  BY <1>2, <1>3, <1>4, CellStep

(* A row of this submission is written by one of its operations.           *)
LEMMA WrittenByStep ==
  ASSUME TypeOK, UnseenInv, CellsOK, WrittenBy, [Next]_vars
  PROVE  WrittenBy'
<1> SUFFICES ASSUME NEW t \in Table, NEW k \in Keys, target'[t][k].epoch = epoch'
             PROVE  \E o \in DOMAIN ops' :
                      Wrote(o)' /\ ops'[o].table = t /\ k \in DOMAIN ops'[o].rows
  BY DEF WrittenBy
<1>1. epoch' = epoch
  BY JobParts, RequestEmpty
<1>2. CASE target'[t][k] = target[t][k]
  <2>1. PICK o \in DOMAIN ops : Wrote(o) /\ ops[o].table = t /\ k \in DOMAIN ops[o].rows
    BY <1>1, <1>2 DEF WrittenBy
  <2>2. OpKept(o) /\ Wrote(o)'
    BY <1>1, <2>1, OpsKept, WroteStep
  <2> QED
    BY <2>1, <2>2 DEF OpKept
<1>3. CASE target'[t][k] = Absent
  BY <1>1, <1>3, CellNumbers DEF Absent
<1>4. CASE \E o \in DOMAIN ops :
             /\ Finish(o) /\ Ours(o) /\ ops[o].table = t
             /\ ops[o].do # "reset" /\ k \in DOMAIN ops[o].rows
  <2>1. PICK o \in DOMAIN ops :
             /\ Finish(o) /\ Ours(o) /\ ops[o].table = t
             /\ ops[o].do # "reset" /\ k \in DOMAIN ops[o].rows
    BY <1>4
  <2>2. OpKept(o) /\ ops'[o].engine = "finished"
    <3>1. ops' = [ops EXCEPT ![o].engine = "finished"] /\ ops[o] \in OpRecord
      BY <2>1 DEF Finish, TypeOK
    <3>2. ops'[o].engine = "finished"
      BY <3>1 DEF OpRecord
    <3> QED
      BY <3>2, OpsKept
  <2> QED
    BY <1>1, <2>1, <2>2 DEF OpKept, Wrote, Ours
<1> QED
  BY <1>2, <1>3, <1>4, CellStep

(* What an operation has written stays of this submission.                 *)
LEMMA StaysWrittenStep ==
  ASSUME TypeOK, UnseenInv, CellsOK, NotBegun, StartsAfter, StaysWritten, [Next]_vars
  PROVE  StaysWritten'
<1> SUFFICES ASSUME NEW o \in DOMAIN ops', Wrote(o)', NEW k \in DOMAIN ops'[o].rows
             PROVE  target'[ops'[o].table][k].epoch = epoch'
  BY DEF StaysWritten
<1>1. epoch' = epoch
  BY JobParts, RequestEmpty DEF Wrote
<1>2. o \in DOMAIN ops /\ (Wrote(o) \/ (Active(o) /\ Ours(o) /\ Finish(o)))
  BY <1>1, WroteStep
<1>3. /\ ops'[o].table = ops[o].table /\ ops'[o].rows = ops[o].rows
      /\ ops'[o].do = ops[o].do
  BY <1>2, OpsKept DEF OpKept
<1>4. CASE Wrote(o)
  <2>1. snap # "none"
    BY <1>2, <1>4 DEF NotBegun, Wrote
  <2>2. target[ops[o].table][k].epoch = epoch
    BY <1>2, <1>3, <1>4 DEF StaysWritten
  <2>3. ops[o].table \in Table /\ k \in Keys
    BY <1>2, <1>3, OpFacts
  <2> QED
    BY <1>1, <1>3, <2>1, <2>2, <2>3, CellStays
<1>5. CASE Ours(o) /\ Finish(o)
  <2>1. ops[o].do # "reset" /\ k \in DOMAIN ops[o].rows
    BY <1>3 DEF Wrote
  <2> QED
    BY <1>1, <1>2, <1>3, <1>5, <2>1, FinishWrites DEF Ours
<1> QED
  BY <1>2, <1>4, <1>5

(* The step by which a run comes to a place.                               *)
LEMMA Arrivals ==
  ASSUME TypeOK, UnseenInv, ChunkOK, ExecHead, [Next]_vars, ~RunStays
  PROVE  /\ pc' = "ack" => BatchWritten
         /\ pc' = "read" => PlanTables \/ TableCopied \/ Acknowledged
         /\ pc' = "plan" => SourceRetry \/ (pc = "barrier" /\ Prepares)
         /\ pc' = "barrier" => RecoverDone \/ SaveSnapshotStart
         /\ pc' = "complete" => RecoverDone \/ TableCopied
         /\ pc' = "exec" => Writing \/ (Begun /\ Prepares)
         /\ pc' \in {"cleanup", "done"} => ConfirmCompletion \/ Copied
<1>1. CASE CopySteps
  <2>1. CASE PlanTables
    BY <2>1 DEF PlanTables, Goto
  <2>2. CASE ReadChunk
    BY <2>2 DEF ReadChunk, Goto
  <2>3. CASE TableCopied
    BY <2>3 DEF TableCopied, Goto
  <2>4. CASE BatchWritten
    BY <2>4 DEF BatchWritten, Goto
  <2>5. CASE Pops \/ Rejects
    BY <2>5 DEF Pops, Rejects
  <2>6. CASE Writing
    BY <2>6 DEF Writing
  <2>7. CASE Acknowledged
    BY <2>7 DEF Acknowledged, Goto
  <2>8. CASE SourceRetry
    BY <2>8 DEF SourceRetry, Goto
  <2> QED
    BY <1>1, <2>1, <2>2, <2>3, <2>4, <2>5, <2>6, <2>7, <2>8, CopyWays
<1>2. CASE Prepares
  BY <1>2 DEF Prepares
<1>3. CASE \E o \in DOMAIN ops : RecoverStatement(o) \/ RecoverCommit(o)
  BY <1>3 DEF RecoverStatement, RecoverCommit
<1>4. CASE RecoverDone
  BY <1>4 DEF RecoverDone, Goto, TypeOK
<1>5. CASE RunEnded \/ StartRun \/ SaveSnapshotStart \/ ConfirmCompletion \/ Copied
  BY <1>5 DEF RunEnded, StartRun, SaveSnapshotStart, ConfirmCompletion, Copied, Goto
<1> QED
  BY <1>1, <1>2, <1>3, <1>4, <1>5, RunWays DEF RunActs

(* A chunk that is acknowledged is saved up to its end.                    *)
LEMMA AckSaves ==
  ASSUME TypeOK, AtFrontier, InChunk, Acknowledged
  PROVE  /\ table \in Table /\ at \in Nat /\ at < Len(Source[table])
         /\ Frontier(table, at) /\ table' = table /\ at' = End(table, at)
         /\ progress' = [table |-> table, at |-> End(table, at)]
         /\ DOMAIN chunk = ChunkAt(table, at)
<1>1. pc = "ack" /\ progress' = Saved /\ at' = Saved.at /\ table' = table
  BY DEF Acknowledged
<1>2. /\ table \in Table /\ at \in Nat /\ at < Len(Source[table])
      /\ Frontier(table, at) /\ DOMAIN chunk = ChunkAt(table, at)
      /\ Cardinality(DOMAIN chunk) = End(table, at) - at
  BY <1>1 DEF AtFrontier, InChunk, TypeOK
<1>3. at + Cardinality(DOMAIN chunk) = End(table, at)
  BY <1>2, EndFacts
<1> QED
  BY <1>1, <1>2, <1>3 DEF Saved

(* A run waits for nothing without an intent.                              *)
LEMMA ExecOpenStep ==
  ASSUME TypeOK, UnseenInv, ChunkOK, ExecHead, ClosedOK, ExecOpen, [Next]_vars
  PROVE  ExecOpen'
<1> SUFFICES ASSUME pc' = "exec"
             PROVE  Current' \in Intents'
  BY DEF ExecOpen
<1>1. CASE Begun
  <2>1. \E do, rows : BegunOps(do, rows)
    BY <1>1 DEF Begun, BegunReset, BegunRows
  <2>2. Len(ops') \in DOMAIN ops' /\ ops'[Len(ops')].intent = "PREPARED"
    BY <2>1 DEF BegunOps
  <2> QED
    BY <2>2 DEF Intents, Current
<1>2. CASE RunStays /\ ~Begun
  <2>1. pc = "exec" /\ QuietOps
    BY <1>2, OpsStep DEF RunStays
  <2>2. Current' = Current /\ Current \in Intents /\ DOMAIN ops' = DOMAIN ops
    BY <2>1 DEF QuietOps, Current, ExecOpen
  <2> QED
    BY <2>2, IntentsStep DEF IntentsKept, Intents
<1> QED
  BY <1>1, <1>2, Arrivals DEF Writing

(* The cleanup comes after the copy is recorded as done.                   *)
LEMMA ClosedStep ==
  ASSUME TypeOK, UnseenInv, ChunkOK, ExecHead, ClosedOK, [Next]_vars
  PROVE  ClosedOK'
<1> SUFFICES ASSUME pc' \in {"cleanup", "done"}
             PROVE  snap' = "done"
  BY DEF ClosedOK
<1>1. CASE RunStays
  <2>1. pc' = pc
    BY <1>1 DEF RunStays
  <2> QED
    BY <1>1, <2>1, RunStaysJob DEF ClosedOK
<1>2. CASE ConfirmCompletion \/ Copied
  BY <1>2 DEF ConfirmCompletion, Copied, ClosedOK
<1> QED
  BY <1>1, <1>2, Arrivals

(* A new submission leaves no intent of an older one.                      *)
LEMMA IntentsOursStep ==
  ASSUME TypeOK, UnseenInv, CellsOK, ExecOpen, ClosedOK, IntentsOurs, [Next]_vars
  PROVE  IntentsOurs'
<1> SUFFICES ASSUME NEW o \in Intents'
             PROVE  Ours(o)'
  BY DEF IntentsOurs
<1>0. o \in DOMAIN ops' /\ ops'[o].intent # "none"
  BY DEF Intents
<1>1. CASE RequestJobRebuild
  BY <1>0, <1>1, RequestEmpty
<1>2. CASE epoch' = epoch /\ o \in DOMAIN ops
  BY <1>2, IntentsStep, OpsKept DEF IntentsKept, OpKept, Ours, IntentsOurs
<1>3. CASE epoch' = epoch /\ OpNew(o)
  BY <1>3 DEF OpNew, Ours
<1> QED
  BY <1>0, <1>1, <1>2, <1>3, OpsKept, JobParts

(* Recovery and the saved progress leave the intents of merges alone.      *)
LEMMA MergesKeptStep ==
  ASSUME TypeOK, UnseenInv, ExecOpen, ClosedOK, NotBegun, MergesKept, [Next]_vars
  PROVE  MergesKept'
<1> SUFFICES ASSUME snap' = "open", NEW o \in DOMAIN ops', Ours(o)',
                    ops'[o].do = "merge"
             PROVE  o \in Intents'
  BY DEF MergesKept
<1>1. epoch' = epoch
  BY JobParts DEF RequestJobRebuild
<1>2. CASE OpNew(o)
  BY <1>2 DEF OpNew, Intents
<1>3. CASE o \in DOMAIN ops
  <2>1. Ours(o) /\ ops[o].do = "merge"
    BY <1>1, <1>3, OpsKept DEF OpKept, Ours
  <2>2. snap = "open"
    <3>1. ~SaveSnapshotStart
      BY <1>3, <2>1 DEF SaveSnapshotStart, StartAdmitted, NotBegun
    <3> QED
      BY <3>1, JobParts DEF ConfirmCompletion, RequestJobRebuild
  <2>3. o \in Intents /\ Statement(o)
    BY <1>3, <2>1, <2>2 DEF MergesKept, Statement
  <2> QED
    BY <1>3, <2>2, <2>3, IntentsStep DEF IntentsKept
<1> QED
  BY <1>2, <1>3, OpsKept

(* Recovery remembers the table of each merge it settles.                  *)
LEMMA MergesVerifiedStep ==
  ASSUME TypeOK, UnseenInv, ChunkOK, ExecHead, MergesVerified, [Next]_vars
  PROVE  MergesVerified'
<1> SUFFICES ASSUME NEW o \in verified', ops'[o].do = "merge"
             PROVE  ops'[o].table \in legacy'
  BY DEF MergesVerified
<1>0. verified \subseteq DOMAIN ops
  BY DEF TypeOK
<1>1. CASE UNCHANGED <<verified, legacy, receipts>>
  BY <1>0, <1>1, OpsKept DEF OpKept, MergesVerified
<1>2. CASE RunEnded
  BY <1>2 DEF RunEnded
<1>3. CASE \E p \in DOMAIN ops : RecoverStatement(p)
  <2>1. PICK p \in DOMAIN ops : RecoverStatement(p)
    BY <1>3
  <2>2. verified' = verified \cup {p} /\ legacy' = legacy \cup LegacyMerge(p)
    BY <2>1 DEF RecoverStatement
  <2>3. o \in DOMAIN ops /\ ops'[o].do = ops[o].do /\ ops'[o].table = ops[o].table
    BY <1>0, <2>2, OpsKept DEF OpKept
  <2> QED
    BY <2>2, <2>3 DEF LegacyMerge, MergesVerified
<1>4. CASE \E p \in DOMAIN ops : RecoverCommit(p)
  <2>1. PICK p \in DOMAIN ops : RecoverCommit(p)
    BY <1>4
  <2>2. verified' = verified \cup {p} /\ legacy' = legacy /\ ops[p].do # "merge"
    BY <2>1 DEF RecoverCommit, Statement
  <2>3. o \in DOMAIN ops /\ ops'[o].do = ops[o].do /\ ops'[o].table = ops[o].table
    BY <1>0, <2>2, OpsKept DEF OpKept
  <2> QED
    BY <2>2, <2>3 DEF MergesVerified
<1> QED
  BY <1>1, <1>2, <1>3, <1>4, RunParts

(* A run of the native writer knows all tables with merges.                *)
LEMMA MergesKnownStep ==
  ASSUME TypeOK, UnseenInv, ChunkOK, ExecHead, NotBegun, MergesKept,
         MergesVerified, MergesKnown, [Next]_vars
  PROVE  MergesKnown'
<1> SUFFICES ASSUME pc' \notin {"down", "recover"}, mode' = "native", snap' = "open",
                    NEW o \in DOMAIN ops', Ours(o)', ops'[o].do = "merge"
             PROVE  ops'[o].table \in legacy'
  BY DEF MergesKnown
<1>1. epoch' = epoch /\ mode = "native"
  BY JobParts DEF RequestJobRebuild, UpgradeJobNativeRebuild
<1>2. o \in DOMAIN ops
  BY <1>1, OpsKept DEF OpNew
<1>3. Ours(o) /\ ops[o].do = "merge" /\ ops'[o].table = ops[o].table
  BY <1>1, <1>2, OpsKept DEF OpKept, Ours
<1>4. snap = "open"
  <2>1. ~SaveSnapshotStart
    BY <1>2, <1>3 DEF SaveSnapshotStart, StartAdmitted, NotBegun
  <2> QED
    BY <2>1, JobParts DEF ConfirmCompletion, RequestJobRebuild
<1>5. CASE pc \in {"down", "recover"}
  <2>1. RecoverDone
    BY <1>5, RunParts
  <2>2. o \in verified /\ legacy' = legacy
    BY <1>2, <1>3, <1>4, <2>1 DEF RecoverDone, AllVerified, MergesKept, memoryVars
  <2> QED
    BY <1>3, <2>2 DEF MergesVerified
<1>6. CASE pc \notin {"down", "recover"}
  <2>1. legacy' = legacy
    BY <1>6, RunParts DEF RunEnded, RecoverStatement, RecoverCommit
  <2> QED
    BY <1>1, <1>2, <1>3, <1>4, <1>6, <2>1 DEF MergesKnown
<1> QED
  BY <1>5, <1>6

(* The copy goes on where the saved progress ends.                         *)
LEMMA AtFrontierStep ==
  ASSUME TypeOK, UnseenInv, ChunkOK, ExecHead, AtFrontier, InChunk, [Next]_vars
  PROVE  AtFrontier'
<1> SUFFICES ASSUME pc' \in {"read", "ack"} \/ Copying'
             PROVE  Frontier(table, at)'
  BY DEF AtFrontier
<1>1. CASE Copying'
  <2>1. CASE ReadChunk
    BY <2>1 DEF ReadChunk, AtFrontier, Frontier, durableVars
  <2>2. CASE Copying /\ UNCHANGED <<progress, table, at>>
    BY <2>2 DEF AtFrontier, Frontier
  <2> QED
    BY <1>1, <2>1, <2>2, CopyingWays
<1>2. CASE RunStays /\ pc' \in {"read", "ack"}
  <2>1. UNCHANGED <<pc, table, at, progress>>
    BY <1>2, RunStaysJob DEF RunStays
  <2> QED
    BY <1>2, <2>1 DEF AtFrontier, Frontier
<1>3. CASE BatchWritten
  <2>1. pc = "write" /\ UNCHANGED <<table, at, progress>>
    BY <1>3 DEF BatchWritten, durableVars
  <2> QED
    BY <2>1 DEF AtFrontier, Frontier, Copying
<1>4. CASE PlanTables
  <2>1. /\ progress' = progress /\ at' = progress.at
        /\ table' = IF progress = NoProgress THEN 1 ELSE progress.table
    BY <1>4 DEF PlanTables, durableVars
  <2>2. CASE progress = NoProgress
    <3>1. progress'.table = 0 /\ progress'.at = 0 /\ table' = 1 /\ at' = 0
      BY <2>1, <2>2 DEF NoProgress
    <3> QED
      BY <3>1 DEF Frontier
  <2>3. CASE progress # NoProgress
    BY <2>1, <2>3 DEF Frontier
  <2> QED
    BY <2>2, <2>3
<1>5. CASE TableCopied /\ pc' = "read"
  <2>1. /\ pc = "read" /\ Remaining = <<>> /\ table' = FollowingTable /\ at' = 0
        /\ progress' = progress /\ table # Tables
    BY <1>5 DEF TableCopied, durableVars, Goto, LastTable
  <2>2. table \in Table /\ at \in Nat /\ Frontier(table, at)
    BY <2>1 DEF TypeOK, AtFrontier
  <2>3. Frontier(table + 1, 0) /\ FollowingTable = table + 1
    BY <2>1, <2>2, TableEnds, FrontierNext, Following DEF FollowingTable
  <2> QED
    BY <2>1, <2>3 DEF Frontier
<1>6. CASE Acknowledged
  <2>1. /\ table \in Table /\ at \in Nat /\ at < Len(Source[table])
        /\ Frontier(table, at) /\ table' = table /\ at' = End(table, at)
        /\ progress' = [table |-> table, at |-> End(table, at)]
    BY <1>6, AckSaves
  <2>2. PICK t \in Table, a \in Nat : t = table /\ a = at
    BY <2>1
  <2>3. Frontier(t, End(t, a))'
    BY <2>1, <2>2, FrontierMoves
  <2>4. t = table' /\ at' = End(t, a)
    BY <2>1, <2>2
  <2> QED
    BY <2>3, <2>4 DEF Frontier
<1> QED
  BY <1>1, <1>2, <1>3, <1>4, <1>5, <1>6, Arrivals

(* The copy completes when every row is passed.                            *)
LEMMA AllPassedStep ==
  ASSUME TypeOK, UnseenInv, ChunkOK, ExecHead, AtFrontier, AllPassed, [Next]_vars
  PROVE  AllPassed'
<1> SUFFICES ASSUME pc' = "complete", snap' = "open"
             PROVE  Frontier(Tables + 1, 0)'
  BY DEF AllPassed
<1>1. CASE RunStays
  <2>1. UNCHANGED <<pc, snap, progress>>
    BY <1>1, RunStaysJob DEF RunStays
  <2> QED
    BY <2>1 DEF AllPassed, Frontier
<1>2. CASE RecoverDone
  BY <1>2 DEF RecoverDone, Goto, durableVars, TypeOK
<1>3. CASE TableCopied
  <2>1. pc = "read" /\ Remaining = <<>> /\ progress' = progress /\ table = Tables
    BY <1>3 DEF TableCopied, durableVars, Goto, LastTable
  <2>2. table \in Table /\ at \in Nat /\ Frontier(table, at)
    BY <2>1 DEF TypeOK, AtFrontier
  <2>3. Frontier(Tables + 1, 0)
    BY <2>1, <2>2, TableEnds, FrontierNext
  <2> QED
    BY <2>1, <2>3 DEF Frontier
<1> QED
  BY <1>1, <1>2, <1>3, Arrivals

(* The chunk that is written or acknowledged is the one that comes next.   *)
LEMMA InChunkStep ==
  ASSUME TypeOK, UnseenInv, ChunkOK, ExecHead, InChunk, [Next]_vars
  PROVE  InChunk'
<1> SUFFICES ASSUME pc' = "ack" \/ Copying'
             PROVE  /\ at' < Len(Source[table'])
                    /\ DOMAIN chunk' = ChunkAt(table', at')
                    /\ Cardinality(DOMAIN chunk') = End(table', at') - at'
  BY DEF InChunk, ChunkAt, ChunkPlaces, End
<1>1. CASE ReadChunk
  BY <1>1, ChunkRead DEF ReadChunk
<1>2. CASE (pc = "ack" \/ Copying) /\ UNCHANGED <<table, at, chunk>>
  BY <1>2 DEF InChunk
<1>3. CASE pc' = "ack" /\ RunStays
  <2>1. pc = "ack" /\ UNCHANGED <<table, at, chunk>>
    BY <1>3 DEF RunStays
  <2> QED
    BY <1>2, <2>1
<1>4. CASE pc' = "ack" /\ BatchWritten
  <2>1. Copying /\ UNCHANGED <<table, at, chunk>>
    BY <1>4 DEF BatchWritten, memoryVars, Copying
  <2> QED
    BY <1>2, <2>1
<1>5. CASE Copying' /\ ~ReadChunk
  BY <1>2, <1>5, CopyingWays
<1> QED
  BY <1>1, <1>3, <1>4, <1>5, Arrivals

(* The native writer has its whole chunk to write, or nothing of it.       *)
LEMMA NativeWholeStep ==
  ASSUME TypeOK, UnseenInv, ChunkOK, ExecHead, NativeWhole, [Next]_vars
  PROVE  NativeWhole'
<1> SUFFICES ASSUME Copying', mode' = "native", todo' # <<>>
             PROVE  Tail(todo') = <<>> /\ DOMAIN Head(todo') = DOMAIN chunk'
  BY DEF NativeWhole
<1>1. CASE ReadChunk
  <2>1. mode = "native"
    BY <1>1 DEF ReadChunk, durableVars
  <2>2. todo' = <<chunk'>>
    BY <1>1, <2>1, ChunkRead
  <2> QED
    BY <2>2
<1>2. CASE ~ReadChunk
  <2>1. Copying /\ mode = "native" /\ chunk' = chunk
    BY <1>2, CopyingWays
  <2>2. CASE Pops
    BY <2>1, <2>2 DEF Pops, NativeWhole
  <2>3. CASE todo' = todo
    BY <2>1, <2>3 DEF NativeWhole
  <2> QED
    BY <1>2, <2>2, <2>3, CopyingWays DEF RunStays, Writing, Begun, Rejects
<1> QED
  BY <1>1, <1>2

(* The statement or commit a run waits for is of the head of its batch.    *)
LEMMA ExecHeadStep ==
  ASSUME TypeOK, UnseenInv, ChunkOK, ExecHead, [Next]_vars
  PROVE  ExecHead'
<1> SUFFICES ASSUME Copying', pc' = "exec"
             PROVE  /\ ops'[Current'].rows = Head(todo') /\ Ours(Current)'
                    /\ mode' = "native" <=> Native(Current)'
  BY DEF ExecHead
<1>0. ~ReadChunk /\ ~Pops /\ ~Rejects
  BY DEF ReadChunk, Pops, Rejects, Goto
<1>1. CASE Writing
  <2>1. /\ UNCHANGED <<mode, epoch, todo>> /\ Len(ops') \notin DOMAIN ops
        /\ Len(ops') \in DOMAIN ops' /\ pc = "write"
    BY <1>1 DEF Writing, Begun, BegunRows, BegunOps
  <2>2. OpNew(Len(ops'))
    BY <2>1, OpsKept
  <2>3. /\ ops'[Len(ops')].rows = Head(todo) /\ ops'[Len(ops')].epoch = epoch
        /\ ops'[Len(ops')].do \in {"merge", "append", "replace"}
        /\ ops'[Len(ops')].do = "merge" <=> mode = "merge"
    BY <2>1, <2>2 DEF OpNew
  <2> QED
    BY <2>1, <2>3 DEF Current, Native, Ours, TypeOK
<1>2. CASE RunStays /\ pc' = pc
  <2>1. /\ Copying /\ pc = "exec" /\ UNCHANGED <<mode, epoch, todo>>
        /\ Current' = Current /\ Current \in DOMAIN ops
    BY <1>2, <1>0, CopyingWays DEF RunStays, Writing
  <2>2. OpKept(Current)
    BY <2>1, OpsKept
  <2> QED
    BY <2>1, <2>2 DEF OpKept, ExecHead, Native, Ours
<1> QED
  BY <1>0, <1>1, <1>2, CopyingWays

(* The rows of a chunk are written, one way or the other.                  *)
LEMMA ChunkWrittenStep ==
  ASSUME TypeOK, UnseenInv, CopyOK, ChunkOK, ExecHead, InChunk, CellsOK, StartsAfter,
         StaysWritten, NativeRows, ReceiptsOK, ChunkWritten, [Next]_vars
  PROVE  ChunkWritten'
<1> SUFFICES ASSUME pc' = "ack" \/ Copying', NEW k \in DOMAIN chunk'
             PROVE  \/ target'[table'][k].epoch = epoch'
                    \/ pc' # "ack" /\ \E i \in DOMAIN todo' : k \in DOMAIN todo'[i]
  BY DEF ChunkWritten
<1>1. CASE ReadChunk
  <2>1. UNCHANGED <<table, target, epoch>> /\ pc' # "ack"
    BY <1>1 DEF ReadChunk, durableVars, Goto
  <2>2. CASE todo' = <<>> /\ \A i \in ChunkPlaces(table, at) : Receipted(i)
    <3>1. k \in ChunkAt(table, at) /\ at < Len(Source[table])
          /\ table \in Table /\ at \in Nat
      BY <1>1, ChunkRead DEF TypeOK
    <3>2. PICK i \in ChunkPlaces(table, at) : k = Source[table][i]
      BY <3>1 DEF ChunkAt
    <3>3. PICK o \in receipts :
            ops[o].table = table /\ ops[o].lo < i /\ i <= RowsEnd(o)
      BY <2>2, <3>2 DEF Receipted
    <3>4. /\ o \in DOMAIN ops /\ Native(o) /\ Wrote(o)
      BY <3>3 DEF ReceiptsOK, TypeOK
    <3>5. i \in DOMAIN Source[table]
      BY <3>2 DEF ChunkPlaces
    <3>6. /\ ops[o].lo \in Nat /\ ops[o].lo < Len(Source[table])
          /\ DOMAIN ops[o].rows = ChunkAt(table, ops[o].lo)
          /\ RowsEnd(o) = End(table, ops[o].lo)
      BY <3>3, <3>4, OpFacts DEF NativeRows
    <3>7. i \in ChunkPlaces(table, ops[o].lo)
      BY <3>1, <3>3, <3>5, <3>6, EndFacts
    <3>8. k \in DOMAIN ops[o].rows
      BY <3>1, <3>2, <3>5, <3>6, <3>7, ChunkKeys
    <3> QED
      BY <2>1, <3>3, <3>4, <3>8 DEF StaysWritten
  <2> QED
    BY <1>1, <2>1, <2>2, ChunkRead
<1>2. CASE /\ pc = "ack" \/ Copying
           /\ UNCHANGED <<table, chunk, epoch>>
           /\ \/ (pc' = "ack" <=> pc = "ack") /\ todo' = todo
              \/ pc = "write" /\ todo = <<>>
              \/ Pops
  <2>1. k \in DOMAIN chunk /\ snap # "none" /\ table \in Table /\ k \in Keys
    BY <1>2, ImageFacts DEF CopyOK, Copying, TypeOK
  <2>2. CASE target[table][k].epoch = epoch
    BY <1>2, <2>1, <2>2, CellStays
  <2>3. CASE pc # "ack" /\ \E i \in DOMAIN todo : k \in DOMAIN todo[i]
    <3>1. CASE todo' = todo /\ pc' # "ack"
      BY <2>3, <3>1
    <3>2. CASE Pops
      <4>1. CASE k \in DOMAIN Head(todo)
        <5>1. target[table][k].epoch = epoch
          BY <3>2, <4>1 DEF Pops, StaysWritten
        <5> QED
          BY <2>2, <5>1
      <4>2. CASE \E i \in DOMAIN Tail(todo) : k \in DOMAIN Tail(todo)[i]
        BY <3>2, <4>2 DEF Pops
      <4> QED
        BY <2>3, <3>2, <4>1, <4>2, HeadFacts DEF Pops
    <3> QED
      BY <1>2, <2>3, <3>1, <3>2
  <2> QED
    BY <1>2, <2>1, <2>2, <2>3 DEF ChunkWritten
<1>3. CASE pc' = "ack" /\ RunStays
  <2>1. pc = "ack" /\ UNCHANGED <<table, chunk, todo, epoch>>
    BY <1>3, RunStaysJob DEF RunStays
  <2> QED
    BY <1>2, <1>3, <2>1
<1>4. CASE pc' = "ack" /\ BatchWritten
  <2>1. Copying /\ pc = "write" /\ todo = <<>> /\ UNCHANGED <<table, chunk, epoch>>
    BY <1>4 DEF BatchWritten, memoryVars, durableVars, Copying
  <2> QED
    BY <1>2, <2>1
<1>5. CASE Copying' /\ ~ReadChunk
  <2>1. pc' # "ack" /\ Copying /\ pc # "ack" /\ UNCHANGED <<table, chunk, epoch>>
    BY <1>5, CopyingWays DEF Copying
  <2>2. Pops \/ todo' = todo
    BY <1>5, CopyingWays DEF RunStays, Writing, Begun, Rejects
  <2> QED
    BY <1>2, <2>1, <2>2
<1> QED
  BY <1>1, <1>3, <1>4, <1>5, Arrivals

(* What is saved of the progress while the copy goes on.                   *)
LEMMA ProgressWays ==
  ASSUME ClosedOK, [Next]_vars, snap' = "open"
  PROVE  progress' = progress \/ Acknowledged
<1>1. ~Copied
  BY DEF Copied, ClosedOK
<1>2. ~RequestJobRebuild
  BY DEF RequestJobRebuild
<1> QED
  BY <1>1, <1>2, JobParts

(* An operation that the progress covers stays covered, and so is the one  *)
(* whose chunk is acknowledged.                                            *)
LEMMA PassedStays ==
  ASSUME TypeOK, UnseenInv, ClosedOK, AtFrontier, InChunk, [Next]_vars, snap' = "open",
         NEW o \in DOMAIN ops, PassedOp(o)
  PROVE  PassedOp(o)'
<1>1. /\ ops'[o].table = ops[o].table /\ RowsEnd(o)' = RowsEnd(o)
      /\ ops[o].table \in Table /\ RowsEnd(o) \in Nat
  BY OpsKept, OpFacts DEF OpKept, RowsEnd
<1>2. CASE progress' = progress
  BY <1>1, <1>2 DEF PassedOp, Passed
<1>3. CASE Acknowledged
  <2>1. PICK t \in Table, a \in Nat :
          /\ a < Len(Source[t]) /\ Frontier(t, a)
          /\ progress' = [table |-> t, at |-> End(t, a)]
    BY <1>3, AckSaves
  <2>2. \A u \in Table : \A i \in Nat : Passed(u, i) => Passed(u, i)'
    BY <2>1, FrontierMoves
  <2> QED
    BY <1>1, <2>2 DEF PassedOp, Passed
<1> QED
  BY <1>2, <1>3, ProgressWays

(* A commit of the chunk that is acknowledged is passed.                   *)
LEMMA PlaceAcked ==
  ASSUME TypeOK, UnseenInv, ClosedOK, AtFrontier, InChunk, NativeRows, [Next]_vars,
         snap' = "open", Acknowledged, NEW o \in DOMAIN ops, Native(o),
         PassedOp(o) \/ Frontier(ops[o].table, ops[o].lo)
  PROVE  PassedOp(o)'
<1>1. CASE PassedOp(o)
  BY <1>1, PassedStays
<1>2. CASE Frontier(ops[o].table, ops[o].lo)
  <2>1. /\ ops'[o].table = ops[o].table /\ RowsEnd(o)' = RowsEnd(o)
        /\ ops[o].table \in Table /\ ops[o].lo \in Nat
        /\ ops[o].lo < Len(Source[ops[o].table])
        /\ RowsEnd(o) = End(ops[o].table, ops[o].lo)
    BY OpsKept, OpFacts DEF OpKept, RowsEnd, NativeRows
  <2>2. PICK t \in Table, a \in Nat :
          /\ t = table /\ a = at /\ a < Len(Source[t]) /\ Frontier(t, a)
          /\ progress' = [table |-> t, at |-> End(t, a)]
    BY AckSaves
  <2>3. ops[o].table = t /\ ops[o].lo = a
    BY <1>2, <2>1, <2>2, FrontierUnique
  <2>4. Passed(t, End(t, a))'
    BY <2>2, FrontierMoves
  <2> QED
    BY <2>1, <2>3, <2>4 DEF PassedOp, Passed
<1> QED
  BY <1>1, <1>2

(* A commit of this submission that is not begun in this step was there    *)
(* after the start of the copy was saved.                                  *)
LEMMA NativeBefore ==
  ASSUME TypeOK, UnseenInv, NotBegun, [Next]_vars, snap' = "open",
         NEW o \in DOMAIN ops, Ours(o)', Native(o)'
  PROVE  epoch' = epoch /\ Ours(o) /\ Native(o) /\ snap = "open"
<1>1. epoch' = epoch
  BY JobParts DEF RequestJobRebuild
<1>2. Ours(o) /\ Native(o)
  BY <1>1, OpsKept DEF OpKept, Ours, Native
<1>3. ~SaveSnapshotStart
  BY <1>2 DEF SaveSnapshotStart, StartAdmitted, NotBegun, Native
<1> QED
  BY <1>1, <1>2, <1>3, JobParts DEF ConfirmCompletion, RequestJobRebuild

(* A commit is of a chunk that is passed or comes next.                    *)
LEMMA NativePlaceStep ==
  ASSUME TypeOK, UnseenInv, ClosedOK, NotBegun, AtFrontier, InChunk, NativeRows,
         NativePlace, [Next]_vars
  PROVE  NativePlace'
<1> SUFFICES ASSUME snap' = "open", NEW o \in DOMAIN ops', Ours(o)', Native(o)',
                    ops'[o].engine # "failed"
             PROVE  PassedOp(o)' \/ Frontier(ops[o].table, ops[o].lo)'
  BY DEF NativePlace
<1>1. CASE OpNew(o)
  <2>1. /\ ops'[o].table = table /\ ops'[o].lo = at /\ progress' = progress
        /\ pc = "write"
    BY <1>1 DEF OpNew, Begun, Native
  <2>2. Frontier(table, at)
    BY <2>1 DEF AtFrontier, Copying
  <2> QED
    BY <2>1, <2>2 DEF Frontier
<1>2. CASE o \in DOMAIN ops
  <2>1. Ours(o) /\ Native(o) /\ snap = "open" /\ OpKept(o)
    BY <1>2, NativeBefore, OpsKept
  <2>2. ops[o].engine # "failed"
    BY <2>1 DEF OpKept, Active
  <2>3. PassedOp(o) \/ Frontier(ops[o].table, ops[o].lo)
    BY <1>2, <2>1, <2>2 DEF NativePlace
  <2>4. CASE Acknowledged
    BY <1>2, <2>1, <2>3, <2>4, PlaceAcked
  <2>5. CASE progress' = progress
    <3>1. PassedOp(o) => PassedOp(o)'
      BY <1>2, PassedStays
    <3>2. /\ ops'[o].table = ops[o].table /\ ops'[o].lo = ops[o].lo
      BY <2>1 DEF OpKept
    <3> QED
      BY <2>3, <2>5, <3>1, <3>2 DEF Frontier
  <2> QED
    BY <2>4, <2>5, ProgressWays
<1> QED
  BY <1>1, <1>2, OpsKept

(* A commit loses its intent no sooner than its chunk is passed.           *)
LEMMA IntentGoneStep ==
  ASSUME TypeOK, UnseenInv, ExecOpen, ClosedOK, NotBegun, AtFrontier, InChunk,
         IntentGone, [Next]_vars
  PROVE  IntentGone'
<1> SUFFICES ASSUME snap' = "open", NEW o \in DOMAIN ops', Ours(o)', Native(o)',
                    ops'[o].engine = "finished", o \notin Intents'
             PROVE  PassedOp(o)'
  BY DEF IntentGone
<1>1. o \in DOMAIN ops
  BY OpsKept DEF OpNew
<1>2. Ours(o) /\ Native(o) /\ snap = "open" /\ OpKept(o)
  BY <1>1, NativeBefore, OpsKept
<1>3. CASE o \in Intents
  <2>1. ops[o].engine # "failed"
    BY <1>2 DEF OpKept, Active
  <2> QED
    BY <1>1, <1>2, <1>3, <2>1, IntentsStep DEF IntentsKept
<1>4. CASE o \notin Intents
  <2>1. ~Active(o)
    BY <1>1, <1>4 DEF UnseenInv, NothingActsUnseen, Active, Intents
  <2>2. PassedOp(o)
    BY <1>1, <1>2, <1>4, <2>1 DEF OpKept, IntentGone
  <2> QED
    BY <1>1, <2>2, PassedStays
<1> QED
  BY <1>3, <1>4

(* Recovery leaves receipts of what was written only, and of every intent. *)
LEMMA ReceiptsOKStep ==
  ASSUME TypeOK, UnseenInv, ChunkOK, ExecHead, ExecOpen, ClosedOK, CellsOK,
         IntentsOurs, ReceiptsOK, [Next]_vars
  PROVE  ReceiptsOK'
<1>0. receipts \subseteq DOMAIN ops /\ verified \subseteq DOMAIN ops
  BY DEF TypeOK
<1>1. pc' = "down" => receipts' = {} /\ verified' = {}
  <2> SUFFICES ASSUME pc' = "down"
               PROVE  receipts' = {} /\ verified' = {}
    OBVIOUS
  <2>1. CASE RunEnded
    BY <2>1 DEF RunEnded
  <2>2. CASE ~RunEnded
    <3>1. pc = "down"
      BY <2>2, RunParts
    <3>2. UNCHANGED <<verified, receipts>>
      BY <2>2, <3>1, RunParts DEF RecoverStatement, RecoverCommit
    <3> QED
      BY <3>1, <3>2 DEF ReceiptsOK
  <2> QED
    BY <2>1, <2>2
<1>2. ASSUME NEW o \in receipts'
      PROVE  Native(o)' /\ Wrote(o)'
  <2>1. epoch' = epoch
    BY <1>1, <1>2, JobParts, RequestEmpty DEF RequestJobRebuild
  <2>2. o \in DOMAIN ops /\ Native(o) /\ Wrote(o)
    <3>1. CASE o \in receipts
      BY <1>0, <3>1 DEF ReceiptsOK
    <3>2. CASE RecoverCommit(o) /\ ops[o].engine = "finished" /\ o \in DOMAIN ops
      <4>1. o \in Intents /\ ~Statement(o)
        BY <3>2 DEF RecoverCommit
      <4>2. Native(o)
        BY <3>2, <4>1, OpFacts DEF Statement, Native
      <4> QED
        BY <3>2, <4>1, <4>2 DEF IntentsOurs, Native, Wrote
    <3>3. CASE o \notin receipts
      <4>1. PICK p \in DOMAIN ops : RecoverCommit(p)
        BY <1>2, <3>3, RunParts DEF RunEnded, RecoverStatement
      <4>2. o = p /\ ops[p].engine = "finished"
        BY <1>2, <3>3, <4>1 DEF RecoverCommit
      <4> QED
        BY <3>2, <4>1, <4>2
    <3> QED
      BY <3>1, <3>3
  <2> QED
    BY <2>1, <2>2, WroteStep, OpsKept DEF OpKept, Native
<1>3. ASSUME NEW o \in verified' \cap Intents', Native(o)'
      PROVE  o \in receipts'
  <2>1. CASE o \in verified
    <3>1. o \in DOMAIN ops /\ o \in Intents /\ Native(o)
      BY <1>0, <1>3, <2>1, IntentsStep, OpsKept DEF IntentsKept, OpKept, Native
    <3>2. o \in receipts
      BY <2>1, <3>1 DEF ReceiptsOK
    <3>3. ~RunEnded
      BY <1>3 DEF RunEnded
    <3> QED
      BY <3>2, <3>3, RunParts DEF RecoverStatement, RecoverCommit
  <2>2. CASE o \notin verified
    <3>1. PICK p \in DOMAIN ops : RecoverStatement(p) \/ RecoverCommit(p)
      BY <1>3, <2>2, RunParts DEF RunEnded
    <3>2. o = p
      BY <1>3, <2>2, <3>1 DEF RecoverStatement, RecoverCommit
    <3>3. Native(o)
      BY <1>3, <3>1, <3>2, OpsKept DEF OpKept, Native
    <3>4. RecoverCommit(o)
      BY <3>1, <3>2, <3>3 DEF RecoverStatement, Statement, Native
    <3>5. CASE ops' = SetIntents({o}, "none")
      <4>1. ops'[o].intent = "none"
        BY <3>1, <3>2, <3>5, SetIntentsFacts
      <4> QED
        BY <1>3, <4>1 DEF Intents
    <3>6. CASE receipts' = receipts \cup {o}
      BY <3>6
    <3> QED
      BY <3>4, <3>5, <3>6 DEF RecoverCommit
  <2> QED
    BY <2>1, <2>2
<1> QED
  BY <1>1, <1>2, <1>3 DEF ReceiptsOK

(* Nothing acts at the places where a run does not wait for it.            *)
LEMMA ActsAtExec ==
  ASSUME TypeOK, UnseenInv, NEW o \in DOMAIN ops, Active(o)
  PROVE  /\ pc \in {"down", "recover"} \/ (pc = "exec" /\ o = Current)
         /\ snap # "done" /\ o = Current
BY DEF UnseenInv, NothingActsUnseen, LastActs, Active

(* Before the next chunk is read the run knows of every commit beyond the  *)
(* progress, or looks its rows up.                                         *)
LEMMA ReceiptsKnownStep ==
  ASSUME TypeOK, UnseenInv, ChunkOK, ExecHead, ClosedOK, NotBegun, AtFrontier, InChunk,
         NativeRows, NativePlace, IntentGone, ReceiptsOK, ReceiptsKnown, [Next]_vars
  PROVE  ReceiptsKnown'
<1> SUFFICES ASSUME pc' \in {"barrier", "plan", "read"}, snap' = "open",
                    mode' = "native", ~again', NEW o \in DOMAIN ops', Native(o)', Wrote(o)'
             PROVE  \/ PassedOp(o)' \/ o \in receipts'
                    \/ ops'[o].table \in Filtered \/ ops'[o].table \in legacy'
  BY DEF ReceiptsKnown, LooksIn
<1>1. /\ epoch' = epoch /\ mode = "native" /\ ~RequestJobRebuild
  BY JobParts DEF RequestJobRebuild, UpgradeJobNativeRebuild
<1>2. ~again
  BY <1>1, AgainBefore
<1>3. o \in DOMAIN ops /\ (Wrote(o) \/ (Active(o) /\ Finish(o)))
  BY <1>1, WroteStep
<1>4. Native(o) /\ Ours(o) /\ snap = "open" /\ ops'[o].table = ops[o].table
  BY <1>3, NativeBefore, OpsKept DEF OpKept, Wrote
<1>5. Wrote(o)
  <2> SUFFICES ASSUME Active(o), Finish(o)
               PROVE  FALSE
    BY <1>3
  <2>1. pc' = pc
    BY DEF Finish
  <2> QED
    BY <1>3, <2>1, ActsAtExec
<1>6. ops[o].engine = "finished"
  BY <1>5 DEF Wrote
<1>7. PassedOp(o) \/ Frontier(ops[o].table, ops[o].lo)
  BY <1>3, <1>4, <1>6 DEF NativePlace
<1>8. CASE pc \in {"barrier", "plan", "read"}
  <2>1. UNCHANGED <<legacy, receipts>>
    BY <1>8, RunParts DEF RunEnded, RecoverStatement, RecoverCommit
  <2>2. PassedOp(o) \/ o \in receipts \/ LooksIn(ops[o].table)
    BY <1>1, <1>2, <1>3, <1>4, <1>5, <1>8 DEF ReceiptsKnown
  <2> QED
    BY <1>3, <1>4, <2>1, <2>2, PassedStays DEF LooksIn
<1>9. CASE RecoverDone
  <2>1. Intents \subseteq verified /\ receipts' = receipts
    BY <1>9 DEF RecoverDone, AllVerified, memoryVars
  <2>2. CASE o \in Intents
    BY <1>4, <2>1, <2>2 DEF ReceiptsOK
  <2>3. CASE o \notin Intents
    <3>1. PassedOp(o)
      BY <1>3, <1>4, <1>6, <2>3 DEF IntentGone
    <3> QED
      BY <1>3, <3>1, PassedStays
  <2> QED
    BY <2>2, <2>3
<1>10. CASE SourceRetry
  <2>1. /\ pc = "ack" /\ again' = (again \/ (mode = "native" /\ ~LooksUp))
        /\ legacy' = legacy
    BY <1>10 DEF SourceRetry
  <2>2. table \in Filtered \/ table \in legacy'
    BY <1>1, <2>1 DEF LooksUp
  <2>3. CASE PassedOp(o)
    BY <1>3, <2>3, PassedStays
  <2>4. CASE Frontier(ops[o].table, ops[o].lo)
    <3>1. /\ Frontier(table, at) /\ at < Len(Source[table])
          /\ table \in Table /\ at \in Nat
      BY <2>1 DEF AtFrontier, InChunk, TypeOK
    <3>2. /\ ops[o].table \in Table /\ ops[o].lo \in Nat
          /\ ops[o].lo < Len(Source[ops[o].table])
      BY <1>3, <1>4, OpFacts DEF NativeRows
    <3>3. ops[o].table = table
      BY <2>4, <3>1, <3>2, FrontierUnique
    <3> QED
      BY <1>4, <2>2, <3>3
  <2> QED
    BY <1>7, <2>3, <2>4
<1>11. CASE Acknowledged
  BY <1>3, <1>4, <1>7, <1>11, PlaceAcked
<1>12. CASE RunStays
  <2>1. pc' = pc
    BY <1>12 DEF RunStays
  <2> QED
    BY <1>8, <2>1
<1>13. ~SaveSnapshotStart
  BY <1>4 DEF SaveSnapshotStart, StartAdmitted
<1>14. CASE PlanTables \/ TableCopied
  BY <1>8, <1>14 DEF PlanTables, TableCopied
<1> QED
  BY <1>8, <1>9, <1>10, <1>11, <1>12, <1>13, <1>14, Arrivals

(* Rows are appended where there are none.                                 *)
LEMMA AppendClearStep ==
  ASSUME TypeOK, UnseenInv, CopyOK, ChunkOK, ScopeEmptied, WriteClear, AppendClear,
         [Next]_vars
  PROVE  AppendClear'
<1> SUFFICES ASSUME ~again', NEW o \in DOMAIN ops', Active(o)', ops'[o].do = "append",
                    NEW k \in DOMAIN ops'[o].rows
             PROVE  target'[ops'[o].table][k].n = 0
  BY DEF AppendClear
<1>1. CASE OpNew(o)
  <2>1. /\ pc = "write" /\ todo # <<>> /\ ops'[o].rows = Head(todo)
        /\ ops'[o].table = table /\ mode = "native"
        /\ LooksUp => BeforeImages = {}
        /\ target' = target /\ again' = again
    BY <1>1 DEF OpNew, Begun, TypeOK
  <2>2. Copying /\ snap # "none"
    BY <2>1 DEF Copying, CopyOK
  <2>3. Head(todo) \in Images /\ table \in Table
    BY <2>1, <2>2, HeadFacts DEF TypeOK
  <2>4. k \in Keys
    BY <2>1, <2>3, ImageFacts
  <2>5. target[table][k].n \in Nat
    BY <2>3, <2>4, CellNumbers
  <2>6. CASE LooksUp
    BY <2>1, <2>5, <2>6 DEF BeforeImages
  <2>7. CASE ~LooksUp
    <3>1. target[table][k].epoch # epoch
      BY <2>1, <2>2, <2>7 DEF WriteClear
    <3>2. InScope(table, k)
      BY <2>7 DEF LooksUp, InScope
    <3>3. ~(target[table][k].n > 0)
      BY <2>2, <2>3, <2>4, <3>1, <3>2 DEF ScopeEmptied
    <3> QED
      BY <2>1, <2>5, <3>3
  <2> QED
    BY <2>6, <2>7
<1>2. CASE o \in DOMAIN ops
  <2>1. /\ Active(o) /\ ops'[o].table = ops[o].table /\ ops'[o].rows = ops[o].rows
        /\ ops'[o].do = ops[o].do
    BY <1>2, OpsKept DEF OpKept
  <2>2. ~RequestJobRebuild
    BY <1>2, <2>1, ActsAtExec DEF RequestJobRebuild
  <2>3. target[ops[o].table][k].n = 0
    BY <1>2, <2>1, <2>2, AgainBefore DEF AppendClear
  <2>4. ops[o].table \in Table /\ k \in Keys
    BY <1>2, <2>1, OpFacts
  <2>5. \A p \in DOMAIN ops : Active(p) => ~Finish(p)
    <3> SUFFICES ASSUME NEW p \in DOMAIN ops, Active(p), Finish(p)
                 PROVE  FALSE
      OBVIOUS
    <3>1. p = o
      BY <1>2, <2>1, ActsAtExec
    <3>2. ops' = [ops EXCEPT ![o].engine = "finished"] /\ ops[o] \in OpRecord
      BY <3>1 DEF Finish, TypeOK
    <3>3. ops'[o].engine = "finished"
      BY <1>2, <3>2 DEF OpRecord
    <3> QED
      BY <3>3 DEF Active
  <2> QED
    BY <2>1, <2>3, <2>4, <2>5, CellStep
<1> QED
  BY <1>1, <1>2, OpsKept

(* A chunk that the native writer reads to append is not written yet.      *)
LEMMA ReadClear ==
  ASSUME TypeOK, UnseenInv, CopyOK, WrittenBy, MergesKnown, AtFrontier, NativeRows,
         NativePlace, ReceiptsKnown, ReadChunk, todo' # <<>>, mode = "native",
         ~LooksUp, ~again, NEW k \in DOMAIN chunk'
  PROVE  target[table][k].epoch # epoch
<1> SUFFICES ASSUME target[table][k].epoch = epoch
             PROVE  FALSE
  OBVIOUS
<1>1. /\ pc = "read" /\ snap = "open" /\ table \in Table /\ at \in Nat
      /\ Frontier(table, at)
  BY DEF ReadChunk, CopyOK, UnseenInv, SnapOK, TypeOK, AtFrontier
<1>2. /\ at < Len(Source[table]) /\ k \in ChunkAt(table, at)
      /\ \E i \in ChunkPlaces(table, at) : ~Receipted(i)
  BY ChunkRead
<1>3. PICK i \in ChunkPlaces(table, at) : k = Source[table][i]
  BY <1>2 DEF ChunkAt
<1>4. i \in DOMAIN Source[table] /\ k \in Keys /\ i \in Nat /\ at < i
  BY <1>1, <1>3, SourceFacts DEF ChunkPlaces
<1>5. PICK o \in DOMAIN ops :
        Wrote(o) /\ ops[o].table = table /\ k \in DOMAIN ops[o].rows
  BY <1>1, <1>4 DEF WrittenBy
<1>6. Native(o) /\ Ours(o) /\ ops[o].engine = "finished"
  <2>1. ops[o].do # "merge"
    BY <1>1, <1>5 DEF MergesKnown, Wrote, LooksUp
  <2> QED
    BY <1>5, <2>1, OpFacts DEF Native, Wrote
<1>7. /\ ops[o].lo \in Nat /\ ops[o].lo < Len(Source[table])
      /\ DOMAIN ops[o].rows = ChunkAt(table, ops[o].lo)
      /\ RowsEnd(o) = End(table, ops[o].lo)
  BY <1>5, <1>6, OpFacts DEF NativeRows
<1>8. ~PassedOp(o)
  <2>1. i \in ChunkPlaces(table, ops[o].lo)
    BY <1>1, <1>3, <1>4, <1>5, <1>7, ChunkKeys
  <2>2. i <= RowsEnd(o) /\ RowsEnd(o) \in Nat
    BY <1>1, <1>7, <2>1, EndFacts
  <2>3. ~Passed(table, RowsEnd(o))
    BY <1>1, <1>4, <2>2, FrontierBeyond
  <2> QED
    BY <1>5, <2>3 DEF PassedOp
<1>9. o \in receipts
  BY <1>1, <1>5, <1>6, <1>8 DEF ReceiptsKnown, LooksIn, LooksUp
<1>10. ops[o].lo = at
  <2>1. Frontier(table, ops[o].lo)
    BY <1>1, <1>5, <1>6, <1>8 DEF NativePlace
  <2> QED
    BY <1>1, <1>2, <1>7, <2>1, FrontierUnique
<1>11. \A j \in ChunkPlaces(table, at) : Receipted(j)
  BY <1>1, <1>2, <1>5, <1>7, <1>9, <1>10, EndFacts DEF Receipted
<1> QED
  BY <1>2, <1>11

(* Rows that the native writer does not look up are not written yet.       *)
LEMMA WriteClearStep ==
  ASSUME TypeOK, UnseenInv, CopyOK, ChunkOK, ExecHead, WrittenBy, MergesKnown,
         AtFrontier, NativeRows, NativePlace, NativeWhole, ReceiptsKnown, WriteClear,
         [Next]_vars
  PROVE  WriteClear'
<1> SUFFICES ASSUME Copying', todo' # <<>>, mode' = "native", ~LooksUp', ~again',
                    pc' = "exec" => ops'[Current'].engine # "finished",
                    NEW k \in DOMAIN Head(todo')
             PROVE  target'[table'][k].epoch # epoch'
  BY DEF WriteClear
<1>1. CASE ReadChunk
  <2>1. UNCHANGED <<table, target, epoch, mode, legacy, again>>
    BY <1>1 DEF ReadChunk, durableVars
  <2>2. ~LooksUp
    BY <2>1 DEF LooksUp
  <2>3. todo' = <<chunk'>>
    BY <1>1, <2>1, ChunkRead
  <2> QED
    BY <1>1, <2>1, <2>2, <2>3, ReadClear
<1>2. CASE ~ReadChunk
  <2>1. Copying /\ UNCHANGED <<mode, epoch, again, table, chunk, legacy>>
    BY <1>2, CopyingWays
  <2>2. ~LooksUp
    BY <2>1 DEF LooksUp
  <2>3. ~Pops
    BY <2>1 DEF Pops, NativeWhole
  <2>4. todo' = todo
    BY <1>2, <2>3, CopyingWays DEF RunStays, Writing, Begun, Rejects
  <2>5. table \in Table /\ k \in Keys
    BY <2>1, <2>4, HeadFacts, ImageFacts DEF TypeOK
  <2>6. pc = "exec" => /\ ops[Current].engine # "finished"
                       /\ Active(Current) => ~Finish(Current)
    <3> SUFFICES ASSUME pc = "exec"
                 PROVE  /\ ops[Current].engine # "finished"
                        /\ Active(Current) => ~Finish(Current)
      OBVIOUS
    <3>1. CASE Rejects
      BY <3>1 DEF Rejects, Active
    <3>2. CASE RunStays /\ pc' = pc /\ Current' = Current /\ Current \in DOMAIN ops
      <4>1. ops'[Current].engine # "finished" /\ OpKept(Current)
        BY <3>2, OpsKept
      <4>2. Finish(Current) => ops'[Current].engine = "finished"
        <5>1. ops[Current] \in OpRecord
          BY <3>2 DEF TypeOK
        <5>2. [ops[Current] EXCEPT !.engine = "finished"].engine = "finished"
          BY <5>1 DEF OpRecord
        <5> QED
          BY <3>2, <5>2 DEF Finish
      <4> QED
        BY <4>1, <4>2 DEF OpKept, Active
    <3> QED
      BY <1>2, <2>3, <3>1, <3>2, CopyingWays DEF Writing
  <2>7. target[table][k].epoch # epoch
    BY <2>1, <2>2, <2>4, <2>6 DEF WriteClear
  <2>8. \A o \in DOMAIN ops : Active(o) => ~Finish(o)
    BY <2>1, <2>6, ActsAtExec DEF Copying
  <2>9. target'[table][k] = target[table][k]
    BY <2>5, <2>8, CellStep
  <2> QED
    BY <2>1, <2>7, <2>9
<1> QED
  BY <1>1, <1>2

(* What the saved progress covers is written.                              *)
LEMMA PassedWrittenStep ==
  ASSUME TypeOK, UnseenInv, StartsAfter, ClosedOK, AtFrontier, InChunk, ChunkWritten,
         PassedWritten, [Next]_vars
  PROVE  PassedWritten'
<1> SUFFICES ASSUME snap' = "open", NEW t \in Table, NEW i \in DOMAIN Source[t],
                    Passed(t, i)'
             PROVE  target'[t][Source[t][i]].epoch = epoch'
  BY DEF PassedWritten
<1>1. epoch' = epoch /\ ~RequestJobRebuild
  BY JobParts DEF RequestJobRebuild
<1>2. Source[t][i] \in Keys /\ t \in Nat \ {0} /\ i \in Nat
  BY SourceFacts
<1>3. CASE SaveSnapshotStart
  <2>1. progress'.table = 0
    BY <1>3 DEF SaveSnapshotStart, StartAdmitted, NoProgress
  <2> QED
    BY <1>2, <2>1 DEF Passed
<1>4. CASE ~SaveSnapshotStart
  <2>1. snap = "open"
    BY <1>4, JobParts DEF ConfirmCompletion, RequestJobRebuild
  <2>2. target[t][Source[t][i]].epoch = epoch
    <3>1. CASE Passed(t, i)
      BY <2>1, <3>1 DEF PassedWritten
    <3>2. CASE progress' = progress
      BY <3>1, <3>2 DEF Passed
    <3>3. CASE Acknowledged
      <4>1. PICK u \in Table, a \in Nat :
              /\ u = table /\ a = at /\ a < Len(Source[u]) /\ Frontier(u, a)
              /\ progress' = [table |-> u, at |-> End(u, a)]
              /\ DOMAIN chunk = ChunkAt(u, a)
        BY <3>3, AckSaves
      <4>2. Passed(t, i) \/ (t = u /\ i \in ChunkPlaces(u, a))
        BY <4>1, FrontierMoves
      <4>3. CASE t = u /\ i \in ChunkPlaces(u, a)
        <5>1. Source[t][i] \in DOMAIN chunk /\ pc = "ack"
          BY <3>3, <4>1, <4>3, ChunkKeys DEF Acknowledged
        <5> QED
          BY <4>1, <4>3, <5>1 DEF ChunkWritten
      <4> QED
        BY <3>1, <4>2, <4>3
    <3> QED
      BY <3>2, <3>3, ProgressWays
  <2> QED
    BY <1>1, <1>2, <2>1, <2>2, CellStays
<1> QED
  BY <1>3, <1>4

(* When the rebuild is done, everything is written.                        *)
LEMMA AllWrittenStep ==
  ASSUME TypeOK, UnseenInv, StartsAfter, CopyOK, AllPassed, PassedWritten, AllWritten,
         [Next]_vars
  PROVE  AllWritten'
<1> SUFFICES ASSUME snap' = "done", NEW t \in Table, NEW i \in DOMAIN Source[t]
             PROVE  target'[t][Source[t][i]].epoch = epoch'
  BY DEF AllWritten
<1>1. epoch' = epoch
  BY JobParts DEF RequestJobRebuild
<1>2. Source[t][i] \in Keys
  BY SourceFacts
<1>3. snap # "none" /\ target[t][Source[t][i]].epoch = epoch
  <2>1. CASE ConfirmCompletion /\ snap # "done"
    <3>1. pc = "complete" /\ snap = "open"
      BY <2>1 DEF ConfirmCompletion, CopyOK, TypeOK
    <3>2. Passed(t, i)
      BY <3>1, FrontierEnd DEF AllPassed
    <3> QED
      BY <3>1, <3>2 DEF PassedWritten
  <2>2. CASE snap = "done"
    BY <2>2 DEF AllWritten
  <2> QED
    BY <2>1, <2>2, JobParts DEF SaveSnapshotStart, RequestJobRebuild
<1> QED
  BY <1>1, <1>2, <1>3, CellStays

\* No progress is saved before the start of the copy is.
ProgressNone == snap = "none" => progress = NoProgress

(* Progress is saved by an open copy only.                                 *)
LEMMA ProgressNoneStep ==
  ASSUME TypeOK, CopyOK, ProgressNone, [Next]_vars
  PROVE  ProgressNone'
<1> SUFFICES ASSUME snap' = "none"
             PROVE  progress' = NoProgress
  BY DEF ProgressNone
<1>1. CASE RequestJobRebuild
  BY <1>1 DEF RequestJobRebuild
<1>2. CASE ~RequestJobRebuild
  <2>1. snap = "none"
    BY <1>2, JobParts DEF SaveSnapshotStart, ConfirmCompletion
  <2>2. ~Acknowledged /\ ~Copied
    BY <2>1 DEF Acknowledged, Copied, CopyOK
  <2> QED
    BY <1>2, <2>1, <2>2, JobParts DEF ProgressNone
<1> QED
  BY <1>1, <1>2

\* The invariant of the copy, on top of RebuildInv.
ExactInv ==
  /\ ExecOpen /\ ClosedOK /\ IntentsOurs /\ ProgressNone
  /\ NotBegun /\ StartsAfter
  /\ RowsSourced /\ NativeRows /\ CellForms
  /\ CellsCurrent /\ ActiveCurrent /\ ChunkCurrent
  /\ WrittenBy /\ StaysWritten
  /\ MergesKept /\ MergesVerified /\ MergesKnown
  /\ AtFrontier /\ InChunk /\ NativeWhole /\ ExecHead /\ ChunkWritten
  /\ NativePlace /\ IntentGone /\ ReceiptsOK /\ ReceiptsKnown
  /\ WriteClear /\ AppendClear /\ CellsOnce
  /\ PassedWritten /\ AllPassed /\ AllWritten

(* The invariant holds at first.                                           *)
LEMMA InitExact ==
  ASSUME Init
  PROVE  ExactInv
<1>1. /\ ops = <<>> /\ DOMAIN ops = {} /\ Intents = {} /\ snap = "none" /\ epoch = 1
      /\ pc = "down" /\ verified = {} /\ receipts = {} /\ progress = NoProgress
  BY DEF Init, Intents
<1>2. ASSUME NEW t \in Table, NEW k \in Keys
      PROVE  /\ target[t][k].epoch = 0
             /\ target[t][k].n = IF Before[t][k] = "absent" THEN 0 ELSE 1
  BY DEF Init, Absent
<1>3. ExecOpen /\ ClosedOK /\ IntentsOurs /\ ProgressNone
  BY <1>1 DEF ExecOpen, ClosedOK, IntentsOurs, ProgressNone
<1>4. NotBegun /\ StartsAfter
  BY <1>1, <1>2 DEF NotBegun, StartsAfter
<1>5. RowsSourced /\ NativeRows
  BY <1>1 DEF RowsSourced, NativeRows
<1>6. CellForms
  BY <1>2 DEF CellForms
<1>7. CellsCurrent /\ ActiveCurrent /\ ChunkCurrent
  BY <1>1 DEF CellsCurrent, ActiveCurrent, ChunkCurrent, Copying
<1>8. WrittenBy /\ StaysWritten /\ CellsOnce
  BY <1>1, <1>2 DEF WrittenBy, StaysWritten, CellsOnce
<1>9. MergesKept /\ MergesVerified /\ MergesKnown
  BY <1>1 DEF MergesKept, MergesVerified, MergesKnown
<1>10. AtFrontier /\ InChunk /\ NativeWhole /\ ExecHead /\ ChunkWritten
  BY <1>1 DEF AtFrontier, InChunk, NativeWhole, ExecHead, ChunkWritten, Copying
<1>11. NativePlace /\ IntentGone /\ ReceiptsOK /\ ReceiptsKnown
  BY <1>1 DEF NativePlace, IntentGone, ReceiptsOK, ReceiptsKnown
<1>12. WriteClear /\ AppendClear
  BY <1>1 DEF WriteClear, AppendClear, Copying
<1>13. PassedWritten /\ AllPassed /\ AllWritten
  BY <1>1 DEF PassedWritten, AllPassed, AllWritten
<1> QED
  BY <1>3, <1>4, <1>5, <1>6, <1>7, <1>8, <1>9, <1>10, <1>11, <1>12, <1>13 DEF ExactInv

(* Every step keeps it.                                                    *)
LEMMA NextExact ==
  ASSUME RebuildInv, ExactInv, [Next]_vars
  PROVE  ExactInv'
<1>1. TypeOK /\ UnseenInv /\ CopyOK /\ CellsOK /\ ChunkOK /\ ScopeEmptied
  BY DEF RebuildInv, UnseenInv
<1>2. /\ ExecOpen /\ ClosedOK /\ IntentsOurs /\ ProgressNone
      /\ NotBegun /\ StartsAfter
      /\ RowsSourced /\ NativeRows /\ CellForms
      /\ CellsCurrent /\ ActiveCurrent /\ ChunkCurrent
      /\ WrittenBy /\ StaysWritten
      /\ MergesKept /\ MergesVerified /\ MergesKnown
      /\ AtFrontier /\ InChunk /\ NativeWhole /\ ExecHead /\ ChunkWritten
      /\ NativePlace /\ IntentGone /\ ReceiptsOK /\ ReceiptsKnown
      /\ WriteClear /\ AppendClear /\ CellsOnce
      /\ PassedWritten /\ AllPassed /\ AllWritten
  BY DEF ExactInv
<1>3. ExecOpen' /\ ClosedOK' /\ IntentsOurs' /\ ProgressNone'
  BY <1>1, <1>2, ExecOpenStep, ClosedStep, IntentsOursStep, ProgressNoneStep
<1>4. NotBegun' /\ StartsAfter'
  BY <1>1, <1>2, NotBegunStep, StartsAfterStep
<1>5. RowsSourced' /\ NativeRows' /\ CellForms'
  BY <1>1, <1>2, RowsSourcedStep, NativeRowsStep, CellFormsStep
<1>6. CellsCurrent' /\ ActiveCurrent' /\ ChunkCurrent'
  BY <1>1, <1>2, CellsCurrentStep, ActiveCurrentStep, ChunkCurrentStep
<1>7. WrittenBy' /\ StaysWritten' /\ CellsOnce'
  BY <1>1, <1>2, WrittenByStep, StaysWrittenStep, CellsOnceStep
<1>8. MergesKept' /\ MergesVerified' /\ MergesKnown'
  BY <1>1, <1>2, MergesKeptStep, MergesVerifiedStep, MergesKnownStep
<1>9. AtFrontier' /\ InChunk' /\ NativeWhole' /\ ExecHead'
  BY <1>1, <1>2, AtFrontierStep, InChunkStep, NativeWholeStep, ExecHeadStep
<1>10. ChunkWritten'
  BY <1>1, <1>2, ChunkWrittenStep
<1>11. NativePlace' /\ IntentGone'
  BY <1>1, <1>2, NativePlaceStep, IntentGoneStep
<1>12. ReceiptsOK' /\ ReceiptsKnown'
  BY <1>1, <1>2, ReceiptsOKStep, ReceiptsKnownStep
<1>13. WriteClear' /\ AppendClear'
  BY <1>1, <1>2, WriteClearStep, AppendClearStep
<1>14. PassedWritten' /\ AllPassed' /\ AllWritten'
  BY <1>1, <1>2, PassedWrittenStep, AllPassedStep, AllWrittenStep
<1> QED
  BY <1>3, <1>4, <1>5, <1>6, <1>7, <1>8, <1>9, <1>10, <1>11, <1>12, <1>13, <1>14
     DEF ExactInv

(* A row of a target at a completed rebuild.                               *)
LEMMA ExactCells ==
  ASSUME RebuildInv, ExactInv
  PROVE  CompletionExact
<1> SUFFICES ASSUME snap = "done", ~again, NEW t \in Table, NEW k \in Keys
             PROVE  LET cell == target[t][k]
                    IN  IF k \in Range(Source[t])
                        THEN /\ cell.n = 1 /\ cell.epoch = epoch
                             /\ <<t, k>> \notin edited => cell.version = version[t][k]
                        ELSE cell.n = IF t \in Filtered /\ Before[t][k] = "outside"
                                      THEN 1 ELSE 0
  BY DEF CompletionExact
<1>1. TypeOK /\ ScopeEmptied /\ CellForms /\ CellsOnce /\ CellsCurrent /\ AllWritten
  BY DEF RebuildInv, ExactInv
<1>2. target[t][k].n \in Nat /\ target[t][k].epoch \in Nat
  BY <1>1, CellNumbers
<1>3. CASE k \in Range(Source[t])
  <2>1. PICK i \in DOMAIN Source[t] : k = Source[t][i]
    BY <1>3 DEF Range
  <2>2. target[t][k].epoch = epoch
    BY <1>1, <2>1 DEF AllWritten
  <2> QED
    BY <1>1, <1>3, <2>2 DEF CellsOnce, CellsCurrent
<1>4. CASE k \notin Range(Source[t])
  <2>1. target[t][k].epoch = 0
    BY <1>1, <1>2, <1>4 DEF CellForms
  <2>2. CASE t \in Filtered /\ Before[t][k] = "outside"
    BY <1>1, <1>4, <2>2 DEF CellForms
  <2>3. CASE t \notin Filtered \/ Before[t][k] = "inside"
    <3>1. InScope(t, k)
      BY <2>3 DEF InScope
    <3>2. epoch # 0
      BY <1>1, CellNumbers
    <3>3. ~(target[t][k].n > 0)
      BY <1>1, <2>1, <3>1, <3>2 DEF ScopeEmptied
    <3> QED
      BY <1>2, <1>4, <2>2, <3>3
  <2>4. CASE t \in Filtered /\ Before[t][k] = "absent"
    BY <1>1, <1>4, <2>1, <2>4 DEF CellForms
  <2>5. Before[t][k] \in {"absent", "inside", "outside"}
    BY RebuildAssumption DEF Table
  <2> QED
    BY <2>2, <2>3, <2>4, <2>5
<1> QED
  BY <1>3, <1>4

(* The rows that the saved progress covers.                                *)
LEMMA CoveredCells ==
  ASSUME RebuildInv, ExactInv
  PROVE  ProgressCovers
<1> SUFFICES ASSUME progress # NoProgress, NEW t \in 1..progress.table,
                    NEW i \in DOMAIN Source[t],
                    t < progress.table \/ i <= progress.at
             PROVE  LET cell == target[t][Source[t][i]]
                    IN  /\ cell.n >= 1 /\ cell.epoch = epoch
                        /\ <<t, Source[t][i]>> \notin edited =>
                             cell.version = version[t][Source[t][i]]
  BY DEF ProgressCovers
<1>1. /\ TypeOK /\ CellForms /\ CellsCurrent /\ PassedWritten /\ AllWritten
      /\ ProgressNone
  BY DEF RebuildInv, ExactInv
<1>2. t \in Table
  <2>1. progress.table \in 1..Tables /\ Tables \in Nat
    BY <1>1, RebuildAssumption DEF TypeOK, Table
  <2> QED
    BY <2>1 DEF Table
<1>3. Source[t][i] \in Keys /\ t \in Nat /\ progress.table \in Nat
  BY <1>1, <1>2, SourceFacts, ProgressFacts
<1>4. Passed(t, i)
  BY <1>3 DEF Passed
<1>5. snap \in {"open", "done"}
  BY <1>1 DEF ProgressNone, TypeOK
<1>6. target[t][Source[t][i]].epoch = epoch
  BY <1>1, <1>2, <1>4, <1>5 DEF PassedWritten, AllWritten
<1>7. /\ target[t][Source[t][i]].n \in Nat /\ target[t][Source[t][i]].epoch \in Nat
      /\ epoch \in Nat \ {0}
  BY <1>1, <1>2, <1>3, CellNumbers
<1>8. target[t][Source[t][i]].n > 0
  BY <1>1, <1>2, <1>3, <1>6, <1>7 DEF CellForms
<1> QED
  BY <1>1, <1>2, <1>3, <1>5, <1>6, <1>7, <1>8 DEF CellsCurrent

(* The invariant holds in every reachable state: through lost answers,     *)
(* late statements, upgrades in the middle of a copy, crashes, failed      *)
(* saves and new submissions.                                              *)
THEOREM ExactInductive == Spec => [](RebuildInv /\ ExactInv)
<1>1. Init => RebuildInv /\ ExactInv
  BY InitRebuild, InitExact
<1>2. RebuildInv /\ ExactInv /\ [Next]_vars => (RebuildInv /\ ExactInv)'
  BY NextRebuild, NextExact
<1> QED
  BY <1>1, <1>2, PTL DEF Spec

(* A rebuild that is recorded as completed has left each target with every *)
(* row of the source query once, written by this submission and up to date *)
(* unless the stream will repair it, with nothing else in the scope and    *)
(* with all the rows outside of it: the intents and receipts of            *)
(* checkIcebergRecovery, the lookups of scopedSnapshotBeforeImages and the *)
(* barrier of handleSnapshotBarrier, whatever answer was lost or came late.*)
THEOREM CompletedExact == Spec => []CompletionExact
<1>1. RebuildInv /\ ExactInv => CompletionExact
  BY ExactCells
<1> QED
  BY <1>1, ExactInductive, PTL

(* The progress that SaveSnapshotProgress stores never runs ahead of the   *)
(* targets, whichever writer has copied a row.                             *)
THEOREM ProgressCovered == Spec => []ProgressCovers
<1>1. RebuildInv /\ ExactInv => ProgressCovers
  BY CoveredCells
<1> QED
  BY <1>1, ExactInductive, PTL
=============================================================================
