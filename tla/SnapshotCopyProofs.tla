------------------------- MODULE SnapshotCopyProofs -------------------------
(***************************************************************************)
(* Proofs about SnapshotCopy: for any number of tables, rows, runs,        *)
(* requests, changes of the source and failed steps, in every              *)
(* configuration.                                                          *)
(***************************************************************************)
EXTENDS SnapshotCopy, TLAPS, FiniteSetTheorems, SequenceTheorems

\* The records of operations, whatever their places and rows are.
OpIn(V) ==
  [table : V, do : V, lo : V, hi : V, keys : V, seen : V,
   intent : {"none", "PREPARED", "COMMITTED"},
   catalog : {"inflight", "landed", "lost"}]
OpsShaped == \E V : ops \in Seq(OpIn(V))

\* What may still land has an open intent.
InFlightOpen ==
  \A o \in DOMAIN ops : ops[o].catalog = "inflight" => ops[o].intent = "PREPARED"

NothingInFlight == \A o \in DOMAIN ops : ops[o].catalog # "inflight"

\* Where a run may be while the snapshot is confirmed: it writes nothing.
Quiet == {"down", "recover", "ensure", "start", "complete", "clear", "done"}
ConfirmedQuiet == snap = "confirmed" => pc \in Quiet /\ NothingInFlight

\* A run that is about to reset the targets follows an archived snapshot.
ResetsArchived ==
  pc \in {"recover", "ensure"} /\ fresh /\ rebuild => snap # "confirmed"

LateInv == OpsShaped /\ InFlightOpen /\ ConfirmedQuiet /\ ResetsArchived

-----------------------------------------------------------------------------
(* Operations *)

(* A record of an operation.                                               *)
LEMMA OpShape ==
  ASSUME NEW V, NEW op \in OpIn(V)
  PROVE  /\ \A c \in {"inflight", "landed", "lost"} :
              /\ [op EXCEPT !.catalog = c] \in OpIn(V)
              /\ [op EXCEPT !.catalog = c].catalog = c
         /\ \A st \in {"none", "PREPARED", "COMMITTED"} :
              /\ [op EXCEPT !.intent = st] \in OpIn(V)
              /\ [op EXCEPT !.intent = st].catalog = op.catalog
  BY DEF OpIn

(* Intents change, requests do not.                                        *)
LEMMA OpsSettled ==
  ASSUME OpsShaped, NEW S, NEW st \in {"none", "PREPARED", "COMMITTED"},
         ops' = SetIntents(S, st)
  PROVE  /\ OpsShaped' /\ DOMAIN ops' = DOMAIN ops
         /\ \A o \in DOMAIN ops : /\ ops'[o].catalog = ops[o].catalog
                                  /\ o \notin S => ops'[o] = ops[o]
<1>1. PICK V : ops \in Seq(OpIn(V))
  BY DEF OpsShaped
<1>0. \A o \in DOMAIN ops : ops[o] \in OpIn(V)
  BY <1>1
<1>2. \A o \in DOMAIN ops :
        /\ [ops[o] EXCEPT !.intent = st] \in OpIn(V)
        /\ [ops[o] EXCEPT !.intent = st].catalog = ops[o].catalog
  <2> TAKE o \in DOMAIN ops
  <2> DEFINE op == ops[o]
  <2>1. op \in OpIn(V)
    BY <1>0
  <2> HIDE DEF op
  <2>2. [op EXCEPT !.intent = st] \in OpIn(V) /\ [op EXCEPT !.intent = st].catalog = op.catalog
    BY <2>1, OpShape
  <2> QED
    BY <2>2 DEF op
<1>3. ops' = [o \in DOMAIN ops |-> IF o \in S THEN [ops[o] EXCEPT !.intent = st]
                                   ELSE ops[o]]
  BY DEF SetIntents
<1>4. ops' \in Seq(OpIn(V))
  BY <1>1, <1>0, <1>2, <1>3
<1> QED
  BY <1>2, <1>3, <1>4 DEF OpsShaped

(* One request changes.                                                    *)
LEMMA OpsRequest ==
  ASSUME OpsShaped, NEW o \in DOMAIN ops, NEW c \in {"landed", "lost"},
         \/ ops' = [ops EXCEPT ![o].catalog = c]
         \/ ops' = [ops EXCEPT ![o].catalog = c, ![o].intent = "none"]
  PROVE  /\ OpsShaped' /\ DOMAIN ops' = DOMAIN ops
         /\ ops'[o].catalog = c
         /\ \A p \in DOMAIN ops : p # o => ops'[p] = ops[p]
<1>1. PICK V : ops \in Seq(OpIn(V))
  BY DEF OpsShaped
<1> DEFINE one == [ops[o] EXCEPT !.catalog = c]
           two == [one EXCEPT !.intent = "none"]
<1>2. /\ ops[o] \in OpIn(V) /\ one \in OpIn(V) /\ one.catalog = c
      /\ two \in OpIn(V) /\ two.catalog = c
  <2>1. ops[o] \in OpIn(V)
    BY <1>1
  <2>2. one \in OpIn(V) /\ one.catalog = c
    BY <2>1 DEF OpIn
  <2>3. two \in OpIn(V) /\ two.catalog = c
    BY <2>2 DEF OpIn
  <2> QED
    BY <2>1, <2>2, <2>3
<1>3. ops' = [ops EXCEPT ![o] = one] \/ ops' = [ops EXCEPT ![o] = two]
  OBVIOUS
<1> HIDE DEF one, two
<1>4. ops' \in Seq(OpIn(V))
  BY <1>1, <1>2, <1>3
<1> QED
  BY <1>1, <1>2, <1>3, <1>4 DEF OpsShaped

(* A request is sent under an open intent.                                 *)
LEMMA OpsBegun ==
  ASSUME OpsShaped, NEW do, NEW lo, NEW hi, NEW keys, Begin(do, lo, hi, keys)
  PROVE  /\ OpsShaped' /\ DOMAIN ops' = DOMAIN ops \cup {Len(ops) + 1}
         /\ Len(ops) + 1 \notin DOMAIN ops
         /\ ops'[Len(ops) + 1].intent = "PREPARED"
         /\ \A o \in DOMAIN ops : ops'[o] = ops[o]
<1>1. PICK V : ops \in Seq(OpIn(V))
  BY DEF OpsShaped
<1> DEFINE W == V \cup {table, do, lo, hi, keys, view}
           new == [table |-> table, do |-> do, lo |-> lo, hi |-> hi,
                   keys |-> keys, seen |-> view,
                   intent |-> "PREPARED", catalog |-> "inflight"]
<1>2. new \in OpIn(W) /\ new.intent = "PREPARED"
  BY DEF OpIn
<1>3. ops \in Seq(OpIn(W))
  <2>1. OpIn(V) \subseteq OpIn(W)
    BY DEF OpIn
  <2> HIDE DEF W
  <2>2. \A i \in 1..Len(ops) : ops[i] \in OpIn(V)
    BY <1>1
  <2>3. \A i \in 1..Len(ops) : ops[i] \in OpIn(W)
    BY <2>1, <2>2
  <2> QED
    BY <1>1, <2>3, SeqMonotonic
<1>4. ops' = Append(ops, new)
  BY DEF Begin
<1> HIDE DEF new, W
<1>5. ops' \in Seq(OpIn(W)) /\ Len(ops') = Len(ops) + 1
  BY <1>2, <1>3, <1>4
<1> QED
  BY <1>2, <1>3, <1>4, <1>5 DEF OpsShaped

-----------------------------------------------------------------------------
(* What may still land *)

\* A step leaves open the intent of what may still land, and sends nothing
\* from a place where the run is quiet.
KeepsOpen ==
  /\ OpsShaped' /\ InFlightOpen'
  /\ NothingInFlight /\ pc \in Quiet => NothingInFlight'

(* A step that does not touch the operations.                              *)
LEMMA KeptOpen ==
  ASSUME OpsShaped, InFlightOpen, ops' = ops
  PROVE  KeepsOpen
  BY DEF KeepsOpen, OpsShaped, InFlightOpen, NothingInFlight

(* Intents of requests whose outcome is known are settled.                 *)
LEMMA SettledOpen ==
  ASSUME OpsShaped, InFlightOpen,
         NEW S, NEW st \in {"none", "PREPARED", "COMMITTED"},
         ops' = SetIntents(S, st),
         \A o \in S \cap DOMAIN ops : ops[o].catalog # "inflight"
  PROVE  KeepsOpen
  BY OpsSettled DEF KeepsOpen, InFlightOpen, NothingInFlight

(* The catalog answers.                                                    *)
LEMMA RequestOpen ==
  ASSUME OpsShaped, InFlightOpen,
         NEW o \in DOMAIN ops, NEW c \in {"landed", "lost"},
         \/ ops' = [ops EXCEPT ![o].catalog = c]
         \/ ops' = [ops EXCEPT ![o].catalog = c, ![o].intent = "none"]
  PROVE  KeepsOpen
<1>1. /\ OpsShaped' /\ DOMAIN ops' = DOMAIN ops /\ ops'[o].catalog = c
      /\ \A p \in DOMAIN ops : p # o => ops'[p] = ops[p]
  BY OpsRequest
<1> QED
  BY <1>1 DEF KeepsOpen, InFlightOpen, NothingInFlight

(* A request is sent.                                                      *)
LEMMA BegunOpen ==
  ASSUME OpsShaped, InFlightOpen, pc \notin Quiet,
         NEW do, NEW lo, NEW hi, NEW keys, Begin(do, lo, hi, keys)
  PROVE  KeepsOpen
<1>1. /\ OpsShaped' /\ DOMAIN ops' = DOMAIN ops \cup {Len(ops) + 1}
      /\ ops'[Len(ops) + 1].intent = "PREPARED"
      /\ \A o \in DOMAIN ops : ops'[o] = ops[o]
  BY OpsBegun
<1> QED
  BY <1>1 DEF KeepsOpen, InFlightOpen

(* The answer of the catalog.                                              *)
LEMMA AnsweredOpen ==
  ASSUME OpsShaped, InFlightOpen, NEW do, Answered(do)
  PROVE  KeepsOpen
<1>1. \A o \in {Len(ops)} \cap DOMAIN ops : ops[o].catalog # "inflight"
  BY DEF Answered, Current
<1>2. \/ ops' = SetIntents({Len(ops)}, "none")
      \/ ops' = SetIntents({Len(ops)}, "COMMITTED")
  BY DEF Answered
<1> QED
  BY <1>1, <1>2, SettledOpen

(* Every step does.                                                        *)
LEMMA OpenStep ==
  ASSUME OpsShaped, InFlightOpen, [Next]_vars
  PROVE  KeepsOpen
<1>1. ASSUME RunStep
      PROVE  KeepsOpen
  <2>1. ASSUME NEW o \in DOMAIN ops, RecoverOne(o)
        PROVE  KeepsOpen
    <3>1. ops[o].catalog # "inflight"
      BY <2>1 DEF RecoverOne, Proven, InFlightOpen
    <3>2. ops' = SetIntents({o}, "none") \/ ops' = SetIntents({o}, "COMMITTED")
      BY <2>1 DEF RecoverOne
    <3> QED
      BY <3>1, <3>2, SettledOpen
  <2>2. ASSUME RecoverDone
        PROVE  KeepsOpen
    BY <2>2, KeptOpen DEF RecoverDone
  <2>3. ASSUME EnsureTables
        PROVE  KeepsOpen
    BY <2>3, KeptOpen DEF EnsureTables
  <2>4. ASSUME ResetInitialCheckpoint
        PROVE  KeepsOpen
    BY <2>4, KeptOpen DEF ResetInitialCheckpoint
  <2>5. ASSUME BeginSnapshot
        PROVE  KeepsOpen
    BY <2>5, KeptOpen DEF BeginSnapshot, StartBarrier
  <2>6. ASSUME ResumeSnapshot
        PROVE  KeepsOpen
    BY <2>6, KeptOpen DEF ResumeSnapshot
  <2>7. ASSUME ResumeConfirmed
        PROVE  KeepsOpen
    BY <2>7, KeptOpen DEF ResumeConfirmed
  <2>8. ASSUME PlanTables
        PROVE  KeepsOpen
    BY <2>8, KeptOpen DEF PlanTables
  <2>9. ASSUME ReadChunk
        PROVE  KeepsOpen
    BY <2>9, KeptOpen DEF ReadChunk
  <2>10. ASSUME TableRead
        PROVE  KeepsOpen
    BY <2>10, KeptOpen DEF TableRead
  <2>11. ASSUME DeleteKeys
        PROVE  KeepsOpen
    BY <2>11, KeptOpen DEF DeleteKeys
  <2>12. ASSUME BatchWritten
        PROVE  KeepsOpen
    BY <2>12, KeptOpen DEF BatchWritten
  <2>13. ASSUME SpoolChunk
        PROVE  KeepsOpen
    BY <2>13, KeptOpen DEF SpoolChunk
  <2>14. ASSUME ConfirmCompletion
        PROVE  KeepsOpen
    BY <2>14, KeptOpen DEF ConfirmCompletion
  <2>15. ASSUME ClearProgress
        PROVE  KeepsOpen
    BY <2>15, KeptOpen DEF ClearProgress
  <2>16. ASSUME ResetTarget
        PROVE  KeepsOpen
    BY <2>16, BegunOpen DEF ResetTarget, Quiet
  <2>17. ASSUME OpenTable
        PROVE  KeepsOpen
    <3>1. ops' = SetIntents(Accounted(emitted), "none")
      BY <2>17 DEF OpenTable, SaveSnapshotProgress
    <3> QED
      BY <3>1, SettledOpen DEF Accounted, InFlightOpen
  <2>18. ASSUME RolledSaved
        PROVE  KeepsOpen
    <3>1. ops' = SetIntents(Accounted(emitted), "none")
      BY <2>18 DEF RolledSaved, SaveSnapshotProgress
    <3> QED
      BY <3>1, SettledOpen DEF Accounted, InFlightOpen
  <2>19. ASSUME Acknowledged
        PROVE  KeepsOpen
    <3>1. CASE BatchSaves
      <4>1. ops' = SetIntents(Accounted(emitted + Len(chunk)), "none")
        BY <2>19, <3>1 DEF Acknowledged, SaveSnapshotProgress
      <4> QED
        BY <4>1, SettledOpen DEF Accounted, InFlightOpen
    <3>2. CASE ~BatchSaves
      BY <2>19, <3>2, KeptOpen DEF Acknowledged
    <3> QED
      BY <3>1, <3>2
  <2>20. ASSUME TableRolled
        PROVE  KeepsOpen
    <3>1. CASE spool[table] = <<>>
      BY <2>20, <3>1, KeptOpen DEF TableRolled
    <3>2. CASE spool[table] # <<>>
      BY <2>20, <3>2, BegunOpen DEF TableRolled, Quiet
    <3> QED
      BY <3>1, <3>2
  <2>21. ASSUME TruncateForBatch
        PROVE  KeepsOpen
    <3>1. TruncateFirst(Head(todo).lo, PieceEnd(Head(todo))) /\ pc \notin Quiet
      BY <2>21 DEF TruncateForBatch, Quiet
    <3>2. CASE conf.trino
      BY <3>1, <3>2, KeptOpen DEF TruncateFirst
    <3>3. CASE ~conf.trino
      BY <3>1, <3>3, BegunOpen DEF TruncateFirst
    <3> QED
      BY <3>2, <3>3
  <2>22. ASSUME TruncateForSpool
        PROVE  KeepsOpen
    <3>1. TruncateFirst(emitted, emitted + Len(chunk)) /\ pc \notin Quiet
      BY <2>22 DEF TruncateForSpool, Quiet
    <3>2. CASE conf.trino
      BY <3>1, <3>2, KeptOpen DEF TruncateFirst
    <3>3. CASE ~conf.trino
      BY <3>1, <3>3, BegunOpen DEF TruncateFirst
    <3> QED
      BY <3>2, <3>3
  <2>23. ASSUME AppendPiece
        PROVE  KeepsOpen
    BY <2>23, BegunOpen DEF AppendPiece, Quiet
  <2>24. ASSUME AppendAnswered
        PROVE  KeepsOpen
    BY <2>24, AnsweredOpen DEF AppendAnswered
  <2>25. ASSUME TruncateAnswered
        PROVE  KeepsOpen
    BY <2>25, AnsweredOpen DEF TruncateAnswered
  <2>26. ASSUME ResetAnswered
        PROVE  KeepsOpen
    BY <2>26, AnsweredOpen DEF ResetAnswered
  <2>27. ASSUME RollAnswered
        PROVE  KeepsOpen
    BY <2>27, AnsweredOpen DEF RollAnswered
  <2> QED
    BY <1>1, <2>1, <2>2, <2>3, <2>4, <2>5, <2>6, <2>7, <2>8, <2>9, <2>10,
       <2>11, <2>12, <2>13, <2>14, <2>15, <2>16, <2>17, <2>18, <2>19, <2>20,
       <2>21, <2>22, <2>23, <2>24, <2>25, <2>26, <2>27
       DEF RunStep
<1>2. ASSUME NEW t \in Table, NEW k \in Key, Change(t, k)
      PROVE  KeepsOpen
  BY <1>2, KeptOpen DEF Change
<1>3. ASSUME NEW o \in DOMAIN ops, CatalogAccepts(o)
      PROVE  KeepsOpen
  BY <1>3, RequestOpen DEF CatalogAccepts
<1>4. ASSUME NEW o \in DOMAIN ops, CatalogLoses(o)
      PROVE  KeepsOpen
  BY <1>4, RequestOpen DEF CatalogLoses
<1>5. ASSUME NEW initial \in BOOLEAN, StartRun(initial)
      PROVE  KeepsOpen
  BY <1>5, KeptOpen DEF StartRun
<1>6. ASSUME Rebuild
      PROVE  KeepsOpen
  <2>1. \A o \in Intents : ops[o].catalog # "inflight"
    BY <1>6 DEF Rebuild, OutcomeKnown, Intents, InFlightOpen
  <2> QED
    BY <1>6, <2>1, SettledOpen DEF Rebuild
<1>7. ASSUME SourceRetry
      PROVE  KeepsOpen
  BY <1>7, KeptOpen DEF SourceRetry
<1>8. ASSUME CommitRejected
      PROVE  KeepsOpen
  <2>1. CASE Len(ops) \in DOMAIN ops
    BY <1>8, <2>1, RequestOpen DEF CommitRejected
  <2>2. CASE Len(ops) \notin DOMAIN ops
    <3>1. ops' = ops
      BY <1>8, <2>2 DEF CommitRejected, OpsShaped
    <3> QED
      BY <3>1, KeptOpen
  <2> QED
    BY <2>1, <2>2
<1>9. ASSUME RunRefused
      PROVE  KeepsOpen
  BY <1>9, KeptOpen DEF RunRefused
<1>10. ASSUME RunEnds
      PROVE  KeepsOpen
  BY <1>10, KeptOpen DEF RunEnds
<1>11. ASSUME UNCHANGED vars
      PROVE  KeepsOpen
  BY <1>11, KeptOpen DEF vars
<1> QED
  BY <1>1, <1>2, <1>3, <1>4, <1>5, <1>6, <1>7, <1>8, <1>9, <1>10, <1>11
     DEF Next

-----------------------------------------------------------------------------
(* Where a run is *)

\* The snapshot is confirmed from a place where nothing is in flight; it then
\* stays so only where the run is quiet.
KeepsQuiet ==
  /\ snap' = "confirmed" => NothingInFlight /\ pc' \in Quiet /\ pc \in Quiet
  /\ ResetsArchived'

(* Every step keeps a confirmed snapshot quiet.                            *)
LEMMA QuietStep ==
  ASSUME LateInv, [Next]_vars
  PROVE  KeepsQuiet
<1>0. /\ InFlightOpen
      /\ snap = "confirmed" => pc \in Quiet /\ NothingInFlight
      /\ pc \in {"recover", "ensure"} /\ fresh /\ rebuild => snap # "confirmed"
  BY DEF LateInv, ConfirmedQuiet, ResetsArchived
<1>1. ASSUME RunStep
      PROVE  KeepsQuiet
  <2>1. ASSUME NEW o \in DOMAIN ops, RecoverOne(o)
        PROVE  KeepsQuiet
    BY <1>0, <2>1 DEF RecoverOne, durableVars, Goto, KeepsQuiet,
       ResetsArchived, Quiet
  <2>2. ASSUME RecoverDone
        PROVE  KeepsQuiet
    BY <1>0, <2>2 DEF RecoverDone, durableVars, Goto, KeepsQuiet,
       ResetsArchived, Quiet
  <2>3. ASSUME EnsureTables
        PROVE  KeepsQuiet
    BY <1>0, <2>3 DEF EnsureTables, durableVars, Goto, KeepsQuiet,
       ResetsArchived, Quiet
  <2>4. ASSUME ResetTarget
        PROVE  KeepsQuiet
    BY <1>0, <2>4 DEF ResetTarget, durableVars, Begin, Goto, KeepsQuiet,
       ResetsArchived, Quiet
  <2>5. ASSUME ResetInitialCheckpoint
        PROVE  KeepsQuiet
    BY <1>0, <2>5 DEF ResetInitialCheckpoint, Goto, KeepsQuiet,
       ResetsArchived, Quiet
  <2>6. ASSUME BeginSnapshot
        PROVE  KeepsQuiet
    BY <1>0, <2>6 DEF BeginSnapshot, StartBarrier, Goto, KeepsQuiet,
       ResetsArchived, Quiet
  <2>7. ASSUME ResumeSnapshot
        PROVE  KeepsQuiet
    BY <1>0, <2>7
       DEF ResumeSnapshot, durableVars, StartBarrier, Goto, KeepsQuiet,
       ResetsArchived, Quiet
  <2>8. ASSUME ResumeConfirmed
        PROVE  KeepsQuiet
    BY <1>0, <2>8 DEF ResumeConfirmed, durableVars, Goto, KeepsQuiet,
       ResetsArchived, Quiet
  <2>9. ASSUME PlanTables
        PROVE  KeepsQuiet
    BY <1>0, <2>9 DEF PlanTables, durableVars, Goto, KeepsQuiet,
       ResetsArchived, Quiet
  <2>10. ASSUME OpenTable
        PROVE  KeepsQuiet
    BY <1>0, <2>10 DEF OpenTable, Goto, KeepsQuiet,
       ResetsArchived, Quiet
  <2>11. ASSUME ReadChunk
        PROVE  KeepsQuiet
    BY <1>0, <2>11 DEF ReadChunk, durableVars, Goto, KeepsQuiet,
       ResetsArchived, Quiet
  <2>12. ASSUME Acknowledged
        PROVE  KeepsQuiet
    BY <1>0, <2>12 DEF Acknowledged, Goto, KeepsQuiet,
       ResetsArchived, Quiet
  <2>13. ASSUME TableRead
        PROVE  KeepsQuiet
    BY <1>0, <2>13 DEF TableRead, durableVars, NextTable, Goto, KeepsQuiet,
       ResetsArchived, Quiet
  <2>14. ASSUME TableRolled
        PROVE  KeepsQuiet
    BY <1>0, <2>14 DEF TableRolled, durableVars, Begin, Goto, KeepsQuiet,
       ResetsArchived, Quiet
  <2>15. ASSUME RolledSaved
        PROVE  KeepsQuiet
    BY <1>0, <2>15 DEF RolledSaved, NextTable, Goto, KeepsQuiet,
       ResetsArchived, Quiet
  <2>16. ASSUME TruncateForBatch
        PROVE  KeepsQuiet
    BY <1>0, <2>16
       DEF TruncateForBatch, durableVars, TruncateFirst, Begin, Goto,
           KeepsQuiet,
       ResetsArchived, Quiet
  <2>17. ASSUME TruncateForSpool
        PROVE  KeepsQuiet
    BY <1>0, <2>17
       DEF TruncateForSpool, durableVars, TruncateFirst, Begin, Goto,
           KeepsQuiet,
       ResetsArchived, Quiet
  <2>18. ASSUME DeleteKeys
        PROVE  KeepsQuiet
    BY <1>0, <2>18 DEF DeleteKeys, durableVars, Goto, KeepsQuiet,
       ResetsArchived, Quiet
  <2>19. ASSUME AppendPiece
        PROVE  KeepsQuiet
    BY <1>0, <2>19 DEF AppendPiece, durableVars, Begin, Goto, KeepsQuiet,
       ResetsArchived, Quiet
  <2>20. ASSUME BatchWritten
        PROVE  KeepsQuiet
    BY <1>0, <2>20 DEF BatchWritten, durableVars, Goto, KeepsQuiet,
       ResetsArchived, Quiet
  <2>21. ASSUME SpoolChunk
        PROVE  KeepsQuiet
    BY <1>0, <2>21 DEF SpoolChunk, durableVars, Goto, KeepsQuiet,
       ResetsArchived, Quiet
  <2>22. ASSUME AppendAnswered
        PROVE  KeepsQuiet
    BY <1>0, <2>22 DEF AppendAnswered, Answered, durableVars, Goto, KeepsQuiet,
       ResetsArchived, Quiet
  <2>23. ASSUME TruncateAnswered
        PROVE  KeepsQuiet
    BY <1>0, <2>23
       DEF TruncateAnswered, Answered, durableVars, Goto, KeepsQuiet,
       ResetsArchived, Quiet
  <2>24. ASSUME ResetAnswered
        PROVE  KeepsQuiet
    BY <1>0, <2>24 DEF ResetAnswered, Answered, durableVars, Goto, KeepsQuiet,
       ResetsArchived, Quiet
  <2>25. ASSUME RollAnswered
        PROVE  KeepsQuiet
    BY <1>0, <2>25 DEF RollAnswered, Answered, durableVars, Goto, KeepsQuiet,
       ResetsArchived, Quiet
  <2>26. ASSUME ConfirmCompletion
        PROVE  KeepsQuiet
    <3>1. NothingInFlight
      BY <1>0, <2>26 DEF ConfirmCompletion, NothingOpen, Intents, InFlightOpen,
         NothingInFlight
    <3> QED
      BY <3>1, <2>26
         DEF ConfirmCompletion, Goto, KeepsQuiet, ResetsArchived, Quiet
  <2>27. ASSUME ClearProgress
        PROVE  KeepsQuiet
    BY <1>0, <2>27 DEF ClearProgress, Goto, KeepsQuiet,
       ResetsArchived, Quiet
  <2> QED
    BY <1>1, <2>1, <2>2, <2>3, <2>4, <2>5, <2>6, <2>7, <2>8, <2>9, <2>10,
       <2>11, <2>12, <2>13, <2>14, <2>15, <2>16, <2>17, <2>18, <2>19, <2>20,
       <2>21, <2>22, <2>23, <2>24, <2>25, <2>26, <2>27
       DEF RunStep
<1>2. ASSUME NEW t \in Table, NEW k \in Key, Change(t, k)
      PROVE  KeepsQuiet
  BY <1>0, <1>2 DEF Change, durableVars, KeepsQuiet, ResetsArchived, Quiet
<1>3. ASSUME NEW o \in DOMAIN ops, CatalogAccepts(o)
      PROVE  KeepsQuiet
  BY <1>0, <1>3
     DEF CatalogAccepts, durableVars, KeepsQuiet, ResetsArchived, Quiet
<1>4. ASSUME NEW o \in DOMAIN ops, CatalogLoses(o)
      PROVE  KeepsQuiet
  BY <1>0, <1>4
     DEF CatalogLoses, durableVars, KeepsQuiet, ResetsArchived, Quiet
<1>5. ASSUME NEW initial \in BOOLEAN, StartRun(initial)
      PROVE  KeepsQuiet
  BY <1>0, <1>5 DEF StartRun, Goto, KeepsQuiet, ResetsArchived, Quiet
<1>6. ASSUME Rebuild
      PROVE  KeepsQuiet
  BY <1>0, <1>6 DEF Rebuild, KeepsQuiet, ResetsArchived, Quiet
<1>7. ASSUME SourceRetry
      PROVE  KeepsQuiet
  BY <1>0, <1>7 DEF SourceRetry, Goto, KeepsQuiet, ResetsArchived, Quiet
<1>8. ASSUME CommitRejected
      PROVE  KeepsQuiet
  BY <1>0, <1>8
     DEF CommitRejected, durableVars, Goto, KeepsQuiet, ResetsArchived, Quiet
<1>9. ASSUME RunRefused
      PROVE  KeepsQuiet
  BY <1>0, <1>9
     DEF RunRefused, durableVars, EndRun, KeepsQuiet, ResetsArchived, Quiet
<1>10. ASSUME RunEnds
      PROVE  KeepsQuiet
  BY <1>0, <1>10
     DEF RunEnds, durableVars, EndRun, KeepsQuiet, ResetsArchived, Quiet
<1>11. ASSUME UNCHANGED vars
      PROVE  KeepsQuiet
  BY <1>0, <1>11 DEF vars, durableVars, KeepsQuiet, ResetsArchived, Quiet
<1> QED
  BY <1>1, <1>2, <1>3, <1>4, <1>5, <1>6, <1>7, <1>8, <1>9, <1>10, <1>11
     DEF Next

-----------------------------------------------------------------------------
(* The theorem *)

(* Nothing has been sent at first.                                         *)
LEMMA LateStarts ==
  ASSUME Init
  PROVE  LateInv
<1>1. ops \in Seq(OpIn({})) /\ DOMAIN ops = {}
  BY DEF Init
<1> QED
  BY <1>1 DEF Init, LateInv, OpsShaped, InFlightOpen, ConfirmedQuiet,
     ResetsArchived

(* Every step keeps the invariant.                                         *)
LEMMA LateStep ==
  ASSUME LateInv, [Next]_vars
  PROVE  LateInv'
<1>1. KeepsOpen
  BY OpenStep DEF LateInv
<1>2. KeepsQuiet
  BY QuietStep
<1> QED
  BY <1>1, <1>2 DEF LateInv, KeepsOpen, KeepsQuiet, ConfirmedQuiet

(* No request that a run has left behind lands on a confirmed snapshot or  *)
(* behind the back of the store: what may still land, from whichever run,  *)
(* has the open intent that recovery, reset, rebuild and completion wait   *)
(* for or refuse to pass.                                                  *)
THEOREM LateWritesBlocked == Spec => []NoLateWrite
<1>1. Init => LateInv
  BY LateStarts
<1>2. LateInv /\ [Next]_vars => LateInv'
  BY LateStep
<1>3. LateInv => NoLateWrite
  BY DEF LateInv, InFlightOpen, ConfirmedQuiet, NothingInFlight, NoLateWrite
<1> QED
  BY <1>1, <1>2, <1>3, PTL DEF Spec

-----------------------------------------------------------------------------
(* Rows in key order *)

(* A finite set of numbers has an order, and it reaches every member.      *)
LEMMA OrderExists ==
  ASSUME NEW S \in SUBSET Nat, IsFiniteSet(S)
  PROVE  /\ Cardinality(S) \in Nat
         /\ InOrder(S) \in [1..Cardinality(S) -> S]
         /\ \A i, j \in 1..Cardinality(S) : i < j => InOrder(S)[i] < InOrder(S)[j]
<1> DEFINE n == Cardinality(S)
           Below(k) == {j \in S : j <= k}
           rank == [k \in S |-> Cardinality(Below(k))]
<1>0. n \in Nat /\ \A k \in S : k \in Nat
  BY FS_CardinalityType
<1>1. \A k \in S : rank[k] \in 1..n
  <2>1. TAKE k \in S
  <2>2. Below(k) \in SUBSET S /\ k \in Below(k)
    OBVIOUS
  <2>3. IsFiniteSet(Below(k)) /\ Cardinality(Below(k)) <= n
    BY <2>2, FS_Subset
  <2>4. Cardinality(Below(k)) \in Nat
    BY <2>3, FS_CardinalityType
  <2>5. Cardinality(Below(k)) # 0
    BY <2>2, <2>3, FS_EmptySet
  <2>6. Cardinality(Below(k)) \in 1..n
    BY <1>0, <2>3, <2>4, <2>5
  <2> QED
    BY <2>6
<1>2. \A k, l \in S : k < l => rank[k] < rank[l]
  <2>1. TAKE k, l \in S
  <2>2. HAVE k < l
  <2>3. Below(k) \subseteq Below(l) /\ l \in Below(l) /\ l \notin Below(k)
    <3>1. k \in Nat /\ l \in Nat
      BY <1>0
    <3>2. \A j \in S : j <= k => j <= l
      BY <1>0, <2>2, <3>1
    <3>3. Below(k) \subseteq Below(l)
      BY <3>2
    <3>4. l <= l /\ ~(l <= k)
      BY <2>2, <3>1
    <3> QED
      BY <3>3, <3>4
  <2>4. IsFiniteSet(Below(l)) /\ IsFiniteSet(Below(k))
    BY FS_Subset, Below(l) \in SUBSET S, Below(k) \in SUBSET S
  <2>5. /\ Cardinality(Below(k)) <= Cardinality(Below(l))
        /\ Cardinality(Below(k)) # Cardinality(Below(l))
    BY <2>3, <2>4, FS_Subset
  <2>6. Cardinality(Below(k)) \in Nat /\ Cardinality(Below(l)) \in Nat
    BY <2>4, FS_CardinalityType
  <2> QED
    BY <2>5, <2>6
<1>3. rank \in Injection(S, 1..n)
  <2>1. rank \in [S -> 1..n]
    BY <1>1
  <2>2. \A k, l \in S : rank[k] = rank[l] => k = l
    <3>1. TAKE k, l \in S
    <3>2. HAVE rank[k] = rank[l]
    <3>3. k \in Nat /\ l \in Nat /\ rank[k] \in Nat
      BY <1>0, <1>1
    <3>4. ~(k < l) /\ ~(l < k)
      BY <1>2, <3>2, <3>3
    <3> QED
      BY <3>3, <3>4
  <2> HIDE DEF rank
  <2> QED
    BY <2>1, <2>2 DEF Injection, IsInjective
<1>4. \A i \in 1..n : \E k \in S : rank[k] = i
  <2>1. IsFiniteSet(1..n) /\ Cardinality(1..n) = n
    BY <1>0, FS_Interval
  <2>2. rank \in Surjection(S, 1..n)
    BY <1>3, <2>1, FS_Injection
  <2> HIDE DEF rank
  <2> QED
    BY <2>2 DEF Surjection
<1> HIDE DEF rank
<1> DEFINE s == [i \in 1..n |-> CHOOSE k \in S : rank[k] = i]
<1> HIDE DEF n
<1>5. \A i \in 1..n : s[i] \in S /\ rank[s[i]] = i
  BY <1>4
<1>6. s \in [1..n -> S]
  BY <1>5
<1>7. \A i, j \in 1..n : i < j => s[i] < s[j]
  <2>1. TAKE i, j \in 1..n
  <2>2. HAVE i < j
  <2>3. s[i] \in S /\ s[j] \in S /\ rank[s[i]] = i /\ rank[s[j]] = j
    BY <1>5
  <2> HIDE DEF s
  <2>4. i \in Int /\ j \in Int /\ s[i] \in Nat /\ s[j] \in Nat
    BY <1>0, <2>3, 1..n \subseteq Int
  <2>5. s[i] # s[j]
    BY <2>2, <2>3, <2>4
  <2>6. ~(s[j] < s[i])
    <3>1. ASSUME s[j] < s[i]
          PROVE  FALSE
      <4>1. rank[s[j]] < rank[s[i]]
        BY <1>2, <2>3, <3>1
      <4> QED
        BY <2>2, <2>3, <2>4, <4>1
    <3> QED
      BY <3>1
  <2> QED
    BY <2>4, <2>5, <2>6
<1> HIDE DEF s
<1>8. \E t \in [1..n -> S] : \A i, j \in 1..n : i < j => t[i] < t[j]
  BY <1>6, <1>7
<1>9. /\ InOrder(S) \in [1..n -> S]
      /\ \A i, j \in 1..n : i < j => InOrder(S)[i] < InOrder(S)[j]
  BY <1>8 DEF InOrder, n
<1> QED
  BY <1>0, <1>9 DEF n

(* It reaches every member.                                                *)
LEMMA OrderCovers ==
  ASSUME NEW S \in SUBSET Nat, IsFiniteSet(S)
  PROVE  \A k \in S : \E i \in 1..Cardinality(S) : InOrder(S)[i] = k
<1> DEFINE n == Cardinality(S)
           s == InOrder(S)
<1>1. /\ n \in Nat /\ s \in [1..n -> S]
      /\ \A i, j \in 1..n : i < j => s[i] < s[j]
  BY OrderExists
<1> HIDE DEF n, s
<1>2. s \in Injection(1..n, S)
  <2>1. \A i, j \in 1..n : s[i] = s[j] => i = j
    <3>1. TAKE i, j \in 1..n
    <3>2. HAVE s[i] = s[j]
    <3>3. s[i] \in Nat /\ i \in Int /\ j \in Int
      BY <1>1, s[i] \in S, 1..n \subseteq Int, S \subseteq Nat
    <3>4. ~(i < j) /\ ~(j < i)
      BY <1>1, <3>2, <3>3
    <3> QED
      BY <3>3, <3>4
  <2> QED
    BY <1>1, <2>1 DEF Injection, IsInjective
<1>3. IsFiniteSet(1..n) /\ Cardinality(1..n) = n
  BY <1>1, FS_Interval
<1>4. s \in Surjection(1..n, S)
  BY <1>2, <1>3, FS_Injection DEF n
<1> QED
  BY <1>4 DEF Surjection, n, s

\* The rows a table still has to give.
Left == {k \in view : k > cursor}

(* A query returns the first of them, in their order.                      *)
LEMMA QueryRows ==
  ASSUME view \subseteq Key, cursor \in Key \cup {NoKey}
  PROVE  /\ IsFiniteSet(Left) /\ Left \in SUBSET Nat
         /\ Remaining \in Seq(Left)
         /\ Len(Remaining) = Cardinality(Left)
         /\ \A i, j \in 1..Len(Remaining) : i < j => Remaining[i] < Remaining[j]
         /\ Remaining # <<>> =>
              /\ SnapshotQuery \in Seq(Left)
              /\ Len(SnapshotQuery) \in 1..Len(Remaining)
              /\ \A i \in 1..Len(SnapshotQuery) : SnapshotQuery[i] = Remaining[i]
<1>1. MaxKey \in Nat /\ ChunkSize \in Nat \ {0}
  BY CopyAssumption
<1>2. Left \in SUBSET Nat /\ IsFiniteSet(Left)
  <2>1. Left \in SUBSET (1..MaxKey)
    BY DEF Left, Key
  <2>2. IsFiniteSet(1..MaxKey) /\ 1..MaxKey \subseteq Nat
    BY <1>1, FS_Interval
  <2>3. IsFiniteSet(Left)
    BY <2>1, <2>2, FS_Subset
  <2> QED
    BY <2>1, <2>2, <2>3
<1> DEFINE n == Cardinality(Left)
<1>3. /\ n \in Nat /\ Remaining \in [1..n -> Left]
      /\ \A i, j \in 1..n : i < j => Remaining[i] < Remaining[j]
  BY <1>2, OrderExists DEF Remaining, Left
<1> HIDE DEF n
<1>4. Remaining \in Seq(Left) /\ Len(Remaining) = n
  BY <1>3
<1>5. ASSUME Remaining # <<>>
      PROVE  /\ SnapshotQuery \in Seq(Left)
             /\ Len(SnapshotQuery) \in 1..Len(Remaining)
             /\ \A i \in 1..Len(SnapshotQuery) : SnapshotQuery[i] = Remaining[i]
  <2>1. n \in Nat \ {0}
    BY <1>3, <1>4, <1>5, EmptySeq
  <2> DEFINE m == Min({ChunkSize, Len(Remaining)})
  <2>2. m \in 1..n
    <3>1. \E x \in {ChunkSize, n} : \A y \in {ChunkSize, n} : x <= y
      BY <1>1, <2>1
    <3>2. m \in {ChunkSize, n} /\ \A y \in {ChunkSize, n} : m <= y
      BY <1>4, <3>1 DEF Min
    <3> QED
      BY <1>1, <2>1, <3>2
  <2> HIDE DEF m
  <2>3. SnapshotQuery = SubSeq(Remaining, 1, m)
    BY DEF SnapshotQuery, m
  <2>4. m \in Int /\ 1 \in Int /\ \A i \in 1..m : Remaining[i] \in Left
    BY <1>3, <2>1, <2>2
  <2>5. /\ SnapshotQuery \in Seq(Left) /\ Len(SnapshotQuery) = m
        /\ \A i \in 1..m : SnapshotQuery[i] = Remaining[i]
    <3>1. /\ SubSeq(Remaining, 1, m) \in Seq(Left)
          /\ Len(SubSeq(Remaining, 1, m)) = IF 1 <= m THEN m - 1 + 1 ELSE 0
          /\ \A i \in 1..m - 1 + 1 : SubSeq(Remaining, 1, m)[i] = Remaining[1 + i - 1]
      BY <2>4, SubSeqProperties
    <3>2. m - 1 + 1 = m /\ 1 <= m /\ \A i \in 1..m : 1 + i - 1 = i
      BY <2>1, <2>2
    <3> QED
      BY <2>3, <3>1, <3>2
  <2> QED
    BY <1>4, <2>2, <2>5
<1> QED
  BY <1>2, <1>3, <1>4, <1>5 DEF n

(* A non-empty finite set of numbers has a largest member.                 *)
LEMMA MaxExists ==
  ASSUME NEW S \in SUBSET Nat, IsFiniteSet(S), S # {}
  PROVE  Max(S) \in S /\ \A k \in S : k <= Max(S)
<1> DEFINE n == Cardinality(S)
           s == InOrder(S)
<1>1. /\ n \in Nat /\ s \in [1..n -> S]
      /\ \A i, j \in 1..n : i < j => s[i] < s[j]
      /\ \A k \in S : \E i \in 1..n : s[i] = k
  BY OrderExists, OrderCovers
<1>2. n # 0
  BY FS_EmptySet
<1> HIDE DEF n, s
<1>3. s[n] \in S
  BY <1>1, <1>2
<1>4. \A k \in S : s[n] >= k
  <2>1. TAKE k \in S
  <2>2. PICK i \in 1..n : s[i] = k
    BY <1>1
  <2>3. i = n \/ i < n
    BY <1>1
  <2>4. n \in 1..n
    BY <1>1, <1>2
  <2>5. S \subseteq Nat /\ k \in S
    OBVIOUS
  <2>6. s[n] \in Nat /\ k \in Nat
    BY <1>3, <2>5
  <2> QED
    BY <1>1, <2>2, <2>3, <2>4, <2>6
<1>5. \E x \in S : \A y \in S : x >= y
  BY <1>3, <1>4
<1>6. Max(S) \in S /\ \A k \in S : Max(S) >= k
  BY <1>5 DEF Max
<1> QED
  BY <1>6

(* A non-empty set of numbers has a smallest member.                       *)
LEMMA MinExists ==
  ASSUME NEW S \in SUBSET Nat, IsFiniteSet(S), S # {}
  PROVE  \E k \in S : \A j \in S : k <= j
<1> DEFINE n == Cardinality(S)
           s == InOrder(S)
<1>1. /\ n \in Nat /\ s \in [1..n -> S]
      /\ \A i, j \in 1..n : i < j => s[i] < s[j]
      /\ \A k \in S : \E i \in 1..n : s[i] = k
  BY OrderExists, OrderCovers
<1>2. n # 0
  BY FS_EmptySet
<1> HIDE DEF n, s
<1>3. s[1] \in S /\ 1 \in 1..n /\ S \subseteq Nat
  BY <1>1, <1>2
<1>4. \A k \in S : s[1] <= k
  <2>1. TAKE k \in S
  <2>2. PICK i \in 1..n : s[i] = k
    BY <1>1
  <2>3. i = 1 \/ 1 < i
    BY <1>1
  <2>4. s[1] \in Nat /\ k \in Nat
    BY <1>3
  <2> QED
    BY <1>1, <1>3, <2>2, <2>3, <2>4
<1> QED
  BY <1>3, <1>4

(* Division with remainder.                                                *)
LEMMA Division ==
  ASSUME NEW a \in Nat, NEW b \in Nat \ {0}
  PROVE  /\ a \div b \in Nat /\ a % b \in 0..b - 1
         /\ a = b * (a \div b) + (a % b)
  OBVIOUS

(* Two multiples are not closer than the divisor.                          *)
LEMMA MultiplesApart ==
  ASSUME NEW b \in Nat \ {0}, NEW p \in Nat, NEW q \in Nat, b * p < b * q
  PROVE  b * p + b <= b * q
<1>1. p < q
  <2>1. ASSUME q <= p
        PROVE  b * q <= b * p
    <3>1. PICK d \in Nat : p = q + d
      BY <2>1, p - q \in Nat
    <3>2. b * p = b * q + b * d /\ b * d \in Nat /\ b * q \in Nat
      BY <3>1
    <3> QED
      BY <3>2
  <2>2. b * p \in Nat /\ b * q \in Nat
    OBVIOUS
  <2> QED
    BY <2>1, <2>2
<1>2. PICK d \in Nat : q = p + 1 + d
  BY <1>1, q - p - 1 \in Nat
<1>3. b * q = b * p + b + b * d /\ b * d \in Nat /\ b * p \in Nat
  BY <1>2
<1> QED
  BY <1>3

(* The remainder of a multiple.                                            *)
LEMMA MultipleRest ==
  ASSUME NEW b \in Nat \ {0}, NEW q \in Nat
  PROVE  (b * q) % b = 0
<1> DEFINE c == b * q
           p == c \div b
           r == c % b
<1>1. c \in Nat
  OBVIOUS
<1>2. p \in Nat /\ r \in 0..b - 1 /\ c = b * p + r
  BY <1>1, Division
<1>3. ASSUME r # 0
      PROVE  FALSE
  <2>1. b * p \in Nat /\ b * p < b * q
    BY <1>2, <1>3
  <2>2. b * p + b <= b * q
    BY <1>2, <2>1, MultiplesApart
  <2> HIDE DEF p, r
  <2> QED
    BY <1>1, <1>2, <2>1, <2>2
<1> QED
  BY <1>3

-----------------------------------------------------------------------------
(* Pieces *)

\* The places of a chunk that no receipt covers; the first place of the span
\* that has place i, and the last place of the piece that starts there.
Open(keys) == DOMAIN keys \ RecoveredAt(keys)
FirstOf(open, i) == Max({j \in open : j <= i /\ j - 1 \notin open})
LastOf(open, b, i) == Max({j \in open : j < i + b /\ i..j \subseteq open})

(* The span of a place goes down to a place that follows no open one.      *)
LEMMA SpanOf ==
  ASSUME NEW open \in SUBSET (Nat \ {0}), IsFiniteSet(open), NEW i \in open
  PROVE  /\ FirstOf(open, i) \in open /\ FirstOf(open, i) <= i
         /\ FirstOf(open, i) - 1 \notin open
         /\ FirstOf(open, i)..i \subseteq open
         /\ \A j \in open : j <= i /\ j - 1 \notin open => j <= FirstOf(open, i)
<1> DEFINE A == {j \in open : j <= i /\ j - 1 \notin open}
           B == {j \in open : j <= i /\ j..i \subseteq open}
<1>0. /\ open \subseteq Nat /\ i \in Nat /\ i # 0
      /\ \A j \in open : j \in Nat \ {0}
  OBVIOUS
<1>1. IsFiniteSet(A) /\ IsFiniteSet(B) /\ A \in SUBSET Nat /\ B \in SUBSET Nat
  <2>1. A \in SUBSET open /\ B \in SUBSET open
    OBVIOUS
  <2>2. IsFiniteSet(A) /\ IsFiniteSet(B)
    BY <2>1, FS_Subset
  <2> QED
    BY <1>0, <2>1, <2>2
<1>2. i \in B
  <2>1. i <= i /\ i..i = {i}
    BY <1>0
  <2> QED
    BY <2>1
<1>3. PICK m \in B : \A j \in B : m <= j
  BY <1>1, <1>2, MinExists
<1>4. m \in Nat \ {0} /\ m \in open /\ m <= i /\ m..i \subseteq open
  BY <1>0, <1>3
<1>5. m - 1 \notin open
  <2>1. ASSUME m - 1 \in open
        PROVE  FALSE
    <3>1. m - 1 \in Nat /\ m - 1 <= i /\ ~(m <= m - 1)
      BY <1>0, <1>4
    <3>2. \A j \in (m - 1)..i : j = m - 1 \/ j \in m..i
      BY <1>0, <1>4
    <3>3. (m - 1)..i \subseteq open
      BY <1>4, <2>1, <3>2
    <3>4. m - 1 \in B
      BY <2>1, <3>1, <3>3
    <3> QED
      BY <1>3, <3>1, <3>4
  <2> QED
    BY <2>1
<1>6. m \in A
  BY <1>4, <1>5
<1>7. Max(A) \in A /\ \A k \in A : k <= Max(A)
  BY <1>1, <1>6, MaxExists
<1>8. FirstOf(open, i) = Max(A)
  BY DEF FirstOf
<1> DEFINE f == Max(A)
<1>9. f \in open /\ f <= i /\ f - 1 \notin open /\ m <= f
  BY <1>6, <1>7
<1>10. \A j \in open : j <= i /\ j - 1 \notin open => j <= f
  BY <1>7
<1>11. FirstOf(open, i) = f
  BY <1>8
<1> HIDE DEF A, f
<1>12. f \in Nat
  BY <1>0, <1>9
<1>13. \A j \in f..i : j \in m..i
  BY <1>0, <1>4, <1>9, <1>12
<1>14. f..i \subseteq open
  BY <1>4, <1>13
<1> QED
  BY <1>9, <1>10, <1>11, <1>14

(* A piece goes on while its places are open and its size allows it.       *)
LEMMA PieceOf ==
  ASSUME NEW open \in SUBSET (Nat \ {0}), IsFiniteSet(open), NEW i \in open,
         NEW b \in Nat \ {0}
  PROVE  /\ LastOf(open, b, i) \in open /\ i <= LastOf(open, b, i)
         /\ LastOf(open, b, i) < i + b
         /\ i..LastOf(open, b, i) \subseteq open
         /\ \A j \in open : j < i + b /\ i..j \subseteq open => j <= LastOf(open, b, i)
<1> DEFINE A == {j \in open : j < i + b /\ i..j \subseteq open}
<1>0. open \subseteq Nat /\ i \in Nat
  OBVIOUS
<1>1. A \in SUBSET open
  OBVIOUS
<1>2. IsFiniteSet(A) /\ A \in SUBSET Nat
  <2>1. IsFiniteSet(A)
    BY <1>1, FS_Subset
  <2> QED
    BY <1>0, <1>1, <2>1
<1>3. i \in A
  <2>1. i < i + b /\ i..i = {i}
    BY <1>0
  <2> QED
    BY <2>1
<1>4. Max(A) \in A /\ \A k \in A : k <= Max(A)
  BY <1>2, <1>3, MaxExists
<1>5. LastOf(open, b, i) = Max(A)
  BY DEF LastOf
<1>6. /\ Max(A) \in open /\ i <= Max(A) /\ Max(A) < i + b
      /\ i..Max(A) \subseteq open
      /\ \A j \in open : j < i + b /\ i..j \subseteq open => j <= Max(A)
  BY <1>3, <1>4
<1> HIDE DEF A
<1> QED
  BY <1>5, <1>6

\* The places where a piece starts.
Starts(open, b) == {i \in open : (i - FirstOf(open, i)) % b = 0}

(* A place between the first of a span and another one has the same first. *)
LEMMA SameSpan ==
  ASSUME NEW open \in SUBSET (Nat \ {0}), IsFiniteSet(open),
         NEW i \in open, NEW k \in open, k <= i, k..i \subseteq open
  PROVE  FirstOf(open, i) = FirstOf(open, k)
<1>0. open \subseteq Nat /\ i \in Nat /\ k \in Nat
  OBVIOUS
<1>1. /\ FirstOf(open, i) \in open /\ FirstOf(open, i) <= i
      /\ FirstOf(open, i) - 1 \notin open
      /\ \A j \in open : j <= i /\ j - 1 \notin open => j <= FirstOf(open, i)
  BY SpanOf
<1>2. /\ FirstOf(open, k) \in open /\ FirstOf(open, k) <= k
      /\ FirstOf(open, k) - 1 \notin open
      /\ \A j \in open : j <= k /\ j - 1 \notin open => j <= FirstOf(open, k)
  BY SpanOf
<1>3. FirstOf(open, i) \in Nat /\ FirstOf(open, k) \in Nat
  BY <1>0, <1>1, <1>2
<1>4. FirstOf(open, k) <= FirstOf(open, i)
  BY <1>0, <1>1, <1>2, <1>3
<1>5. FirstOf(open, i) <= k
  <2>1. ASSUME k < FirstOf(open, i)
        PROVE  FALSE
    <3>1. FirstOf(open, i) - 1 \in k..i
      BY <1>0, <1>1, <1>3, <2>1
    <3> QED
      BY <1>1, <3>1
  <2> QED
    BY <1>0, <1>3, <2>1
<1>6. FirstOf(open, i) <= FirstOf(open, k)
  BY <1>1, <1>2, <1>5
<1> QED
  BY <1>3, <1>4, <1>6

(* Every open place is in a piece.                                         *)
LEMMA StartsCover ==
  ASSUME NEW open \in SUBSET (Nat \ {0}), IsFiniteSet(open),
         NEW b \in Nat \ {0}, NEW i \in open
  PROVE  \E k \in Starts(open, b) : k <= i /\ i <= LastOf(open, b, k)
<1> DEFINE f == FirstOf(open, i)
           q == (i - f) \div b
           k == f + b * q
<1>0. open \subseteq Nat /\ i \in Nat
  OBVIOUS
<1>1. f \in open /\ f <= i /\ f..i \subseteq open
  BY SpanOf
<1>2. f \in Nat /\ i - f \in Nat
  <2> HIDE DEF f
  <2>1. f \in Nat
    BY <1>0, <1>1
  <2> QED
    BY <1>0, <1>1, <2>1
<1>3. q \in Nat /\ (i - f) % b \in 0..b - 1 /\ i - f = b * q + ((i - f) % b)
  BY <1>2, Division
<1>4. b * q \in Nat
  BY <1>3
<1> DEFINE r == (i - f) % b
<1>5. r \in Nat /\ r < b /\ i = f + b * q + r
  <2> HIDE DEF f, q
  <2>1. r \in 0..b - 1 /\ i - f = b * q + r
    BY <1>3
  <2> HIDE DEF r
  <2> QED
    BY <1>0, <1>2, <1>4, <2>1
<1> HIDE DEF q, r
<1>6. k \in f..i /\ i < k + b
  BY <1>0, <1>2, <1>4, <1>5
<1>7. k \in open /\ k..i \subseteq open
  <2>1. k \in Nat /\ f <= k
    BY <1>2, <1>4
  <2>2. \A j \in k..i : j \in f..i
    BY <1>0, <1>2, <2>1
  <2> QED
    BY <1>1, <1>6, <2>2
<1>8. FirstOf(open, k) = f
  BY <1>6, <1>7, <1>0, <1>2, SameSpan
<1>9. (k - f) % b = 0
  <2>1. k - f = b * q
    BY <1>2, <1>4
  <2>2. (b * q) % b = 0
    BY <1>3, MultipleRest DEF q
  <2> QED
    BY <2>1, <2>2
<1> HIDE DEF k, f
<1>10. k \in Starts(open, b)
  BY <1>7, <1>8, <1>9 DEF Starts
<1>11. i <= LastOf(open, b, k)
  BY <1>6, <1>7, PieceOf
<1>12. k <= i
  BY <1>0, <1>2, <1>6
<1> QED
  BY <1>10, <1>11, <1>12

(* Pieces do not overlap.                                                  *)
LEMMA StartsApart ==
  ASSUME NEW open \in SUBSET (Nat \ {0}), IsFiniteSet(open),
         NEW b \in Nat \ {0},
         NEW k \in Starts(open, b), NEW l \in Starts(open, b), k < l
  PROVE  LastOf(open, b, k) < l
<1>0. /\ open \subseteq Nat /\ k \in open /\ l \in open
      /\ (k - FirstOf(open, k)) % b = 0 /\ (l - FirstOf(open, l)) % b = 0
  BY DEF Starts
<1>1. k \in Nat /\ l \in Nat
  BY <1>0
<1> DEFINE e == LastOf(open, b, k)
           f == FirstOf(open, k)
<1>2. e \in open /\ e < k + b /\ k..e \subseteq open
  BY <1>0, PieceOf
<1>3. e \in Nat
  BY <1>0, <1>2
<1>4. f \in open /\ f <= k
  BY <1>0, SpanOf
<1>5. f \in Nat
  BY <1>0, <1>4
<1>6. ASSUME l <= e
      PROVE  FALSE
  <2>1. \A j \in k..l : j \in k..e
    BY <1>1, <1>3, <1>6
  <2>2. k..l \subseteq open
    BY <1>2, <2>1
  <2>3. FirstOf(open, l) = f
    BY <1>0, <1>1, <2>2, SameSpan
  <2> DEFINE p == (k - f) \div b
             q == (l - f) \div b
  <2>4. k - f \in Nat /\ l - f \in Nat /\ k - f < l - f
    BY <1>1, <1>4, <1>5
  <2>5. p \in Nat /\ k - f = b * p + ((k - f) % b)
    BY <2>4, Division
  <2>6. q \in Nat /\ l - f = b * q + ((l - f) % b)
    BY <2>4, Division
  <2>7. b * p \in Nat /\ b * q \in Nat
    BY <2>5, <2>6
  <2> HIDE DEF p, q
  <2>8. k - f = b * p /\ l - f = b * q
    BY <1>0, <2>3, <2>5, <2>6, <2>7
  <2>9. b * p + b <= b * q
    BY <2>4, <2>5, <2>6, <2>8, MultiplesApart
  <2>10. l < k + b
    BY <1>1, <1>2, <1>3, <1>6
  <2> QED
    BY <1>1, <1>5, <2>7, <2>8, <2>9, <2>10
<1> HIDE DEF e
<1> QED
  BY <1>1, <1>3, <1>6 DEF e

\* The piece of a chunk that starts at a place.
PieceFrom(keys, i) ==
  [lo |-> emitted + i - 1,
   keys |-> SubSeq(keys, i, LastOf(Open(keys), conf.split, i))]

\* A piece of places i to e of a chunk.
IsPiece(p, keys, i, e) ==
  /\ i \in 1..Len(keys) /\ e \in 1..Len(keys) /\ i <= e
  /\ i..e \subseteq Open(keys)
  /\ p.lo = emitted + i - 1
  /\ Len(p.keys) = e - i + 1
  /\ \A n \in 1..Len(p.keys) : p.keys[n] = keys[i + n - 1]

(* The pieces of a chunk are the open places, each once and in order.      *)
LEMMA PiecesOf ==
  ASSUME NEW keys \in Seq(Key), emitted \in Nat, conf.split \in Nat \ {0}
  PROVE  /\ Pieces(keys) \in Seq(Piece)
         /\ \A n \in DOMAIN Pieces(keys) :
              \E i, e \in Nat : IsPiece(Pieces(keys)[n], keys, i, e)
         /\ \A i \in Open(keys) : \E n \in DOMAIN Pieces(keys) :
              /\ Pieces(keys)[n].lo <= emitted + i - 1
              /\ emitted + i - 1 < PieceEnd(Pieces(keys)[n])
         /\ \A n, m \in DOMAIN Pieces(keys) :
              n < m => PieceEnd(Pieces(keys)[n]) <= Pieces(keys)[m].lo
<1> DEFINE open == Open(keys)
           b == conf.split
           starts == Starts(open, b)
           order == InOrder(starts)
           c == Cardinality(starts)
<1>1. Pieces(keys) = [n \in DOMAIN order |-> PieceFrom(keys, order[n])]
  BY DEF Pieces, Starts, Open, FirstOf, LastOf, PieceFrom
<1>2. open \subseteq 1..Len(keys) /\ Len(keys) \in Nat /\ keys \in [1..Len(keys) -> Key]
  BY DEF Open
<1>3. open \in SUBSET (Nat \ {0}) /\ IsFiniteSet(open)
  <2>1. open \in SUBSET (1..Len(keys)) /\ IsFiniteSet(1..Len(keys))
    BY <1>2, FS_Interval
  <2>2. IsFiniteSet(open)
    BY <2>1, FS_Subset
  <2>3. 1..Len(keys) \subseteq Nat \ {0}
    BY <1>2
  <2> QED
    BY <2>1, <2>2, <2>3
<1>4. starts \in SUBSET open /\ starts \in SUBSET Nat /\ IsFiniteSet(starts)
  <2>1. starts \in SUBSET open
    BY DEF Starts
  <2> HIDE DEF starts
  <2> QED
    BY <1>3, <2>1, FS_Subset
<1> HIDE DEF open, starts, b
<1>5. /\ c \in Nat /\ order \in [1..c -> starts]
      /\ \A i, j \in 1..c : i < j => order[i] < order[j]
      /\ \A k \in starts : \E i \in 1..c : order[i] = k
  BY <1>4, OrderExists, OrderCovers
<1> HIDE DEF order, c
<1>6. /\ DOMAIN Pieces(keys) = 1..c
      /\ \A n \in 1..c : Pieces(keys)[n] = PieceFrom(keys, order[n])
  BY <1>1, <1>5
<1>7. b \in Nat \ {0} /\ b = conf.split
  BY DEF b
<1>8. ASSUME NEW k \in starts
      PROVE  /\ k \in 1..Len(keys) /\ LastOf(open, b, k) \in 1..Len(keys)
             /\ k <= LastOf(open, b, k)
             /\ IsPiece(PieceFrom(keys, k), keys, k, LastOf(open, b, k))
             /\ PieceFrom(keys, k) \in Piece
             /\ PieceEnd(PieceFrom(keys, k)) = emitted + LastOf(open, b, k)
             /\ PieceFrom(keys, k).lo = emitted + k - 1
  <2> DEFINE e == LastOf(open, b, k)
             p == PieceFrom(keys, k)
  <2>1. k \in open /\ e \in open /\ k <= e /\ k..e \subseteq open
    BY <1>3, <1>4, <1>7, PieceOf
  <2>2. /\ p.lo = emitted + k - 1 /\ p.keys = SubSeq(keys, k, e)
        /\ p = [lo |-> p.lo, keys |-> p.keys]
    BY DEF PieceFrom, open, b
  <2> HIDE DEF e, p
  <2>3. k \in 1..Len(keys) /\ e \in 1..Len(keys)
    BY <1>2, <2>1
  <2>4. k \in Int /\ e \in Int /\ \A i \in k..e : keys[i] \in Key
    BY <1>2, <2>1
  <2>5. /\ SubSeq(keys, k, e) \in Seq(Key)
        /\ Len(SubSeq(keys, k, e)) = IF k <= e THEN e - k + 1 ELSE 0
        /\ \A i \in 1..e - k + 1 : SubSeq(keys, k, e)[i] = keys[k + i - 1]
    BY <2>4, SubSeqProperties
  <2>6. p.keys \in Seq(Key) /\ Len(p.keys) = e - k + 1
    BY <2>1, <2>2, <2>5
  <2>7. \A n \in 1..Len(p.keys) : p.keys[n] = keys[k + n - 1]
    BY <2>2, <2>5, <2>6
  <2>8. p.lo \in Nat
    BY <1>2, <2>2, <2>3
  <2>9. p \in Piece
    BY <2>2, <2>6, <2>8 DEF Piece
  <2>10. PieceEnd(p) = emitted + e
    <3>1. PieceEnd(p) = (emitted + k - 1) + (e - k + 1)
      BY <2>2, <2>6 DEF PieceEnd
    <3> QED
      BY <2>4, <3>1
  <2>11. IsPiece(p, keys, k, e)
    BY <2>1, <2>2, <2>3, <2>6, <2>7 DEF IsPiece, open
  <2> QED
    BY <2>1, <2>2, <2>3, <2>9, <2>10, <2>11 DEF e, p
<1>9. Pieces(keys) \in Seq(Piece)
  <2>1. \A n \in 1..c : PieceFrom(keys, order[n]) \in Piece
    BY <1>5, <1>8
  <2>2. Pieces(keys) \in [1..c -> Piece]
    BY <1>1, <1>5, <2>1
  <2> QED
    BY <1>5, <2>2
<1>10. \A n \in DOMAIN Pieces(keys) :
         \E i, e \in Nat : IsPiece(Pieces(keys)[n], keys, i, e)
  <2>1. TAKE n \in DOMAIN Pieces(keys)
  <2>2. order[n] \in starts /\ Pieces(keys)[n] = PieceFrom(keys, order[n])
    BY <1>5, <1>6
  <2>3. 1..Len(keys) \subseteq Nat
    BY <1>2
  <2>4. /\ order[n] \in Nat /\ LastOf(open, b, order[n]) \in Nat
        /\ IsPiece(Pieces(keys)[n], keys, order[n], LastOf(open, b, order[n]))
    BY <1>8, <2>2, <2>3
  <2> QED
    BY <2>4
<1>11. \A i \in Open(keys) : \E n \in DOMAIN Pieces(keys) :
         /\ Pieces(keys)[n].lo <= emitted + i - 1
         /\ emitted + i - 1 < PieceEnd(Pieces(keys)[n])
  <2>1. TAKE i \in Open(keys)
  <2>2. i \in open /\ i \in Nat
    BY <1>2 DEF open
  <2>3. PICK k \in starts : k <= i /\ i <= LastOf(open, b, k)
    BY <1>3, <1>7, <2>2, StartsCover DEF starts
  <2>4. PICK n \in 1..c : order[n] = k
    BY <1>5
  <2>5. Pieces(keys)[n] = PieceFrom(keys, k) /\ n \in DOMAIN Pieces(keys)
    BY <1>6, <2>4
  <2>6. /\ Pieces(keys)[n].lo = emitted + k - 1
        /\ PieceEnd(Pieces(keys)[n]) = emitted + LastOf(open, b, k)
        /\ k \in 1..Len(keys) /\ LastOf(open, b, k) \in 1..Len(keys)
    BY <1>8, <2>5
  <2>7. k \in Int /\ LastOf(open, b, k) \in Int
    BY <2>6
  <2> QED
    BY <2>2, <2>3, <2>5, <2>6, <2>7
<1>12. \A n, m \in DOMAIN Pieces(keys) :
         n < m => PieceEnd(Pieces(keys)[n]) <= Pieces(keys)[m].lo
  <2>1. TAKE n, m \in DOMAIN Pieces(keys)
  <2>2. HAVE n < m
  <2>3. /\ order[n] \in starts /\ order[m] \in starts /\ order[n] < order[m]
        /\ Pieces(keys)[n] = PieceFrom(keys, order[n])
        /\ Pieces(keys)[m] = PieceFrom(keys, order[m])
    BY <1>5, <1>6, <2>2
  <2>4. LastOf(open, b, order[n]) < order[m]
    BY <1>3, <1>7, <2>3, StartsApart DEF starts
  <2>5. /\ PieceEnd(Pieces(keys)[n]) = emitted + LastOf(open, b, order[n])
        /\ Pieces(keys)[m].lo = emitted + order[m] - 1
        /\ LastOf(open, b, order[n]) \in 1..Len(keys) /\ order[m] \in 1..Len(keys)
    BY <1>8, <2>3
  <2>6. LastOf(open, b, order[n]) \in Int /\ order[m] \in Int
    BY <2>5
  <2> QED
    BY <2>4, <2>5, <2>6
<1> QED
  BY <1>9, <1>10, <1>11, <1>12

-----------------------------------------------------------------------------
(* Types and places *)

\* Where the sink is at work on a chunk.
Writing ==
  \/ pc \in {"batch", "append", "spool", "ack"}
  \/ pc = "commit" /\ Current.do \in {"append", "truncate"}

\* Where it still has pieces of it to commit.
Handing ==
  \/ pc \in {"batch", "append"}
  \/ pc = "commit" /\ Current.do \in {"append", "truncate"}

\* The sink is given the rows after the cursor, and works on no others.
ChunkPlace ==
  /\ chunk # <<>> <=> Writing
  /\ Writing => Last(chunk) > cursor
  /\ todo # <<>> => Handing

\* What the run waits for.
CommitPlace ==
  pc = "commit" =>
    /\ ops # <<>> /\ Current.table = table
    /\ Current.do = "append" => todo # <<>>

\* The request stays what it was.
SameRequest(o) ==
  /\ ops'[o].table = ops[o].table /\ ops'[o].do = ops[o].do
  /\ ops'[o].lo = ops[o].lo /\ ops'[o].hi = ops[o].hi
  /\ ops'[o].keys = ops[o].keys /\ ops'[o].seen = ops[o].seen

OpsTyped == ops \in Seq(OpRecord)
OpsKept ==
  /\ OpsTyped' /\ Len(ops) <= Len(ops') /\ DOMAIN ops \subseteq DOMAIN ops'
  /\ \A o \in DOMAIN ops : SameRequest(o)

(* Operations do not change.                                               *)
LEMMA KeptTyped ==
  ASSUME OpsTyped, ops' = ops
  PROVE  OpsKept /\ Len(ops') = Len(ops) /\ DOMAIN ops' = DOMAIN ops
  BY DEF OpsTyped, OpsKept, SameRequest

(* Intents change.                                                         *)
LEMMA SettledTyped ==
  ASSUME OpsTyped, NEW S, NEW st \in {"none", "PREPARED", "COMMITTED"},
         ops' = SetIntents(S, st)
  PROVE  /\ OpsKept /\ Len(ops') = Len(ops) /\ DOMAIN ops' = DOMAIN ops
         /\ \A o \in DOMAIN ops :
              /\ ops'[o].catalog = ops[o].catalog
              /\ ops'[o].intent = IF o \in S THEN st ELSE ops[o].intent
<1>0. \A o \in DOMAIN ops : ops[o] \in OpRecord
  BY DEF OpsTyped
<1> DEFINE new(o) == [ops[o] EXCEPT !.intent = st]
<1>1. \A o \in DOMAIN ops :
        /\ new(o) \in OpRecord /\ new(o).intent = st
        /\ new(o).catalog = ops[o].catalog
        /\ new(o).table = ops[o].table /\ new(o).do = ops[o].do
        /\ new(o).lo = ops[o].lo /\ new(o).hi = ops[o].hi
        /\ new(o).keys = ops[o].keys /\ new(o).seen = ops[o].seen
  BY <1>0 DEF OpRecord
<1>2. ops' = [o \in DOMAIN ops |-> IF o \in S THEN new(o) ELSE ops[o]]
  BY DEF SetIntents
<1> HIDE DEF new
<1>3. ops \in Seq(OpRecord) /\ DOMAIN ops = 1..Len(ops) /\ Len(ops) \in Nat
  BY DEF OpsTyped
<1>4. ops' \in Seq(OpRecord) /\ Len(ops') = Len(ops)
  BY <1>0, <1>1, <1>2, <1>3
<1>5. DOMAIN ops' = DOMAIN ops
  BY <1>2
<1>6. \A o \in DOMAIN ops : SameRequest(o)
  BY <1>1, <1>2 DEF SameRequest
<1>7. \A o \in DOMAIN ops :
        /\ ops'[o].catalog = ops[o].catalog
        /\ ops'[o].intent = IF o \in S THEN st ELSE ops[o].intent
  BY <1>1, <1>2
<1> QED
  BY <1>3, <1>4, <1>5, <1>6, <1>7 DEF OpsKept, OpsTyped

(* The catalog answers one request.                                        *)
LEMMA RequestTyped ==
  ASSUME OpsTyped, NEW o \in DOMAIN ops, NEW c \in {"landed", "lost"},
         \/ ops' = [ops EXCEPT ![o].catalog = c]
         \/ ops' = [ops EXCEPT ![o].catalog = c, ![o].intent = "none"]
  PROVE  /\ OpsKept /\ Len(ops') = Len(ops) /\ DOMAIN ops' = DOMAIN ops
         /\ ops'[o].catalog = c /\ ops'[o].intent \in {ops[o].intent, "none"}
         /\ \A p \in DOMAIN ops : p # o => ops'[p] = ops[p]
<1>0. ops[o] \in OpRecord
  BY DEF OpsTyped
<1> DEFINE one == [ops[o] EXCEPT !.catalog = c]
           two == [one EXCEPT !.intent = "none"]
<1>1. /\ one \in OpRecord /\ one.catalog = c /\ one.intent = ops[o].intent
      /\ one.table = ops[o].table /\ one.do = ops[o].do
      /\ one.lo = ops[o].lo /\ one.hi = ops[o].hi
      /\ one.keys = ops[o].keys /\ one.seen = ops[o].seen
  BY <1>0 DEF OpRecord
<1>2. /\ two \in OpRecord /\ two.catalog = one.catalog /\ two.intent = "none"
      /\ two.table = one.table /\ two.do = one.do
      /\ two.lo = one.lo /\ two.hi = one.hi
      /\ two.keys = one.keys /\ two.seen = one.seen
  <2> HIDE DEF one
  <2> QED
    BY <1>1 DEF OpRecord
<1>3. ops' = [ops EXCEPT ![o] = one] \/ ops' = [ops EXCEPT ![o] = two]
  OBVIOUS
<1> HIDE DEF one, two
<1>4. ops \in Seq(OpRecord) /\ DOMAIN ops = 1..Len(ops) /\ Len(ops) \in Nat
  BY DEF OpsTyped
<1>5. ops' \in Seq(OpRecord) /\ Len(ops') = Len(ops) /\ DOMAIN ops' = DOMAIN ops
  BY <1>1, <1>2, <1>3, <1>4
<1>6. \A p \in DOMAIN ops : p # o => ops'[p] = ops[p]
  BY <1>3
<1>7. ops'[o] = one \/ ops'[o] = two
  BY <1>3
<1>8. SameRequest(o) /\ ops'[o].catalog = c /\ ops'[o].intent \in {ops[o].intent, "none"}
  BY <1>1, <1>2, <1>7 DEF SameRequest
<1>9. \A p \in DOMAIN ops : SameRequest(p)
  BY <1>6, <1>8 DEF SameRequest
<1> QED
  BY <1>4, <1>5, <1>6, <1>8, <1>9 DEF OpsKept, OpsTyped

(* A request is sent.                                                      *)
LEMMA BegunTyped ==
  ASSUME OpsTyped, table \in Table, view \subseteq Key,
         NEW do \in {"append", "roll", "truncate", "reset"},
         NEW lo \in Nat, NEW hi \in Nat, NEW keys \in Seq(Key),
         Begin(do, lo, hi, keys)
  PROVE  /\ OpsKept /\ Len(ops') = Len(ops) + 1 /\ Len(ops') <= MaxOps
         /\ DOMAIN ops' = DOMAIN ops \cup {Len(ops')} /\ Len(ops') \notin DOMAIN ops
         /\ \A o \in DOMAIN ops : ops'[o] = ops[o]
         /\ Current' = [table |-> table, do |-> do, lo |-> lo, hi |-> hi,
                        keys |-> keys, seen |-> view,
                        intent |-> "PREPARED", catalog |-> "inflight"]
         /\ Current' = ops'[Len(ops')] /\ ops' # <<>> /\ pc' = "commit"
<1> DEFINE new == [table |-> table, do |-> do, lo |-> lo, hi |-> hi,
                   keys |-> keys, seen |-> view,
                   intent |-> "PREPARED", catalog |-> "inflight"]
<1>1. new \in OpRecord
  BY DEF OpRecord
<1>2. ops' = Append(ops, new) /\ Len(ops) < MaxOps /\ pc' = "commit"
  BY DEF Begin, Goto
<1> HIDE DEF new
<1>3. ops \in Seq(OpRecord) /\ DOMAIN ops = 1..Len(ops) /\ Len(ops) \in Nat
  BY DEF OpsTyped
<1>4. /\ ops' \in Seq(OpRecord) /\ Len(ops') = Len(ops) + 1
      /\ DOMAIN ops' = 1..Len(ops) + 1
      /\ ops'[Len(ops) + 1] = new
      /\ \A o \in 1..Len(ops) : ops'[o] = ops[o]
  BY <1>1, <1>2, <1>3
<1>5. Current' = ops'[Len(ops')]
  BY DEF Current
<1>6. ops' # <<>>
  BY <1>3, <1>4, EmptySeq
<1>7. Len(ops') <= MaxOps
  BY <1>2, <1>3, <1>4, CopyAssumption
<1>8. Current' = new
  BY <1>4, <1>5
<1>9. OpsKept
  BY <1>3, <1>4 DEF OpsKept, OpsTyped, SameRequest
<1>10. DOMAIN ops' = DOMAIN ops \cup {Len(ops')} /\ Len(ops') \notin DOMAIN ops
  BY <1>3, <1>4
<1> QED
  BY <1>2, <1>3, <1>4, <1>5, <1>6, <1>7, <1>8, <1>9, <1>10 DEF new

(* What an operation leaves is a count of rows.                            *)
LEMMA EffectTyped ==
  ASSUME NEW op \in OpRecord, NEW rows \in [Key -> Nat]
  PROVE  /\ Effect(op, rows) \in [Key -> Nat]
         /\ op.do \in {"append", "roll"} =>
              \A k \in Key : /\ rows[k] <= Effect(op, rows)[k]
                             /\ k \in Range(op.keys) => 1 <= Effect(op, rows)[k]
<1> DEFINE At(k) == {i \in DOMAIN op.keys : op.keys[i] = k}
<1>1. op.keys \in Seq(Key) /\ Len(op.keys) \in Nat /\ DOMAIN op.keys = 1..Len(op.keys)
  <2>1. op.keys \in Seq(Key)
    BY DEF OpRecord
  <2> QED
    BY <2>1, LenProperties
<1>2. \A k \in Key : IsFiniteSet(At(k)) /\ Cardinality(At(k)) \in Nat
  <2>1. TAKE k \in Key
  <2>2. At(k) \in SUBSET (1..Len(op.keys)) /\ IsFiniteSet(1..Len(op.keys))
    BY <1>1, FS_Interval
  <2>3. IsFiniteSet(At(k))
    BY <2>2, FS_Subset
  <2> QED
    BY <2>3, FS_CardinalityType
<1>3. \A k \in Key : k \in Range(op.keys) => Cardinality(At(k)) # 0
  <2>1. TAKE k \in Key
  <2>2. HAVE k \in Range(op.keys)
  <2>3. At(k) # {}
    BY <2>2 DEF Range
  <2> QED
    BY <1>2, <2>3, FS_EmptySet
<1>4. CASE op.do \in {"truncate", "reset"}
  BY <1>4 DEF Effect
<1>5. CASE op.do \notin {"truncate", "reset"}
  <2>1. Effect(op, rows) = [k \in Key |-> rows[k] + Cardinality(At(k))]
    BY <1>5 DEF Effect
  <2> HIDE DEF At
  <2>2. Effect(op, rows) \in [Key -> Nat]
    BY <1>2, <2>1
  <2>3. \A k \in Key : Effect(op, rows)[k] = rows[k] + Cardinality(At(k)) /\ rows[k] \in Nat
    BY <2>1
  <2>4. \A k \in Key : /\ rows[k] <= Effect(op, rows)[k]
                       /\ k \in Range(op.keys) => 1 <= Effect(op, rows)[k]
    BY <1>2, <1>3, <2>3
  <2> QED
    BY <2>2, <2>4
<1> QED
  BY <1>4, <1>5

(* The table that follows.                                                 *)
LEMMA TableFollows ==
  ASSUME table \in Table
  PROVE  /\ FollowingTable \in Table
         /\ ~LastTable => FollowingTable = table + 1
         /\ LastTable => FollowingTable = 1
<1>1. Tables \in Nat \ {0} /\ table \in Nat \ {0} /\ table <= Tables
  BY CopyAssumption DEF Table
<1>2. Tables % Tables = 0
  <2>1. Tables * 1 = Tables /\ (Tables * 1) % Tables = 0
    BY <1>1, MultipleRest
  <2> QED
    BY <2>1
<1>3. ASSUME table < Tables
      PROVE  table % Tables = table
  <2> DEFINE p == table \div Tables
             r == table % Tables
  <2>1. p \in Nat /\ r \in 0..Tables - 1 /\ table = Tables * p + r
    BY <1>1, Division
  <2>2. ASSUME p # 0
        PROVE  FALSE
    <3>1. PICK d \in Nat : p = 1 + d
      BY <2>1, <2>2, p - 1 \in Nat
    <3>2. Tables * p = Tables + Tables * d /\ Tables * d \in Nat
      BY <1>1, <3>1
    <3> HIDE DEF p, r
    <3> QED
      BY <1>1, <1>3, <2>1, <3>2
  <2>3. p = 0 /\ Tables * 0 = 0
    BY <1>1, <2>2
  <2> HIDE DEF p, r
  <2>4. table = r
    BY <1>1, <2>1, <2>3
  <2> QED
    BY <2>4 DEF r
<1> QED
  BY <1>1, <1>2, <1>3 DEF FollowingTable, LastTable, Table

(* The rows of a batch are of the table, after the cursor.                 *)
LEMMA ChunkRead ==
  ASSUME TypeOK, Remaining # <<>>
  PROVE  /\ SnapshotQuery \in Seq(Key) /\ SnapshotQuery # <<>>
         /\ Len(SnapshotQuery) \in Nat \ {0}
         /\ Last(SnapshotQuery) \in Key /\ Last(SnapshotQuery) > cursor
<1>1. view \subseteq Key /\ cursor \in Key \cup {NoKey}
  BY DEF TypeOK
<1>2. /\ SnapshotQuery \in Seq(Left) /\ Len(SnapshotQuery) \in 1..Len(Remaining)
      /\ Remaining \in Seq(Left)
  BY <1>1, QueryRows
<1>3. Left \subseteq Key /\ \A k \in Left : k > cursor
  BY <1>1 DEF Left
<1>4. SnapshotQuery \in Seq(Key)
  BY <1>2, <1>3, SeqMonotonic
<1>5. Len(SnapshotQuery) \in Nat \ {0}
  BY <1>2
<1>6. Last(SnapshotQuery) \in Left
  BY <1>2, <1>5 DEF Last
<1>7. SnapshotQuery # <<>>
  BY <1>5, EmptySeq
<1> QED
  BY <1>3, <1>4, <1>5, <1>6, <1>7

(* A batch in work has a last row.                                         *)
LEMMA ChunkEnds ==
  ASSUME TypeOK, ChunkPlace, Writing
  PROVE  /\ chunk \in Seq(Key) /\ Len(chunk) \in Nat \ {0}
         /\ Last(chunk) \in Key /\ Last(chunk) > cursor
<1>1. chunk \in Seq(Key) /\ chunk # <<>>
  BY DEF TypeOK, ChunkPlace
<1>2. Len(chunk) \in Nat \ {0}
  BY <1>1, EmptySeq
<1> QED
  BY <1>1, <1>2 DEF Last, ChunkPlace

(* The piece that comes next.                                              *)
LEMMA HeadTyped ==
  ASSUME TypeOK, todo # <<>>
  PROVE  /\ Head(todo) \in Piece /\ Tail(todo) \in Seq(Piece)
         /\ Head(todo).lo \in Nat /\ PieceEnd(Head(todo)) \in Nat
         /\ Head(todo).keys \in Seq(Key)
<1>1. todo \in Seq(Piece)
  BY DEF TypeOK
<1>2. Head(todo) \in Piece /\ Tail(todo) \in Seq(Piece)
  BY <1>1, HeadTailProperties
<1>3. Head(todo).lo \in Nat /\ Head(todo).keys \in Seq(Key)
  BY <1>2 DEF Piece
<1>4. Len(Head(todo).keys) \in Nat
  BY <1>3, LenProperties
<1> QED
  BY <1>2, <1>3, <1>4 DEF PieceEnd

\* What the operations must be for TypeOK.
OpsFit == ops \in Seq(OpRecord) /\ Len(ops) <= MaxOps

(* Requests are kept and their number is: the types of the operations.     *)
LEMMA FitKept ==
  ASSUME TypeOK, OpsKept, Len(ops') = Len(ops)
  PROVE  OpsFit'
  BY DEF TypeOK, OpsKept, OpsTyped, OpsFit

(* A truncate leaves types as they are.                                    *)
LEMMA TruncateTyped ==
  ASSUME TypeOK, NEW lo \in Nat, NEW hi \in Nat, TruncateFirst(lo, hi)
  PROVE  /\ OpsFit' /\ OpsKept
         /\ target' \in [Table -> [Key -> Nat]] /\ truncated' \subseteq Table
         /\ pc' \in {pc, "commit"}
         /\ weak' \subseteq {"shifted", "appended", "deleted", "wiped"}
<1>0. OpsTyped /\ table \in Table /\ view \subseteq Key /\ <<>> \in Seq(Key)
  BY EmptySeq DEF TypeOK, OpsTyped
<1>a. weak' \subseteq {"shifted", "appended", "deleted", "wiped"}
  <2>1. weak' = weak \cup {w \in {"wiped"} : \E o \in receipts : ops[o].table = table}
    BY DEF TruncateFirst
  <2> QED
    BY <2>1 DEF TypeOK
<1>1. CASE conf.trino
  <2>1. ops' = ops /\ pc' = pc
    BY <1>1 DEF TruncateFirst
  <2>2. [k \in Key |-> 0] \in [Key -> Nat]
    OBVIOUS
  <2>3. target' \in [Table -> [Key -> Nat]] /\ truncated' \subseteq Table
    <3>1. /\ target' = [target EXCEPT ![table] = [k \in Key |-> 0]]
          /\ truncated' = truncated \cup {table}
      BY <1>1 DEF TruncateFirst
    <3> QED
      BY <1>0, <2>2, <3>1 DEF TypeOK
  <2>4. OpsKept /\ OpsFit'
    BY <1>0, <2>1, KeptTyped, FitKept
  <2> QED
    BY <1>a, <2>1, <2>3, <2>4
<1>2. CASE ~conf.trino
  <2>1. Begin("truncate", lo, hi, <<>>) /\ UNCHANGED <<target, truncated>>
    BY <1>2 DEF TruncateFirst
  <2>2. OpsKept /\ Len(ops') <= MaxOps /\ pc' = "commit"
    BY <1>0, <2>1, BegunTyped
  <2> QED
    BY <1>a, <2>1, <2>2 DEF TypeOK, OpsKept, OpsTyped, OpsFit
<1> QED
  BY <1>1, <1>2

(* Saved progress is of a table.                                           *)
LEMMA SaveTyped ==
  ASSUME TypeOK, NEW next \in Nat, NEW cur \in Key \cup {NoKey},
         SaveSnapshotProgress(next, cur)
  PROVE  /\ OpsFit' /\ OpsKept /\ Len(ops') = Len(ops) /\ DOMAIN ops' = DOMAIN ops
         /\ progress' = Saved(next, cur)
         /\ progress' \in [table : Table, next : Nat, cursor : Key \cup {NoKey}]
<1>1. OpsTyped /\ table \in Table
  BY DEF TypeOK, OpsTyped
<1>2. ops' = SetIntents(Accounted(next), "none")
  BY DEF SaveSnapshotProgress
<1>3. OpsKept /\ Len(ops') = Len(ops) /\ DOMAIN ops' = DOMAIN ops
  BY <1>1, <1>2, SettledTyped
<1>4. progress' = Saved(next, cur)
  BY DEF SaveSnapshotProgress
<1> QED
  BY <1>1, <1>3, <1>4, FitKept DEF Saved

(* An answer settles the intent of the current request.                    *)
LEMMA AnsweredTyped ==
  ASSUME TypeOK, NEW do, Answered(do)
  PROVE  OpsFit' /\ OpsKept /\ Len(ops') = Len(ops) /\ DOMAIN ops' = DOMAIN ops
<1>1. OpsTyped
  BY DEF TypeOK, OpsTyped
<1>2. \/ ops' = SetIntents({Len(ops)}, "none")
      \/ ops' = SetIntents({Len(ops)}, "COMMITTED")
  BY DEF Answered
<1> QED
  BY <1>1, <1>2, SettledTyped, FitKept

(* Every step keeps the types.                                             *)
LEMMA TypeStep ==
  ASSUME TypeOK, ChunkPlace, CommitPlace, [Next]_vars
  PROVE  TypeOK'
<1> USE DEF Goto, sourceVars, durableVars, tableVars, sinkVars
<1>0. OpsTyped /\ OpsFit /\ table \in Table /\ view \subseteq Key
  BY DEF TypeOK, OpsTyped, OpsFit
<1>a. Tables \in Nat \ {0} /\ 1 \in Table /\ MaxOps \in Nat /\ 0 \in Nat
  BY CopyAssumption DEF Table
<1>b. <<>> \in Seq(Key) /\ <<>> \in Seq(Piece) /\ [t \in Table |-> <<>>] \in [Table -> Seq(Key)]
  BY EmptySeq
<1>c. DOMAIN ops \subseteq Op
  BY <1>0, <1>a DEF OpsFit, Op
<1>1. ASSUME RunStep
      PROVE  TypeOK'
  <2>1. ASSUME NEW o \in DOMAIN ops, RecoverOne(o)
        PROVE  TypeOK'
    <3>1. ops' = SetIntents({o}, "none") \/ ops' = SetIntents({o}, "COMMITTED")
      BY <2>1 DEF RecoverOne
    <3>2. OpsFit'
      BY <1>0, <3>1, SettledTyped, FitKept
    <3>3. receipts' \subseteq Op
      BY <1>c, <2>1 DEF RecoverOne, TypeOK
    <3> QED
      BY <2>1, <3>2, <3>3 DEF RecoverOne, TypeOK, OpsFit
  <2>2. ASSUME RecoverDone
        PROVE  TypeOK'
    BY <2>2 DEF RecoverDone, TypeOK
  <2>3. ASSUME EnsureTables
        PROVE  TypeOK'
    <3>1. AppendSafe \subseteq Table
      BY DEF AppendSafe
    <3> QED
      BY <2>3, <3>1 DEF EnsureTables, TypeOK
  <2>4. ASSUME ResetInitialCheckpoint
        PROVE  TypeOK'
    BY <2>4 DEF ResetInitialCheckpoint, TypeOK
  <2>5. ASSUME BeginSnapshot
        PROVE  TypeOK'
    BY <2>5, <1>b DEF BeginSnapshot, StartBarrier, CapturePosition, TypeOK
  <2>6. ASSUME ResumeSnapshot
        PROVE  TypeOK'
    BY <2>6, <1>b DEF ResumeSnapshot, StartBarrier, TypeOK
  <2>7. ASSUME ResumeConfirmed
        PROVE  TypeOK'
    BY <2>7 DEF ResumeConfirmed, TypeOK
  <2>8. ASSUME PlanTables
        PROVE  TypeOK'
    <3>1. SavedPlan \in [table : Table, next : Nat, cursor : Key \cup {NoKey}]
      BY <1>a DEF SavedPlan, TypeOK
    <3>2. /\ SavedPlan.table \in Table /\ SavedPlan.next \in Nat
          /\ SavedPlan.cursor \in Key \cup {NoKey}
      BY <3>1
    <3> QED
      BY <2>8, <3>2 DEF PlanTables, TypeOK
  <2>9. ASSUME ReadChunk
        PROVE  TypeOK'
    <3>1. Remaining # <<>> /\ chunk' = SnapshotQuery
      BY <2>9 DEF ReadChunk
    <3>2. SnapshotQuery \in Seq(Key)
      BY <3>1, ChunkRead
    <3>3. emitted \in Nat /\ conf.split \in Nat \ {0}
      BY ConfAssumption DEF TypeOK, Conf
    <3>4. Pieces(SnapshotQuery) \in Seq(Piece)
      BY <3>2, <3>3, PiecesOf
    <3>5. todo' \in Seq(Piece)
      BY <1>b, <2>9, <3>4 DEF ReadChunk
    <3>6. pc' \in {"ack", "spool", "batch"}
      BY <2>9 DEF ReadChunk
    <3> QED
      BY <2>9, <3>1, <3>2, <3>5, <3>6 DEF ReadChunk, TypeOK
  <2>10. ASSUME TableRead
        PROVE  TypeOK'
    BY <1>0, <2>10, TableFollows DEF TableRead, NextTable, TypeOK
  <2>11. ASSUME DeleteKeys
        PROVE  TypeOK'
    <3>1. target' \in [Table -> [Key -> Nat]]
      BY <1>0, <1>a, <2>11 DEF DeleteKeys, TypeOK
    <3> QED
      BY <2>11, <3>1 DEF DeleteKeys, TypeOK
  <2>12. ASSUME BatchWritten
        PROVE  TypeOK'
    BY <2>12 DEF BatchWritten, TypeOK
  <2>13. ASSUME SpoolChunk
        PROVE  TypeOK'
    <3>1. SpoolBefore \in Seq(Key) /\ chunk \in Seq(Key)
      BY <1>0, <1>b DEF SpoolBefore, TypeOK
    <3>2. SpoolBefore \o chunk \in Seq(Key)
      BY <3>1, ConcatProperties
    <3>3. spool' \in [Table -> Seq(Key)]
      BY <1>0, <2>13, <3>2 DEF SpoolChunk, TypeOK
    <3> QED
      BY <2>13, <3>3 DEF SpoolChunk, TypeOK
  <2>14. ASSUME ConfirmCompletion
        PROVE  TypeOK'
    BY <2>14 DEF ConfirmCompletion, TypeOK
  <2>15. ASSUME ClearProgress
        PROVE  TypeOK'
    BY <2>15 DEF ClearProgress, TypeOK
  <2>16. ASSUME ResetTarget
        PROVE  TypeOK'
    <3>1. Begin("reset", 0, 0, <<>>)
      BY <2>16 DEF ResetTarget
    <3>2. OpsFit' /\ pc' = "commit"
      BY <1>0, <1>a, <1>b, <3>1, BegunTyped DEF OpsKept, OpsTyped, OpsFit
    <3> QED
      BY <2>16, <3>2 DEF ResetTarget, TypeOK, OpsFit
  <2>17. ASSUME OpenTable
        PROVE  TypeOK'
    <3>1. /\ OpsFit' /\ progress' \in [table : Table, next : Nat, cursor : Key \cup {NoKey}]
      BY <2>17, SaveTyped DEF OpenTable, TypeOK
    <3>2. view' \subseteq Key /\ rolling' \in BOOLEAN
      BY <1>0, <2>17, ConfAssumption DEF OpenTable, ConsistentView, TypeOK, Conf
    <3> QED
      BY <2>17, <3>1, <3>2 DEF OpenTable, TypeOK, OpsFit
  <2>18. ASSUME RolledSaved
        PROVE  TypeOK'
    <3>1. /\ OpsFit' /\ progress' \in [table : Table, next : Nat, cursor : Key \cup {NoKey}]
      BY <2>18, SaveTyped DEF RolledSaved, TypeOK
    <3> QED
      BY <1>0, <1>a, <2>18, <3>1, TableFollows DEF RolledSaved, NextTable, TypeOK, OpsFit
  <2>19. ASSUME Acknowledged
        PROVE  TypeOK'
    <3>1. Len(chunk) \in Nat \ {0} /\ Last(chunk) \in Key
      BY <2>19, ChunkEnds DEF Acknowledged, Writing
    <3>2. emitted + Len(chunk) \in Nat
      BY <3>1 DEF TypeOK
    <3>3. /\ OpsFit'
          /\ progress' = progress \/ progress' \in [table : Table, next : Nat, cursor : Key \cup {NoKey}]
      <4>1. CASE BatchSaves
        BY <2>19, <3>1, <3>2, <4>1, SaveTyped DEF Acknowledged
      <4>2. CASE ~BatchSaves
        BY <1>0, <2>19, <4>2 DEF Acknowledged, OpsFit
      <4> QED
        BY <4>1, <4>2
    <3> QED
      BY <1>b, <2>19, <3>1, <3>2, <3>3 DEF Acknowledged, TypeOK, OpsFit
  <2>20. ASSUME TableRolled
        PROVE  TypeOK'
    <3>1. CASE spool[table] = <<>>
      BY <2>20, <3>1 DEF TableRolled, TypeOK
    <3>2. CASE spool[table] # <<>>
      <4>1. Begin("roll", 0, emitted, spool[table])
        BY <2>20, <3>2 DEF TableRolled
      <4>2. emitted \in Nat /\ spool[table] \in Seq(Key)
        BY <1>0 DEF TypeOK
      <4>3. OpsFit' /\ pc' = "commit"
        BY <1>0, <1>a, <4>1, <4>2, BegunTyped DEF OpsKept, OpsTyped, OpsFit
      <4> QED
        BY <2>20, <4>3 DEF TableRolled, TypeOK, OpsFit
    <3> QED
      BY <3>1, <3>2
  <2>21. ASSUME TruncateForBatch
        PROVE  TypeOK'
    <3>1. TruncateFirst(Head(todo).lo, PieceEnd(Head(todo))) /\ todo # <<>>
      BY <2>21 DEF TruncateForBatch
    <3>2. Head(todo).lo \in Nat /\ PieceEnd(Head(todo)) \in Nat
      BY <3>1, HeadTyped
    <3>3. /\ OpsFit' /\ target' \in [Table -> [Key -> Nat]] /\ truncated' \subseteq Table
          /\ pc' \in {pc, "commit"}
          /\ weak' \subseteq {"shifted", "appended", "deleted", "wiped"}
      BY <3>1, <3>2, TruncateTyped
    <3> QED
      BY <2>21, <3>3 DEF TruncateForBatch, TypeOK, OpsFit
  <2>22. ASSUME TruncateForSpool
        PROVE  TypeOK'
    <3>1. TruncateFirst(emitted, emitted + Len(chunk))
      BY <2>22 DEF TruncateForSpool
    <3>2. emitted \in Nat /\ emitted + Len(chunk) \in Nat
      <4>1. Len(chunk) \in Nat
        BY LenProperties DEF TypeOK
      <4> QED
        BY <4>1 DEF TypeOK
    <3>3. /\ OpsFit' /\ target' \in [Table -> [Key -> Nat]] /\ truncated' \subseteq Table
          /\ pc' \in {pc, "commit"}
          /\ weak' \subseteq {"shifted", "appended", "deleted", "wiped"}
      BY <3>1, <3>2, TruncateTyped
    <3> QED
      BY <2>22, <3>3 DEF TruncateForSpool, TypeOK, OpsFit
  <2>23. ASSUME AppendPiece
        PROVE  TypeOK'
    <3>1. Begin("append", Head(todo).lo, PieceEnd(Head(todo)), Head(todo).keys) /\ todo # <<>>
      BY <2>23 DEF AppendPiece
    <3>2. OpsFit' /\ pc' = "commit"
      BY <1>0, <3>1, HeadTyped, BegunTyped DEF OpsKept, OpsTyped, OpsFit
    <3> QED
      BY <2>23, <3>2 DEF AppendPiece, TypeOK, OpsFit
  <2>24. ASSUME AppendAnswered
        PROVE  TypeOK'
    <3>1. Answered("append") /\ todo # <<>>
      BY <2>24 DEF AppendAnswered, Answered, CommitPlace
    <3>2. OpsFit' /\ Tail(todo) \in Seq(Piece)
      BY <3>1, AnsweredTyped, HeadTyped
    <3> QED
      BY <2>24, <3>2 DEF AppendAnswered, Answered, TypeOK, OpsFit
  <2>25. ASSUME TruncateAnswered
        PROVE  TypeOK'
    <3>1. OpsFit'
      BY <2>25, AnsweredTyped DEF TruncateAnswered
    <3> QED
      BY <1>0, <2>25, <3>1 DEF TruncateAnswered, Answered, TypeOK, OpsFit
  <2>26. ASSUME ResetAnswered
        PROVE  TypeOK'
    <3>1. OpsFit'
      BY <2>26, AnsweredTyped DEF ResetAnswered
    <3> QED
      BY <1>0, <2>26, <3>1, TableFollows DEF ResetAnswered, Answered, TypeOK, OpsFit
  <2>27. ASSUME RollAnswered
        PROVE  TypeOK'
    <3>1. OpsFit'
      BY <2>27, AnsweredTyped DEF RollAnswered
    <3>2. spool' \in [Table -> Seq(Key)]
      BY <1>0, <1>b, <2>27 DEF RollAnswered, TypeOK
    <3> QED
      BY <2>27, <3>1, <3>2 DEF RollAnswered, Answered, TypeOK, OpsFit
  <2> QED
    BY <1>1, <2>1, <2>2, <2>3, <2>4, <2>5, <2>6, <2>7, <2>8, <2>9, <2>10,
       <2>11, <2>12, <2>13, <2>14, <2>15, <2>16, <2>17, <2>18, <2>19, <2>20,
       <2>21, <2>22, <2>23, <2>24, <2>25, <2>26, <2>27
       DEF RunStep
<1>2. ASSUME NEW t \in Table, NEW k \in Key, Change(t, k)
      PROVE  TypeOK'
  <2>1. changes' \in 0..MaxChanges
    BY <1>2, CopyAssumption DEF Change, TypeOK
  <2>2. src' \in [Table -> SUBSET Key] /\ touched' \subseteq Table \X Key
    BY <1>2 DEF Change, TypeOK
  <2> QED
    <3>1. UNCHANGED <<conf, durableVars, ops, target, run, fresh, pc, tableVars, sinkVars, retries, weak>>
      BY <1>2 DEF Change
    <3> QED
      BY <2>1, <2>2, <3>1 DEF TypeOK, durableVars, tableVars, sinkVars
<1>3. ASSUME NEW o \in DOMAIN ops, CatalogAccepts(o)
      PROVE  TypeOK'
  <2>1. OpsFit'
    BY <1>0, <1>3, RequestTyped, FitKept DEF CatalogAccepts
  <2>0. ops[o] \in OpRecord
    BY <1>0 DEF OpsTyped
  <2>2. ops[o] \in OpRecord /\ ops[o].table \in Table
    BY <2>0 DEF OpRecord
  <2>3. target[ops[o].table] \in [Key -> Nat]
    BY <2>2 DEF TypeOK
  <2>4. Effect(ops[o], target[ops[o].table]) \in [Key -> Nat]
    BY <2>2, <2>3, EffectTyped
  <2>5. target' \in [Table -> [Key -> Nat]]
    BY <1>3, <2>2, <2>4 DEF CatalogAccepts, TypeOK
  <2>6. UNCHANGED <<conf, sourceVars, durableVars, run, fresh, pc, tableVars, sinkVars,
                    retries, weak>>
    BY <1>3 DEF CatalogAccepts
  <2> QED
    BY <2>1, <2>5, <2>6 DEF TypeOK, OpsFit
<1>4. ASSUME NEW o \in DOMAIN ops, CatalogLoses(o)
      PROVE  TypeOK'
  <2>1. OpsFit'
    BY <1>0, <1>4, RequestTyped, FitKept DEF CatalogLoses
  <2>2. UNCHANGED <<conf, sourceVars, durableVars, run, fresh, pc, tableVars, sinkVars,
                    retries, weak>>
        /\ UNCHANGED target
    BY <1>4 DEF CatalogLoses
  <2> QED
    BY <2>1, <2>2 DEF TypeOK, OpsFit
<1>5. ASSUME NEW initial \in BOOLEAN, StartRun(initial)
      PROVE  TypeOK'
  <2>1. run' \in 0..MaxRuns
    BY <1>5, CopyAssumption DEF StartRun, TypeOK
  <2>2. rebuild' \in BOOLEAN
    BY <1>5 DEF StartRun, TypeOK
  <2> QED
    BY <1>5, <2>1, <2>2 DEF StartRun, TypeOK
<1>6. ASSUME Rebuild
      PROVE  TypeOK'
  <2>1. OpsFit'
    BY <1>0, <1>6, SettledTyped, FitKept DEF Rebuild
  <2> QED
    BY <1>6, <2>1 DEF Rebuild, TypeOK, OpsFit
<1>7. ASSUME SourceRetry
      PROVE  TypeOK'
  <2>1. retries' \in 0..MaxRetries
    BY <1>7, CopyAssumption DEF SourceRetry, TypeOK
  <2>2. \/ progress' = progress
        \/ progress' \in [table : Table, next : Nat, cursor : Key \cup {NoKey}]
    <3>1. CASE pc = "ack" /\ progress' = Saved(emitted + Len(chunk), Last(chunk))
      <4>1. Last(chunk) \in Key /\ Len(chunk) \in Nat /\ emitted \in Nat
        <5>1. Last(chunk) \in Key /\ Len(chunk) \in Nat
          BY <3>1, ChunkEnds DEF Writing
        <5> QED
          BY <5>1 DEF TypeOK
      <4> QED
        BY <1>0, <3>1, <4>1 DEF Saved
    <3>2. CASE progress' = Saved(emitted, cursor)
      BY <1>0, <3>2 DEF Saved, TypeOK
    <3> QED
      BY <1>7, <3>1, <3>2 DEF SourceRetry
  <2>3. weak' \subseteq {"shifted", "appended", "deleted", "wiped"}
    BY <1>7 DEF SourceRetry, TypeOK
  <2> QED
    BY <1>7, <1>b, <2>1, <2>2, <2>3 DEF SourceRetry, TypeOK
<1>8. ASSUME CommitRejected
      PROVE  TypeOK'
  <2>1. Len(ops) \in DOMAIN ops
    BY <1>0, <1>8, EmptySeq DEF CommitRejected, CommitPlace, OpsTyped
  <2>2. OpsFit'
    BY <1>0, <1>8, <2>1, RequestTyped, FitKept DEF CommitRejected
  <2> QED
    BY <1>8, <2>2 DEF CommitRejected, TypeOK, OpsFit
<1>9. ASSUME RunRefused
      PROVE  TypeOK'
  BY <1>9, <1>a, <1>b DEF RunRefused, EndRun, TypeOK
<1>10. ASSUME RunEnds
      PROVE  TypeOK'
  BY <1>10, <1>a, <1>b DEF RunEnds, EndRun, TypeOK
<1>11. ASSUME UNCHANGED vars
      PROVE  TypeOK'
  BY <1>11 DEF vars, TypeOK
<1> QED
  BY <1>1, <1>2, <1>3, <1>4, <1>5, <1>6, <1>7, <1>8, <1>9, <1>10, <1>11
     DEF Next

-----------------------------------------------------------------------------
(* Progress *)

\* Targets are reset, and the state of the snapshot with them, before a
\* snapshot starts; it is confirmed before its progress is cleared.
ResetsFirst ==
  /\ pc \in {"recover", "ensure"} /\ fresh /\ rebuild => snap = "none"
  /\ pc = "reset" => snap = "none"
  /\ pc = "commit" /\ Current.do = "reset" => snap = "none"
  /\ pc \in {"clear", "done"} => snap = "confirmed"

\* Where the run copies a table; the table is at or after the saved progress.
Copying == {"open", "read", "batch", "append", "spool", "commit", "ack", "rolled"}
Behind(p, t, next, cur) ==
  \/ p.table < t
  \/ p.table = t /\ p.next <= next /\ p.cursor <= cur
Ahead ==
  snap = "started" /\ pc \in Copying => Behind(progress, table, emitted, cursor)

PlaceInv == TypeOK /\ ChunkPlace /\ CommitPlace /\ ResetsFirst /\ Ahead

\* What ProgressAdvances says of a step.
ProgressStep ==
  snap = "started" /\ snap' = "started" /\ progress # NoProgress =>
    Behind(progress, progress'.table, progress'.next, progress'.cursor)

PlaceNext == ChunkPlace' /\ CommitPlace' /\ ResetsFirst' /\ Ahead' /\ ProgressStep

(* Progress is numbers.                                                    *)
LEMMA ProgressTyped ==
  ASSUME TypeOK
  PROVE  /\ progress.table \in Nat /\ progress.next \in Nat /\ progress.cursor \in Nat
         /\ table \in Nat /\ emitted \in Nat /\ cursor \in Nat
         /\ NoProgress.table = 0
<1>1. Table \subseteq Nat /\ Key \cup {NoKey} \subseteq Nat
  BY DEF Table, Key, NoKey
<1>2. table \in Nat /\ emitted \in Nat /\ cursor \in Nat
  BY <1>1 DEF TypeOK
<1>3. CASE progress = NoProgress
  BY <1>2, <1>3 DEF NoProgress, NoKey
<1>4. CASE progress \in [table : Table, next : Nat, cursor : Key \cup {NoKey}]
  BY <1>1, <1>2, <1>4 DEF NoProgress
<1> QED
  BY <1>3, <1>4 DEF TypeOK

(* A step that leaves the place alone.                                     *)
LEMMA PlaceKept ==
  ASSUME PlaceInv,
         UNCHANGED <<snap, progress, rebuild, fresh, pc, table, emitted, cursor, chunk, todo>>,
         OpsKept, Len(ops') = Len(ops)
  PROVE  PlaceNext
<1>1. pc = "commit" => /\ ops # <<>> /\ Len(ops) \in DOMAIN ops
  <2>1. pc = "commit" => ops # <<>>
    BY DEF PlaceInv, CommitPlace
  <2> QED
    BY <2>1, EmptySeq DEF PlaceInv, TypeOK
<1>2. pc = "commit" => Current'.do = Current.do /\ Current'.table = Current.table
  BY <1>1 DEF OpsKept, SameRequest, Current
<1>3. pc = "commit" => ops' # <<>>
  BY <1>1, EmptySeq DEF OpsKept, OpsTyped
<1>4. /\ Writing' <=> Writing
      /\ Handing' <=> Handing
  BY <1>2 DEF Writing, Handing
<1>5. ChunkPlace' /\ CommitPlace'
  BY <1>2, <1>3, <1>4 DEF PlaceInv, ChunkPlace, CommitPlace
<1>6. ResetsFirst'
  BY <1>2 DEF PlaceInv, ResetsFirst
<1>7. Ahead' /\ ProgressStep
  BY ProgressTyped DEF PlaceInv, Ahead, Behind, ProgressStep
<1> QED
  BY <1>5, <1>6, <1>7 DEF PlaceNext

(* The run goes to a place where nothing is in work, and the progress      *)
(* stays what it is.                                                       *)
LEMMA PlaceIdle ==
  ASSUME PlaceInv, UNCHANGED progress, chunk' = <<>>, todo' = <<>>,
         pc' \notin {"batch", "append", "spool", "ack", "commit"} \cup Copying,
         ResetsFirst'
  PROVE  PlaceNext
<1>1. ~Writing' /\ ~Handing'
  BY DEF Writing, Handing
<1>2. ChunkPlace' /\ CommitPlace' /\ Ahead'
  BY <1>1 DEF ChunkPlace, CommitPlace, Ahead
<1>3. ProgressStep
  BY ProgressTyped DEF PlaceInv, ProgressStep, Behind
<1> QED
  BY <1>2, <1>3 DEF PlaceNext

(* A request is sent for the current table.                                *)
LEMMA PlaceBegun ==
  ASSUME PlaceInv,
         NEW do \in {"append", "roll", "truncate", "reset"},
         NEW lo \in Nat, NEW hi \in Nat, NEW keys \in Seq(Key),
         Begin(do, lo, hi, keys),
         UNCHANGED <<snap, progress, rebuild, fresh, table, emitted, cursor, chunk, todo>>,
         IF do \in {"append", "truncate"} THEN Writing ELSE ~Writing,
         do = "append" => todo # <<>>,
         IF do = "reset" THEN snap = "none" ELSE pc \in Copying
  PROVE  PlaceNext
<1>1. OpsTyped /\ table \in Table /\ view \subseteq Key
  BY DEF PlaceInv, TypeOK, OpsTyped
<1>2. /\ Current'.do = do /\ Current'.table = table
      /\ ops' # <<>> /\ pc' = "commit"
  BY <1>1, BegunTyped
<1>3. /\ Writing' <=> Writing
      /\ Handing => Handing'
  BY <1>2 DEF Writing, Handing
<1>4. ChunkPlace' /\ CommitPlace'
  BY <1>2, <1>3 DEF PlaceInv, ChunkPlace, CommitPlace
<1>5. ResetsFirst' /\ Ahead'
  BY <1>2 DEF PlaceInv, ResetsFirst, Ahead, Behind
<1>6. ProgressStep
  BY ProgressTyped DEF PlaceInv, ProgressStep, Behind
<1> QED
  BY <1>4, <1>5, <1>6 DEF PlaceNext

(* The run goes to a place of the same work.                               *)
LEMMA PlaceMoved ==
  ASSUME PlaceInv, pc' # "commit",
         UNCHANGED <<snap, progress, rebuild, fresh, table, emitted, cursor, chunk>>,
         todo' # <<>> => pc' \in {"batch", "append"},
         IF Writing THEN pc' \in {"batch", "append", "spool", "ack"}
         ELSE pc' \notin {"batch", "append", "spool", "ack"},
         pc' \in Copying => pc \in Copying,
         ResetsFirst'
  PROVE  PlaceNext
<1>1. /\ Writing' <=> Writing
      /\ pc' \in {"batch", "append"} => Handing'
  BY DEF Writing, Handing
<1>2. ChunkPlace' /\ CommitPlace'
  BY <1>1 DEF PlaceInv, ChunkPlace, CommitPlace
<1>3. Ahead'
  BY DEF PlaceInv, Ahead, Behind
<1>4. ProgressStep
  BY ProgressTyped DEF PlaceInv, ProgressStep, Behind
<1> QED
  BY <1>2, <1>3, <1>4 DEF PlaceNext

(* The table is done, and the run goes to the next one or to its end.      *)
LEMMA PlaceNextTable ==
  ASSUME PlaceInv, pc \in {"read", "rolled"}, NextTable,
         UNCHANGED <<snap, chunk, todo>>,
         \/ UNCHANGED progress
         \/ progress' = Saved(emitted, cursor)
  PROVE  PlaceNext
<1>1. ~Writing /\ ~Writing' /\ ~Handing
  BY DEF Writing, Handing, NextTable, Goto
<1>2. ChunkPlace' /\ CommitPlace' /\ ResetsFirst'
  BY <1>1 DEF PlaceInv, ChunkPlace, CommitPlace, ResetsFirst, NextTable, Goto
<1>3. /\ progress.table \in Nat /\ progress.next \in Nat /\ progress.cursor \in Nat
      /\ table \in Nat /\ emitted \in Nat /\ cursor \in Nat
      /\ table \in Table
  BY ProgressTyped DEF PlaceInv, TypeOK
<1>4. snap = "started" => Behind(progress, table, emitted, cursor)
  BY DEF PlaceInv, Ahead, Copying
<1>5. snap = "started" /\ pc' \in Copying => table' = table + 1
  BY <1>3, TableFollows DEF NextTable, Goto, Copying
<1>6. snap = "started" => progress'.table <= table
  BY <1>3, <1>4 DEF Behind, Saved
<1>7. progress'.table \in Nat
  BY <1>3 DEF Saved
<1>8. Ahead'
  BY <1>3, <1>5, <1>6, <1>7 DEF Ahead, Behind
<1>9. ProgressStep
  BY <1>3, <1>4 DEF ProgressStep, Behind, Saved
<1> QED
  BY <1>2, <1>8, <1>9 DEF PlaceNext

(* Every step of a run keeps the places.                                   *)
LEMMA PlaceRunStep ==
  ASSUME PlaceInv, RunStep
  PROVE  PlaceNext
<1> USE DEF Goto, sourceVars, durableVars, tableVars, sinkVars
<1>0. /\ TypeOK /\ OpsTyped /\ table \in Table /\ view \subseteq Key
      /\ ChunkPlace /\ CommitPlace
  BY DEF PlaceInv, TypeOK, OpsTyped
<1>a. <<>> \in Seq(Key) /\ 0 \in Nat
  BY EmptySeq
<1>1. ASSUME NEW o \in DOMAIN ops, RecoverOne(o)
      PROVE  PlaceNext
  <2>1. ops' = SetIntents({o}, "none") \/ ops' = SetIntents({o}, "COMMITTED")
    BY <1>1 DEF RecoverOne
  <2>2. OpsKept /\ Len(ops') = Len(ops)
    BY <1>0, <2>1, SettledTyped
  <2> QED
    BY <1>1, <2>2, PlaceKept DEF RecoverOne
<1>2. ASSUME RecoverDone
      PROVE  PlaceNext
  BY <1>2, PlaceMoved
     DEF RecoverDone, PlaceInv, ResetsFirst, Writing, Handing, ChunkPlace, Copying
<1>3. ASSUME EnsureTables
      PROVE  PlaceNext
  BY <1>3, PlaceMoved
     DEF EnsureTables, PlaceInv, ResetsFirst, Writing, Handing, ChunkPlace, Copying
<1>4. ASSUME ResetInitialCheckpoint
      PROVE  PlaceNext
  <2>1. ~Writing /\ ~Writing' /\ ~Handing /\ snap' = "none" /\ pc' = "capture"
    BY <1>4 DEF ResetInitialCheckpoint, Writing, Handing
  <2>2. ChunkPlace' /\ CommitPlace' /\ ResetsFirst' /\ Ahead'
    BY <1>0, <1>4, <2>1 DEF ResetInitialCheckpoint, ChunkPlace, CommitPlace,
       ResetsFirst, Ahead
  <2> QED
    BY <2>1, <2>2 DEF PlaceNext, ProgressStep
<1>5. ASSUME BeginSnapshot
      PROVE  PlaceNext
  <2>1. ~Writing /\ ~Writing' /\ ~Handing /\ pc' = "plan" /\ progress' = progress
    BY <1>5 DEF BeginSnapshot, StartBarrier, Writing, Handing
  <2>2. ChunkPlace' /\ CommitPlace' /\ ResetsFirst' /\ Ahead'
    BY <1>0, <1>5, <2>1 DEF BeginSnapshot, ChunkPlace, CommitPlace,
       ResetsFirst, Ahead, Copying
  <2>3. ProgressStep
    BY <1>0, <2>1, ProgressTyped DEF ProgressStep, Behind
  <2> QED
    BY <2>2, <2>3 DEF PlaceNext
<1>6. ASSUME ResumeSnapshot
      PROVE  PlaceNext
  BY <1>6, PlaceMoved DEF ResumeSnapshot, StartBarrier, PlaceInv, ResetsFirst,
     Writing, Handing, ChunkPlace, Copying
<1>7. ASSUME ResumeConfirmed
      PROVE  PlaceNext
  BY <1>7, PlaceMoved
     DEF ResumeConfirmed, PlaceInv, ResetsFirst, Writing, Handing, ChunkPlace, Copying
<1>8. ASSUME PlanTables
      PROVE  PlaceNext
  <2>1. ~Writing /\ ~Writing' /\ ~Handing /\ pc' = "open" /\ progress' = progress /\ snap' = snap
    BY <1>8 DEF PlanTables, Writing, Handing
  <2>2. ChunkPlace' /\ CommitPlace' /\ ResetsFirst'
    BY <1>0, <1>8, <2>1 DEF PlanTables, ChunkPlace, CommitPlace, ResetsFirst
  <2>3. table' = SavedPlan.table /\ emitted' = SavedPlan.next /\ cursor' = SavedPlan.cursor
    BY <1>8 DEF PlanTables
  <2>4. Behind(progress, table', emitted', cursor')
    <3>1. CASE progress = NoProgress
      BY <2>3, <3>1 DEF SavedPlan, Behind, NoProgress
    <3>2. CASE progress # NoProgress
      BY <1>0, <2>3, <3>2, ProgressTyped DEF SavedPlan, Behind
    <3> QED
      BY <3>1, <3>2
  <2>5. Ahead'
    BY <2>1, <2>4 DEF Ahead, Behind
  <2>6. ProgressStep
    BY <1>0, <2>1, ProgressTyped DEF ProgressStep, Behind
  <2> QED
    BY <2>2, <2>5, <2>6 DEF PlaceNext
<1>9. ASSUME ReadChunk
      PROVE  PlaceNext
  <2>1. /\ chunk' = SnapshotQuery /\ pc' \in {"ack", "spool", "batch"} /\ cursor' = cursor
        /\ Remaining # <<>> /\ UNCHANGED <<snap, progress, table, emitted, rebuild, fresh>>
        /\ pc = "read"
    BY <1>9 DEF ReadChunk
  <2>2. SnapshotQuery # <<>> /\ Last(SnapshotQuery) > cursor
    BY <1>0, <2>1, ChunkRead
  <2>3. Writing' /\ (todo' # <<>> => Handing')
    <3>1. pc' # "batch" => todo' = <<>>
      BY <1>9 DEF ReadChunk
    <3> QED
      BY <2>1, <3>1 DEF Writing, Handing
  <2>4. ChunkPlace' /\ CommitPlace' /\ ResetsFirst'
    BY <2>1, <2>2, <2>3 DEF ChunkPlace, CommitPlace, ResetsFirst
  <2>5. Ahead'
    BY <2>1 DEF PlaceInv, Ahead, Behind, Copying
  <2>6. ProgressStep
    BY <1>0, <2>1, ProgressTyped DEF ProgressStep, Behind
  <2> QED
    BY <2>4, <2>5, <2>6 DEF PlaceNext
<1>10. ASSUME TableRead
       PROVE  PlaceNext
  BY <1>10, PlaceNextTable DEF TableRead
<1>11. ASSUME DeleteKeys
       PROVE  PlaceNext
  BY <1>11, PlaceMoved
     DEF DeleteKeys, PlaceInv, ResetsFirst, Writing, Handing, ChunkPlace, Copying
<1>12. ASSUME BatchWritten
       PROVE  PlaceNext
  BY <1>12, PlaceMoved
     DEF BatchWritten, PlaceInv, ResetsFirst, Writing, Handing, ChunkPlace, Copying
<1>13. ASSUME SpoolChunk
       PROVE  PlaceNext
  BY <1>13, PlaceMoved
     DEF SpoolChunk, PlaceInv, ResetsFirst, Writing, Handing, ChunkPlace, Copying
<1>14. ASSUME ConfirmCompletion
       PROVE  PlaceNext
  <2>1. ~Writing /\ ~Writing' /\ ~Handing /\ snap' = "confirmed" /\ pc' = "clear"
    BY <1>14 DEF ConfirmCompletion, Writing, Handing
  <2>2. ChunkPlace' /\ CommitPlace' /\ ResetsFirst' /\ Ahead'
    BY <1>0, <1>14, <2>1 DEF ConfirmCompletion, ChunkPlace, CommitPlace,
       ResetsFirst, Ahead
  <2> QED
    BY <2>1, <2>2 DEF PlaceNext, ProgressStep
<1>15. ASSUME ClearProgress
       PROVE  PlaceNext
  <2>1. ~Writing /\ ~Writing' /\ ~Handing /\ snap = "confirmed" /\ snap' = snap /\ pc' = "done"
    BY <1>15 DEF ClearProgress, Writing, Handing, PlaceInv, ResetsFirst
  <2>2. ChunkPlace' /\ CommitPlace' /\ ResetsFirst' /\ Ahead'
    BY <1>0, <1>15, <2>1 DEF ClearProgress, ChunkPlace, CommitPlace,
       ResetsFirst, Ahead
  <2> QED
    BY <2>1, <2>2 DEF PlaceNext, ProgressStep
<1>16. ASSUME ResetTarget
       PROVE  PlaceNext
  <2>1. Begin("reset", 0, 0, <<>>) /\ snap = "none" /\ ~Writing
    BY <1>16 DEF ResetTarget, PlaceInv, ResetsFirst, Writing
  <2> QED
    BY <1>16, <1>a, <2>1, PlaceBegun DEF ResetTarget
<1>17. ASSUME OpenTable
       PROVE  PlaceNext
  <2>1. /\ progress' = Saved(emitted, cursor) /\ pc' = "read" /\ pc = "open"
        /\ UNCHANGED <<snap, table, emitted, cursor, chunk, todo, rebuild, fresh>>
    BY <1>17 DEF OpenTable, SaveSnapshotProgress
  <2>2. ~Writing /\ ~Writing' /\ ~Handing
    BY <2>1 DEF Writing, Handing
  <2>3. ChunkPlace' /\ CommitPlace' /\ ResetsFirst'
    BY <1>0, <2>1, <2>2 DEF ChunkPlace, CommitPlace, ResetsFirst
  <2>4. Ahead'
    BY <1>0, <2>1, ProgressTyped DEF Ahead, Behind, Saved
  <2>5. ProgressStep
    BY <2>1 DEF PlaceInv, Ahead, Copying, ProgressStep, Behind, Saved
  <2> QED
    BY <2>3, <2>4, <2>5 DEF PlaceNext
<1>18. ASSUME RolledSaved
       PROVE  PlaceNext
  BY <1>18, PlaceNextTable DEF RolledSaved, SaveSnapshotProgress
<1>19. ASSUME Acknowledged
       PROVE  PlaceNext
  <2>1. Writing /\ pc = "ack"
    BY <1>19 DEF Acknowledged, Writing
  <2>2. Len(chunk) \in Nat \ {0} /\ Last(chunk) \in Key /\ Last(chunk) > cursor
    BY <1>0, <2>1, ChunkEnds
  <2>3. /\ emitted' = emitted + Len(chunk) /\ cursor' = Last(chunk) /\ chunk' = <<>>
        /\ pc' = "read" /\ UNCHANGED <<snap, table, todo, rebuild, fresh>>
        /\ progress' = progress \/ progress' = Saved(emitted + Len(chunk), Last(chunk))
    BY <1>19 DEF Acknowledged, SaveSnapshotProgress
  <2>4. todo = <<>>
    BY <1>0, <2>1 DEF Handing, ChunkPlace
  <2>5. ChunkPlace' /\ CommitPlace' /\ ResetsFirst'
    BY <2>3, <2>4 DEF Writing, ChunkPlace, CommitPlace, ResetsFirst
  <2>6. /\ emitted <= emitted' /\ cursor <= cursor' /\ emitted' \in Nat /\ cursor' \in Nat
    BY <1>0, <2>2, <2>3, ProgressTyped DEF Key
  <2>7. snap = "started" => Behind(progress, table, emitted, cursor)
    BY <2>1 DEF PlaceInv, Ahead, Copying
  <2>8. Ahead' /\ ProgressStep
    BY <1>0, <2>3, <2>6, <2>7, ProgressTyped DEF Ahead, ProgressStep, Behind, Saved
  <2> QED
    BY <2>5, <2>8 DEF PlaceNext
<1>20. ASSUME TableRolled
       PROVE  PlaceNext
  <2>1. CASE spool[table] = <<>>
    BY <1>20, <1>0, <2>1, KeptTyped, PlaceMoved
       DEF TableRolled, PlaceInv, ResetsFirst, Writing, Handing, ChunkPlace, Copying
  <2>2. CASE spool[table] # <<>>
    <3>1. Begin("roll", 0, emitted, spool[table]) /\ ~Writing /\ pc \in Copying
      BY <1>20, <2>2 DEF TableRolled, Writing, Handing, ChunkPlace, Copying
    <3>2. emitted \in Nat /\ spool[table] \in Seq(Key)
      BY <1>0 DEF TypeOK
    <3> QED
      BY <1>20, <1>a, <3>1, <3>2, PlaceBegun DEF TableRolled
  <2> QED
    BY <2>1, <2>2
<1>21. ASSUME TruncateForBatch
       PROVE  PlaceNext
  <2>1. /\ TruncateFirst(Head(todo).lo, PieceEnd(Head(todo))) /\ todo # <<>>
        /\ pc = "batch"
        /\ UNCHANGED <<snap, progress, rebuild, fresh, table, emitted, cursor, chunk, todo>>
    BY <1>21 DEF TruncateForBatch
  <2>2. Head(todo).lo \in Nat /\ PieceEnd(Head(todo)) \in Nat
    BY <1>0, <2>1, HeadTyped
  <2>3. Writing /\ pc \in Copying
    BY <2>1 DEF Writing, Handing, ChunkPlace, Copying
  <2>4. CASE conf.trino
    <3>1. ops' = ops /\ pc' = pc
      BY <2>1, <2>4 DEF TruncateFirst
    <3> QED
      BY <1>0, <2>1, <3>1, KeptTyped, PlaceKept
  <2>5. CASE ~conf.trino
    <3>1. Begin("truncate", Head(todo).lo, PieceEnd(Head(todo)), <<>>)
      BY <2>1, <2>5 DEF TruncateFirst
    <3> QED
      BY <1>a, <2>1, <2>2, <2>3, <3>1, PlaceBegun
  <2> QED
    BY <2>4, <2>5
<1>22. ASSUME TruncateForSpool
       PROVE  PlaceNext
  <2>1. /\ TruncateFirst(emitted, emitted + Len(chunk))
        /\ pc = "spool"
        /\ UNCHANGED <<snap, progress, rebuild, fresh, table, emitted, cursor, chunk, todo>>
    BY <1>22 DEF TruncateForSpool
  <2>2. Writing /\ pc \in Copying
    BY <2>1 DEF Writing, Handing, ChunkPlace, Copying
  <2>3. emitted \in Nat /\ emitted + Len(chunk) \in Nat
    BY <1>0, <2>2, ChunkEnds, ProgressTyped
  <2>4. CASE conf.trino
    <3>1. ops' = ops /\ pc' = pc
      BY <2>1, <2>4 DEF TruncateFirst
    <3> QED
      BY <1>0, <2>1, <3>1, KeptTyped, PlaceKept
  <2>5. CASE ~conf.trino
    <3>1. Begin("truncate", emitted, emitted + Len(chunk), <<>>)
      BY <2>1, <2>5 DEF TruncateFirst
    <3> QED
      BY <1>a, <2>1, <2>2, <2>3, <3>1, PlaceBegun
  <2> QED
    BY <2>4, <2>5
<1>23. ASSUME AppendPiece
       PROVE  PlaceNext
  <2>1. /\ Begin("append", Head(todo).lo, PieceEnd(Head(todo)), Head(todo).keys)
        /\ todo # <<>> /\ Writing /\ pc \in Copying
    BY <1>23 DEF AppendPiece, Writing, Handing, ChunkPlace, Copying
  <2>2. /\ Head(todo).lo \in Nat /\ PieceEnd(Head(todo)) \in Nat
        /\ Head(todo).keys \in Seq(Key)
    BY <1>0, <2>1, HeadTyped
  <2> QED
    BY <1>23, <2>1, <2>2, PlaceBegun DEF AppendPiece
<1>24. ASSUME AppendAnswered
       PROVE  PlaceNext
  <2>1. pc = "commit" /\ Current.do = "append" /\ todo # <<>> /\ todo' = Tail(todo)
    BY <1>0, <1>24 DEF AppendAnswered, Answered, CommitPlace
  <2> QED
    BY <1>24, <2>1, PlaceMoved
       DEF AppendAnswered, Answered, PlaceInv, ResetsFirst, Writing, Handing, ChunkPlace, Copying
<1>25. ASSUME TruncateAnswered
       PROVE  PlaceNext
  BY <1>25, PlaceMoved
     DEF TruncateAnswered, Answered, PlaceInv, ResetsFirst, Writing, Handing, ChunkPlace, Copying
<1>26. ASSUME ResetAnswered
       PROVE  PlaceNext
  <2>1. /\ pc = "commit" /\ Current.do = "reset" /\ snap = "none"
        /\ pc' \in {"start", "reset"}
        /\ UNCHANGED <<snap, progress, chunk, todo, rebuild, fresh>>
    BY <1>26 DEF ResetAnswered, Answered, PlaceInv, ResetsFirst
  <2>2. ~Writing /\ ~Handing
    BY <2>1 DEF Writing, Handing
  <2> QED
    BY <1>0, <2>1, <2>2, PlaceIdle DEF ResetsFirst, ChunkPlace, Copying
<1>27. ASSUME RollAnswered
       PROVE  PlaceNext
  BY <1>27, PlaceMoved
     DEF RollAnswered, Answered, PlaceInv, ResetsFirst, Writing, Handing, ChunkPlace, Copying
<1> QED
  BY <1>1, <1>2, <1>3, <1>4, <1>5, <1>6, <1>7, <1>8, <1>9, <1>10,
     <1>11, <1>12, <1>13, <1>14, <1>15, <1>16, <1>17, <1>18, <1>19, <1>20,
     <1>21, <1>22, <1>23, <1>24, <1>25, <1>26, <1>27
     DEF RunStep

(* The process ends.                                                       *)
LEMMA PlaceEnds ==
  ASSUME PlaceInv, EndRun, UNCHANGED <<snap, progress>>
  PROVE  PlaceNext
<1>1. pc' = "down" /\ chunk' = <<>> /\ todo' = <<>>
  BY DEF EndRun
<1> QED
  BY <1>1, PlaceIdle DEF ResetsFirst, Copying

(* Every step keeps the places.                                            *)
LEMMA PlaceStep ==
  ASSUME PlaceInv, [Next]_vars
  PROVE  PlaceNext
<1> USE DEF Goto, sourceVars, durableVars, tableVars, sinkVars
<1>0. /\ TypeOK /\ OpsTyped /\ table \in Table
      /\ ChunkPlace /\ CommitPlace
  BY DEF PlaceInv, TypeOK, OpsTyped
<1>1. ASSUME RunStep
      PROVE  PlaceNext
  BY <1>1, PlaceRunStep
<1>2. ASSUME NEW t \in Table, NEW k \in Key, Change(t, k)
      PROVE  PlaceNext
  BY <1>0, <1>2, KeptTyped, PlaceKept DEF Change
<1>3. ASSUME NEW o \in DOMAIN ops, CatalogAccepts(o)
      PROVE  PlaceNext
  BY <1>0, <1>3, RequestTyped, PlaceKept DEF CatalogAccepts
<1>4. ASSUME NEW o \in DOMAIN ops, CatalogLoses(o)
      PROVE  PlaceNext
  BY <1>0, <1>4, RequestTyped, PlaceKept DEF CatalogLoses
<1>5. ASSUME NEW initial \in BOOLEAN, StartRun(initial)
      PROVE  PlaceNext
  <2>1. /\ ~Writing /\ ~Handing /\ pc' = "recover"
        /\ UNCHANGED <<snap, progress, chunk, todo>>
        /\ fresh' /\ rebuild' => snap = "none"
    BY <1>0, <1>5 DEF StartRun, Writing, Handing, TypeOK
  <2>2. chunk' = <<>> /\ todo' = <<>> /\ ResetsFirst'
    BY <1>0, <2>1 DEF ChunkPlace, ResetsFirst
  <2> QED
    BY <2>1, <2>2, PlaceIdle DEF Copying
<1>6. ASSUME Rebuild
      PROVE  PlaceNext
  <2>1. ~Writing /\ ~Writing' /\ ~Handing /\ snap' = "none" /\ pc' = "down"
    BY <1>6 DEF Rebuild, Writing, Handing
  <2>2. ChunkPlace' /\ CommitPlace' /\ ResetsFirst' /\ Ahead'
    BY <1>0, <1>6, <2>1 DEF Rebuild, ChunkPlace, CommitPlace, ResetsFirst, Ahead
  <2> QED
    BY <2>1, <2>2 DEF PlaceNext, ProgressStep
<1>7. ASSUME SourceRetry
      PROVE  PlaceNext
  <2>1. /\ pc \in {"open", "read", "ack", "rolled"} /\ pc' = "plan" /\ chunk' = <<>>
        /\ UNCHANGED <<snap, todo, rebuild, fresh>>
    BY <1>7 DEF SourceRetry
  <2>2. ~Writing' /\ ~Handing /\ ~Handing'
    BY <2>1 DEF Writing, Handing
  <2>3. ChunkPlace' /\ CommitPlace' /\ ResetsFirst' /\ Ahead'
    BY <1>0, <2>1, <2>2 DEF ChunkPlace, CommitPlace, ResetsFirst, Ahead, Copying
  <2>4. snap = "started" => Behind(progress, table, emitted, cursor)
    BY <2>1 DEF PlaceInv, Ahead, Copying
  <2>5. ProgressStep
    <3>1. CASE progress' = progress
      BY <1>0, <3>1, ProgressTyped DEF ProgressStep, Behind
    <3>2. CASE progress' = Saved(emitted, cursor)
      BY <2>4, <3>2 DEF ProgressStep, Behind, Saved
    <3>3. CASE pc = "ack" /\ progress' = Saved(emitted + Len(chunk), Last(chunk))
      <4>1. Len(chunk) \in Nat /\ Last(chunk) \in Nat /\ Last(chunk) > cursor
        BY <1>0, <3>3, ChunkEnds DEF Writing, Key
      <4> QED
        BY <1>0, <2>4, <3>3, <4>1, ProgressTyped DEF ProgressStep, Behind, Saved
    <3> QED
      BY <1>7, <3>1, <3>2, <3>3 DEF SourceRetry
  <2> QED
    BY <2>3, <2>5 DEF PlaceNext
<1>8. ASSUME CommitRejected
      PROVE  PlaceNext
  <2>1. /\ pc = "commit" /\ (Current.do \in {"append", "roll"} \/ todo # <<>>)
        /\ pc' = IF Current.do = "roll" THEN "read" ELSE "batch"
        /\ UNCHANGED <<snap, progress, rebuild, fresh, table, emitted, cursor, chunk, todo>>
    BY <1>8 DEF CommitRejected
  <2>2. Current.do = "roll" => ~Writing /\ todo = <<>>
    BY <1>0, <2>1 DEF Writing, Handing, ChunkPlace
  <2>3. Current.do # "roll" => Writing
    BY <1>0, <2>1 DEF Writing, Handing, ChunkPlace
  <2>4. ResetsFirst'
    BY <2>1 DEF PlaceInv, ResetsFirst
  <2>5. CASE Current.do = "roll"
    BY <2>1, <2>2, <2>4, <2>5, PlaceMoved DEF Copying
  <2>6. CASE Current.do # "roll"
    BY <2>1, <2>3, <2>4, <2>6, PlaceMoved DEF Copying
  <2> QED
    BY <2>5, <2>6
<1>9. ASSUME RunRefused
      PROVE  PlaceNext
  BY <1>9, PlaceEnds DEF RunRefused
<1>10. ASSUME RunEnds
       PROVE  PlaceNext
  BY <1>10, PlaceEnds DEF RunEnds
<1>11. ASSUME UNCHANGED vars
       PROVE  PlaceNext
  BY <1>0, <1>11, KeptTyped, PlaceKept DEF vars
<1> QED
  BY <1>1, <1>2, <1>3, <1>4, <1>5, <1>6, <1>7, <1>8, <1>9, <1>10, <1>11
     DEF Next

(* The first state.                                                        *)
LEMMA PlaceStarts ==
  ASSUME Init
  PROVE  PlaceInv
<1>1. /\ Tables \in Nat \ {0} /\ MaxRuns \in Nat /\ MaxOps \in Nat
      /\ MaxChanges \in Nat /\ MaxRetries \in Nat
  BY CopyAssumption
<1>2. 1 \in Table /\ ops \in Seq(OpRecord) /\ Len(ops) = 0 /\ chunk = <<>> /\ todo = <<>>
  BY <1>1, EmptySeq DEF Init, Table
<1>3. chunk \in Seq(Key) /\ todo \in Seq(Piece) /\ spool \in [Table -> Seq(Key)]
  BY <1>2, EmptySeq DEF Init
<1>4. target \in [Table -> [Key -> Nat]] /\ src \in [Table -> SUBSET Key]
  BY ConfAssumption DEF Init
<1>5. TypeOK
  <2>1. /\ changes \in 0..MaxChanges /\ run \in 0..MaxRuns
        /\ retries \in 0..MaxRetries /\ Len(ops) <= MaxOps
    BY <1>1, <1>2 DEF Init
  <2> QED
    BY <1>2, <1>3, <1>4, <2>1 DEF Init, TypeOK
<1>6. ~Writing
  BY DEF Init, Writing
<1> QED
  BY <1>2, <1>5, <1>6 DEF Init, PlaceInv, ChunkPlace, CommitPlace, ResetsFirst, Ahead

(* Every step keeps types and places.                                      *)
LEMMA PlaceInvStep ==
  ASSUME PlaceInv, [Next]_vars
  PROVE  PlaceInv' /\ ProgressStep
<1>1. TypeOK'
  BY TypeStep DEF PlaceInv
<1>2. PlaceNext
  BY PlaceStep
<1> QED
  BY <1>1, <1>2 DEF PlaceInv, PlaceNext

(* The types of the variables, whatever a run, the catalog and the source  *)
(* database do.                                                            *)
THEOREM TypesKept == Spec => []TypeOK
<1>1. Init => PlaceInv
  BY PlaceStarts
<1>2. PlaceInv /\ [Next]_vars => PlaceInv'
  BY PlaceInvStep
<1>3. PlaceInv => TypeOK
  BY DEF PlaceInv
<1> QED
  BY <1>1, <1>2, <1>3, PTL DEF Spec

(* While a snapshot goes on its progress never moves back, whatever the    *)
(* runs, the retries within a run and the failures do: what a run saves is *)
(* the place to which it has copied, and the place from which a run or a   *)
(* retry goes on is the one that is saved.                                 *)
THEOREM ProgressNeverBack == Spec => ProgressAdvances
<1>1. Init => PlaceInv
  BY PlaceStarts
<1>2. PlaceInv /\ [Next]_vars => PlaceInv'
  BY PlaceInvStep
<1>3. PlaceInv /\ [Next]_vars =>
        [snap = "started" /\ snap' = "started" /\ progress # NoProgress =>
           \/ progress.table < progress'.table
           \/ /\ progress.table = progress'.table
              /\ progress.next <= progress'.next
              /\ progress.cursor <= progress'.cursor]_vars
  BY PlaceInvStep DEF ProgressStep, Behind
<1> QED
  BY <1>1, <1>2, <1>3, PTL DEF Spec, ProgressAdvances

\* How many rows of S lie after c and up to k.
Reached(S, c, k) == Cardinality({j \in S : c < j /\ j <= k})

(* Rows are counted in numbers.                                            *)
LEMMA ReachedCounts ==
  ASSUME NEW S \in SUBSET Key
  PROVE  /\ IsFiniteSet(S) /\ S \in SUBSET Nat
         /\ \A c, k : IsFiniteSet({j \in S : c < j /\ j <= k}) /\ Reached(S, c, k) \in Nat
<1>1. MaxKey \in Nat /\ S \in SUBSET (1..MaxKey)
  BY CopyAssumption DEF Key
<1>2. IsFiniteSet(S) /\ S \in SUBSET Nat
  <2>1. IsFiniteSet(1..MaxKey)
    BY <1>1, FS_Interval
  <2>2. IsFiniteSet(S)
    BY <1>1, <2>1, FS_Subset
  <2>3. S \in SUBSET Nat
    BY <1>1
  <2> QED
    BY <2>2, <2>3
<1>3. ASSUME NEW c, NEW k
      PROVE  IsFiniteSet({j \in S : c < j /\ j <= k}) /\ Reached(S, c, k) \in Nat
  <2> DEFINE A == {j \in S : c < j /\ j <= k}
  <2>1. A \in SUBSET S
    OBVIOUS
  <2>2. Reached(S, c, k) = Cardinality(A)
    BY DEF Reached
  <2>3. IsFiniteSet(A) /\ Cardinality(A) \in Nat
    <3> HIDE DEF A
    <3> QED
      BY <1>2, <2>1, FS_Subset, FS_CardinalityType
  <2> QED
    BY <2>2, <2>3
<1> QED
  BY <1>2, <1>3

(* Up to a later row there are more.                                       *)
LEMMA ReachedGrows ==
  ASSUME NEW S \in SUBSET Key, NEW c \in Nat, NEW k \in Nat, NEW l \in Nat, k <= l
  PROVE  /\ Reached(S, c, k) <= Reached(S, c, l)
         /\ l \in S /\ c < l /\ k < l => Reached(S, c, k) < Reached(S, c, l)
<1> DEFINE A == {j \in S : c < j /\ j <= k}
           B == {j \in S : c < j /\ j <= l}
<1>0. Cardinality(A) = Reached(S, c, k) /\ Cardinality(B) = Reached(S, c, l)
  BY DEF Reached
<1>1. /\ IsFiniteSet(A) /\ IsFiniteSet(B)
      /\ Reached(S, c, k) \in Nat /\ Reached(S, c, l) \in Nat
  BY ReachedCounts
<1>n. \A j \in S : j \in Int
  BY DEF Key
<1>2. A \in SUBSET B
  BY <1>n
<1>3. l \in S /\ c < l /\ k < l => l \in B /\ l \notin A
  OBVIOUS
<1> HIDE DEF A, B
<1>4. Cardinality(A) <= Cardinality(B) /\ (Cardinality(B) = Cardinality(A) => B = A)
  BY <1>1, <1>2, FS_Subset
<1> QED
  BY <1>0, <1>1, <1>3, <1>4

(* The count can be taken in two parts.                                    *)
LEMMA ReachedSplits ==
  ASSUME NEW S \in SUBSET Key, NEW c \in Nat, NEW d \in Nat, NEW k \in Nat, c <= d, d <= k
  PROVE  Reached(S, c, k) = Reached(S, c, d) + Reached(S, d, k)
<1> DEFINE A == {j \in S : c < j /\ j <= d}
           B == {j \in S : d < j /\ j <= k}
           C == {j \in S : c < j /\ j <= k}
<1>0. /\ Cardinality(A) = Reached(S, c, d) /\ Cardinality(B) = Reached(S, d, k)
      /\ Cardinality(C) = Reached(S, c, k)
  BY DEF Reached
<1>1. /\ IsFiniteSet(A) /\ IsFiniteSet(B)
      /\ Reached(S, c, d) \in Nat /\ Reached(S, d, k) \in Nat
  BY ReachedCounts
<1>n. \A j \in S : j \in Int
  BY DEF Key
<1>2. C \subseteq A \cup B /\ A \cup B \subseteq C /\ A \cap B = {}
  BY <1>n
<1> HIDE DEF A, B, C
<1>3. Cardinality(C) = Cardinality(A) + Cardinality(B) - Cardinality(A \cap B)
  BY <1>1, <1>2, FS_Union
<1> QED
  BY <1>0, <1>1, <1>2, <1>3, FS_EmptySet

(* Nothing lies after a place and up to it.                                *)
LEMMA ReachedNone ==
  ASSUME NEW S \in SUBSET Key, NEW c \in Nat
  PROVE  Reached(S, c, c) = 0
<1>1. \A j \in S : j \in Int
  BY DEF Key
<1>2. \A x \in {j \in S : c < j /\ j <= c} : FALSE
  BY <1>1
<1> QED
  BY <1>2, FS_EmptySet DEF Reached

(* Sets that agree on their first rows agree on the places of these.       *)
LEMMA ReachedAgrees ==
  ASSUME NEW S \in SUBSET Key, NEW T \in SUBSET Key, NEW c \in Nat, NEW n \in Int,
         {k \in S : c < k /\ Reached(S, c, k) <= n} = {k \in T : c < k /\ Reached(T, c, k) <= n},
         NEW k \in T, c < k, Reached(T, c, k) <= n
  PROVE  k \in S /\ Reached(S, c, k) = Reached(T, c, k)
<1>1. k \in S /\ Reached(S, c, k) <= n /\ k \in Nat
  BY CopyAssumption DEF Key
<1>2. {j \in S : c < j /\ j <= k} \subseteq {j \in T : c < j /\ j <= k}
  <2>1. ASSUME NEW j \in S, c < j, j <= k
        PROVE  j \in T
    <3>1. j \in Nat /\ Reached(S, c, j) \in Nat /\ Reached(S, c, k) \in Nat
      BY ReachedCounts DEF Key
    <3>2. Reached(S, c, j) <= Reached(S, c, k)
      BY <1>1, <2>1, <3>1, ReachedGrows
    <3>3. Reached(S, c, j) <= n
      BY <1>1, <3>1, <3>2
    <3> QED
      BY <2>1, <3>3
  <2> QED
    BY <2>1
<1>3. {j \in T : c < j /\ j <= k} \subseteq {j \in S : c < j /\ j <= k}
  <2>1. ASSUME NEW j \in T, c < j, j <= k
        PROVE  j \in S
    <3>1. j \in Nat /\ Reached(T, c, j) \in Nat /\ Reached(T, c, k) \in Nat
      BY ReachedCounts DEF Key
    <3>2. Reached(T, c, j) <= Reached(T, c, k)
      BY <1>1, <2>1, <3>1, ReachedGrows
    <3>3. Reached(T, c, j) <= n
      BY <3>1, <3>2
    <3> QED
      BY <2>1, <3>3
  <2> QED
    BY <2>1
<1>4. {j \in S : c < j /\ j <= k} = {j \in T : c < j /\ j <= k}
  BY <1>2, <1>3
<1> QED
  BY <1>1, <1>4 DEF Reached

(* The rows of a batch are the ones that follow the cursor, in their order, *)
(* and all that are left if they are fewer than a query returns.           *)
LEMMA BatchPlaces ==
  ASSUME view \subseteq Key, cursor \in Key \cup {NoKey}, Remaining # <<>>
  PROVE  /\ SnapshotQuery \in Seq(Key) /\ Len(SnapshotQuery) \in 1..ChunkSize
         /\ \A m \in 1..Len(SnapshotQuery) :
              /\ SnapshotQuery[m] \in view /\ cursor < SnapshotQuery[m]
              /\ Reached(view, cursor, SnapshotQuery[m]) = m
              /\ SnapshotQuery[m] <= SnapshotQuery[Len(SnapshotQuery)]
         /\ \A k \in view : cursor < k =>
              \/ \E m \in 1..Len(SnapshotQuery) : SnapshotQuery[m] = k
              \/ /\ Len(SnapshotQuery) = ChunkSize /\ Len(SnapshotQuery) < Reached(view, cursor, k)
                 /\ SnapshotQuery[Len(SnapshotQuery)] < k
<1> DEFINE n == Len(Remaining)
           q == Len(SnapshotQuery)
<1>1. /\ Left \in SUBSET Nat /\ IsFiniteSet(Left) /\ n = Cardinality(Left)
      /\ Remaining \in Seq(Left)
      /\ \A i, j \in 1..n : i < j => Remaining[i] < Remaining[j]
      /\ SnapshotQuery \in Seq(Left) /\ q \in 1..n
      /\ \A i \in 1..q : SnapshotQuery[i] = Remaining[i]
  BY QueryRows
<1>2. \A k \in Left : \E i \in 1..n : Remaining[i] = k
  BY <1>1, OrderCovers DEF Remaining, Left
<1>3. ChunkSize \in Nat \ {0} /\ n \in Nat /\ q \in Nat /\ cursor \in Nat
  BY <1>1, CopyAssumption DEF Key, NoKey
<1>4. q = ChunkSize \/ (q = n /\ q <= ChunkSize)
  <2> DEFINE m == Min({ChunkSize, n})
  <2>1. \E x \in {ChunkSize, n} : \A y \in {ChunkSize, n} : x <= y
    BY <1>3
  <2>2. m \in {ChunkSize, n} /\ m <= ChunkSize /\ m <= n /\ m \in Nat
    <3>1. m \in {ChunkSize, n} /\ \A y \in {ChunkSize, n} : m <= y
      BY <2>1 DEF Min
    <3> QED
      BY <1>3, <3>1
  <2> HIDE DEF m
  <2>3. q = m
    <3>1. SnapshotQuery = SubSeq(Remaining, 1, m)
      BY DEF SnapshotQuery, m
    <3>2. \A i \in 1..m : Remaining[i] \in Left
      BY <1>1, <2>2
    <3>3. Len(SubSeq(Remaining, 1, m)) = m
      BY <1>1, <1>3, <2>2, <3>2, SubSeqProperties
    <3> QED
      BY <3>1, <3>3
  <2> QED
    BY <2>2, <2>3
<1>5. \A i \in 1..n : Remaining[i] \in Left /\ Remaining[i] \in Nat
  <2>1. \A i \in 1..n : Remaining[i] \in Left
    BY <1>1
  <2> QED
    BY <1>1, <2>1
<1>6. \A i \in 1..n : Reached(view, cursor, Remaining[i]) = i
  <2>1. TAKE i \in 1..n
  <2> DEFINE B == {j \in view : cursor < j /\ j <= Remaining[i]}
             f == [h \in 1..i |-> Remaining[h]]
  <2>2. \A h \in 1..i : h \in 1..n /\ Remaining[h] \in Left
    BY <1>3, <1>5
  <2>3. \A h \in 1..i : Remaining[h] \in B
    <3>1. TAKE h \in 1..i
    <3>2. h = i \/ h < i
      BY <1>3
    <3>3. Remaining[h] \in Left /\ Remaining[h] \in Nat /\ Remaining[i] \in Nat /\ h \in 1..n
      BY <1>5, <2>2
    <3>4. Remaining[h] <= Remaining[i]
      BY <1>1, <3>2, <3>3
    <3> QED
      BY <3>3, <3>4 DEF Left
  <2>4. \A k \in B : \E h \in 1..i : Remaining[h] = k
    <3>1. TAKE k \in B
    <3>2. k \in Left
      BY <1>3 DEF Left, Key
    <3>3. PICK h \in 1..n : Remaining[h] = k
      BY <1>2, <3>2
    <3>6. Remaining[i] \in Nat /\ k \in Nat /\ k <= Remaining[i]
      BY <1>5 DEF Key
    <3>4. ~(i < h)
      BY <1>1, <3>3, <3>6
    <3>5. h \in 1..i
      BY <1>3, <3>4
    <3> QED
      BY <3>3, <3>5
  <2>5. \A g, h \in 1..i : Remaining[g] = Remaining[h] => g = h
    <3>1. TAKE g, h \in 1..i
    <3>2. g \in 1..n /\ h \in 1..n /\ Remaining[g] \in Nat /\ Remaining[h] \in Nat
      BY <1>1, <2>2
    <3>3. g < h \/ h < g \/ g = h
      BY <3>2
    <3> QED
      BY <1>1, <3>2, <3>3
  <2> HIDE DEF B
  <2>6. f \in Injection(1..i, B) /\ f \in Surjection(1..i, B)
    BY <2>3, <2>4, <2>5 DEF Injection, IsInjective, Surjection
  <2>7. IsFiniteSet(1..i) /\ Cardinality(1..i) = i
    <3>1. i \in Nat /\ 1 \in Nat
      BY <1>3
    <3> QED
      BY <3>1, FS_Interval
  <2> HIDE DEF f
  <2>8. Cardinality(B) = Cardinality(1..i)
    BY <2>6, <2>7, FS_Surjection
  <2> QED
    BY <2>7, <2>8 DEF Reached, B
<1>7. \A k \in view : cursor < k =>
        \/ \E m \in 1..q : SnapshotQuery[m] = k
        \/ q = ChunkSize /\ q < Reached(view, cursor, k) /\ SnapshotQuery[q] < k
  <2>1. TAKE k \in view
  <2>2. HAVE cursor < k
  <2>3. k \in Left
    BY <1>3, <2>2 DEF Left, Key
  <2>4. PICK i \in 1..n : Remaining[i] = k
    BY <1>2, <2>3
  <2>5. Reached(view, cursor, k) = i
    BY <1>6, <2>4
  <2>6. CASE i <= q
    BY <1>1, <1>3, <2>4, <2>6
  <2>7. CASE q < i
    <3>1. q = ChunkSize
      BY <1>3, <1>4, <2>7
    <3>2. q \in 1..n /\ Remaining[q] < Remaining[i] /\ SnapshotQuery[q] = Remaining[q]
      BY <1>1, <1>3, <2>7
    <3> QED
      BY <2>4, <2>5, <2>7, <3>1, <3>2
  <2> QED
    BY <1>3, <2>6, <2>7
<1>8. q \in 1..ChunkSize
  BY <1>1, <1>3, <1>4
<1>9. Left \subseteq view /\ view \subseteq Key /\ \A k \in Left : cursor < k
  BY <1>3 DEF Left, Key
<1>10. SnapshotQuery \in Seq(Key)
  BY <1>1, <1>9, SeqMonotonic
<1>11. \A m \in 1..q : /\ SnapshotQuery[m] \in view /\ cursor < SnapshotQuery[m]
                       /\ Reached(view, cursor, SnapshotQuery[m]) = m
                       /\ SnapshotQuery[m] <= SnapshotQuery[q]
  <2>1. TAKE m \in 1..q
  <2>2. m \in 1..n /\ SnapshotQuery[m] = Remaining[m] /\ SnapshotQuery[q] = Remaining[q]
    BY <1>1, <1>3
  <2>3. /\ Remaining[m] \in Left /\ Remaining[m] \in Nat /\ Remaining[q] \in Nat
        /\ q \in 1..n /\ (m = q \/ m < q)
    BY <1>1, <1>3, <1>5, <2>2
  <2>4. Remaining[m] <= Remaining[q]
    BY <1>1, <2>2, <2>3
  <2> QED
    BY <1>6, <1>9, <2>2, <2>3, <2>4
<1> QED
  BY <1>7, <1>8, <1>10, <1>11

-----------------------------------------------------------------------------
(* Rows and receipts *)

\* Where a run copies a table that it has opened.
Reads ==
  \/ pc \in {"read", "batch", "append", "spool", "ack", "rolled"}
  \/ pc = "commit" /\ Current.do # "reset"
Resetting == pc = "commit" /\ Current.do = "reset"

\* Rows the change stream will not repair; nothing is left of them after the
\* saved progress.
Good(t, k) == Untouched(t, k) /\ k \in src[t]
Over == \A k \in Key : progress.table \in Table /\ Good(progress.table, k) => k <= progress.cursor

\* What a later step may still hold against an operation.
Live(o) == ops[o].intent # "none" \/ o \in receipts

\* A run copies a snapshot that has started, and completes no other.
UnderWay ==
  /\ pc \in {"plan", "open"} \/ Reads => snap = "started"
  /\ pc = "complete" => snap # "none"

\* One request at a time is open, and none that resets while a snapshot is
\* under way.
OneOpen ==
  \A o \in DOMAIN ops :
    /\ ops[o].intent = "PREPARED" =>
         pc \in {"down", "recover"} \/ (pc = "commit" /\ o = Len(ops))
    /\ ops[o].do = "reset" /\ ops[o].intent # "none" => snap = "none"

\* A receipt is of an append that has landed; a run that is about to copy has
\* one of every intent.
ReceiptsTrue ==
  /\ receipts \subseteq DOMAIN ops
  /\ \A o \in receipts : /\ ops[o].catalog = "landed" /\ RecoverableDataOperation(o)
                         /\ ops[o].intent # "PREPARED"
  /\ pc = "down" => receipts = {}
  /\ pc \in {"recover", "ensure", "reset", "start"} \/ Resetting => receipts \subseteq Intents
  /\ pc \in {"ensure", "reset", "start"} => Intents \subseteq receipts
  /\ Resetting => Intents \ {Len(ops)} \subseteq receipts
  /\ pc = "capture" => receipts = {} /\ Intents = {} /\ progress = NoProgress

\* No operation is of a table that the copy has not come to.
OpsPast ==
  snap = "started" =>
    \A o \in DOMAIN ops : Live(o) => ops[o].table <= progress.table

\* A table that is rolled has no progress before its end.
ProgressSound ==
  snap = "started" =>
    /\ progress.next = 0 => progress.cursor = NoKey
    /\ conf.rolling /\ progress.next > 0 => Over

\* The run goes on from the saved progress, or from the next table.
OpenPlace ==
  pc = "open" =>
    \/ progress = Saved(emitted, cursor)
    \/ /\ emitted = 0 /\ cursor = NoKey
       /\ table = progress.table + 1 /\ Over

\* rowsEmitted is the place of the cursor in the view, and the view has the
\* rows of the source but for changed ones.
ReadPlace ==
  Reads =>
    /\ progress.table = table
    /\ IF rolling
       THEN conf.rolling /\ progress.next = 0
       ELSE progress = Saved(emitted, cursor) /\ (conf.rolling => emitted > 0)
    /\ emitted = progress.next + Reached(view, progress.cursor, cursor)
    /\ emitted = 0 => cursor = NoKey
    /\ \A k \in Key : Untouched(table, k) => (k \in view <=> k \in src[table])

\* The batch is what the query returns.
ChunkExact == Writing => Remaining # <<>> /\ chunk = SnapshotQuery

\* The spool is committed at the end of the table.
EndPlace ==
  /\ pc = "rolled" \/ (pc = "commit" /\ Current.do = "roll") =>
       rolling /\ \A k \in view : k <= cursor
  /\ pc = "rolled" => spool[table] = <<>>

\* What is left of a batch are pieces of it, in their order.
TodoPlace ==
  Writing =>
    /\ Spools => todo = <<>>
    /\ \A n \in DOMAIN todo : \E i, e \in 1..Len(chunk) : IsPiece(todo[n], chunk, i, e)
    /\ \A n, m \in DOMAIN todo : n < m => PieceEnd(todo[n]) <= todo[m].lo
    /\ pc = "append" => WriteMode = "delete" /\ todo # <<>>
    /\ pc = "spool" => Spools

\* The request the run waits for is the one of the next piece or of the spool.
Asked ==
  pc = "commit" =>
    /\ Current.intent = "PREPARED"
    /\ Current.do # "reset" => Current.seen = view
    /\ Current.do = "append" =>
         /\ Current.lo = Head(todo).lo /\ Current.hi = PieceEnd(Head(todo))
         /\ Current.keys = Head(todo).keys /\ ~NeedsTruncate
    /\ Current.do = "roll" =>
         Current.lo = 0 /\ Current.hi = emitted /\ Current.keys = spool[table]
    /\ Current.do = "truncate" => NeedsTruncate /\ emitted = 0 /\ (todo = <<>> => Spools)

\* What a run has appended it has truncated before.
TruncatedFirst ==
  conf.mode = "truncate" =>
    /\ \A t \in Table : spool[t] # <<>> => t \in truncated
    /\ pc \notin {"down", "recover"} =>
         \A o \in Intents \ receipts : RecoverableDataOperation(o) => ops[o].table \in truncated

\* A snapshot goes on, and only chunks may have been appended again.
Relied == snap = "started" /\ weak \subseteq {"appended"}
Held(t, k) == target[t][k] >= 1

\* The operation holds rows after the saved progress; the place of row k is
\* one of its places.
Counts(o) ==
  /\ Live(o) /\ RecoverableDataOperation(o) /\ ops[o].catalog # "lost"
  /\ ops[o].table = progress.table /\ ops[o].hi > progress.next
HasPlace(o, k) ==
  /\ k \in ops[o].seen /\ progress.cursor < k
  /\ ops[o].lo < progress.next + Reached(ops[o].seen, progress.cursor, k)
  /\ progress.next + Reached(ops[o].seen, progress.cursor, k) <= ops[o].hi
InTodo(k) == \E n \in DOMAIN todo : k \in Range(todo[n].keys)
FirstRowsOf(S, n) == {k \in S : progress.cursor < k /\ Reached(S, progress.cursor, k) <= n}

\* The rows before the saved progress are in the target.
Covers ==
  Relied => \A t \in Table, k \in Key :
    Good(t, k) /\ (t < progress.table \/ (t = progress.table /\ k <= progress.cursor)) => Held(t, k)

\* The rows at the places of an operation are in the target, or will be when
\* it lands; but for rolled tables it holds no more than a chunk of them.
Written ==
  Relied /\ ~Over => \A o \in DOMAIN ops : Counts(o) =>
    /\ conf.rolling \/ ops[o].hi <= progress.next + ChunkSize
    /\ \A k \in Key : Good(progress.table, k) /\ HasPlace(o, k) =>
         Held(progress.table, k) \/ (ops[o].catalog = "inflight" /\ k \in Range(ops[o].keys))

\* The rows up to the cursor are in the target or in the spool.
Copied ==
  Relied /\ Reads => \A k \in Key :
    Good(table, k) /\ progress.cursor < k /\ k <= cursor =>
      Held(table, k) \/ (Spools /\ k \in Range(spool[table]))

\* The rows of the batch are in the target, still to be written, or spooled.
ChunkRows ==
  Relied /\ Writing => \A i \in DOMAIN chunk : Good(table, chunk[i]) =>
    \/ Held(table, chunk[i]) \/ InTodo(chunk[i])
    \/ Spools /\ (pc \in {"spool", "commit"} \/ chunk[i] \in Range(spool[table]))

\* The rows that have been asked for are in the target when they have landed.
Landed ==
  Relied /\ pc = "commit" /\ RecoverableDataOperation(Len(ops)) /\ Current.catalog = "landed" =>
    \A k \in Range(Current.keys) : Good(table, k) => Held(table, k)

\* A truncate comes before the first piece is written.
Untruncated ==
  Writing /\ pc # "ack" /\ NeedsTruncate /\ ~Spools =>
    \A i \in DOMAIN chunk : i \in RecoveredAt(chunk) \/ InTodo(chunk[i])

\* What a truncate removes nobody relies on.
TruncateAlone ==
  Relied => \A o \in DOMAIN ops : ops[o].do = "truncate" /\ ops[o].intent = "PREPARED" =>
    /\ progress.table = ops[o].table /\ progress.next = 0 /\ progress.cursor = NoKey
    /\ \A q \in DOMAIN ops : Live(q) /\ RecoverableDataOperation(q) => ops[q].table # ops[o].table

\* The rows at the places of a receipt are the ones its run has seen there.
Agree ==
  Relied /\ Reads /\ ~Over => \A o \in receipts : Counts(o) =>
    FirstRowsOf(ops[o].seen, ops[o].hi - progress.next) = FirstRowsOf(view, ops[o].hi - progress.next)

\* What a run has written itself lies before what it is about to delete.
Deletes(t) == conf.mode = "auto" /\ t \notin safe
OwnApart ==
  Relied /\ ~Over /\ Deletes(progress.table) => \A o \in DOMAIN ops \ receipts : Counts(o) =>
    /\ pc \notin {"plan", "open"}
    /\ Reads /\ ~(pc = "commit" /\ o = Len(ops)) =>
         /\ ops[o].seen = view /\ ops[o].hi <= emitted + Len(chunk)
         /\ todo # <<>> => ops[o].hi <= Head(todo).lo

\* The copy is complete.
Finished ==
  Relied /\ pc = "complete" => \A t \in Table, k \in Key : Good(t, k) => Held(t, k)

Books ==
  /\ UnderWay /\ OneOpen /\ ReceiptsTrue /\ OpsPast /\ ProgressSound /\ OpenPlace
  /\ ReadPlace /\ ChunkExact /\ EndPlace /\ TodoPlace /\ Asked /\ TruncatedFirst
CopyInv == LateInv /\ PlaceInv /\ Books

-----------------------------------------------------------------------------
(* What a step changes *)

\* Rows that stay untouched stay what they are.
SourceKept ==
  \A t \in Table, k \in Key :
    Untouched(t, k)' => Untouched(t, k) /\ (k \in src'[t] <=> k \in src[t])

(* The source changes by its own steps only; a snapshot that starts takes   *)
(* the rows as they are.                                                   *)
LEMMA SourceStep ==
  ASSUME TypeOK, [Next]_vars
  PROVE  /\ conf' = conf
         /\ BeginSnapshot \/ SourceKept
<1> USE DEF sourceVars, durableVars, tableVars, sinkVars
<1>1. ASSUME NEW t \in Table, NEW k \in Key, Change(t, k)
      PROVE  conf' = conf /\ SourceKept
  <2>1. /\ touched' = touched \cup {<<t, k>>} /\ conf' = conf
        /\ src' = [src EXCEPT ![t] = IF k \in @ THEN @ \ {k} ELSE @ \cup {k}]
        /\ src \in [Table -> SUBSET Key]
    BY <1>1 DEF Change, TypeOK
  <2>2. \A u \in Table, l \in Key : <<u, l>> # <<t, k>> => (l \in src'[u] <=> l \in src[u])
    BY <2>1
  <2> QED
    BY <2>1, <2>2 DEF SourceKept, Untouched
<1>2. ASSUME UNCHANGED <<conf, src, touched>>
      PROVE  conf' = conf /\ SourceKept
  BY <1>2 DEF SourceKept, Untouched
<1>3. CASE BeginSnapshot
  BY <1>3 DEF BeginSnapshot
<1>4. ASSUME RunStep, ~BeginSnapshot
      PROVE  UNCHANGED <<conf, src, touched>>
  BY <1>4 DEF RunStep, RecoverOne, RecoverDone, EnsureTables, ResetTarget, ResetInitialCheckpoint,
     ResumeSnapshot, ResumeConfirmed, PlanTables, OpenTable, ReadChunk, Acknowledged, TableRead,
     TableRolled, RolledSaved, TruncateForBatch, TruncateForSpool, DeleteKeys, AppendPiece,
     BatchWritten, SpoolChunk, AppendAnswered, TruncateAnswered, ResetAnswered, RollAnswered,
     Answered, ConfirmCompletion, ClearProgress
<1>5. ASSUME \/ \E o \in DOMAIN ops : CatalogAccepts(o) \/ CatalogLoses(o)
             \/ \E initial \in BOOLEAN : StartRun(initial)
             \/ Rebuild \/ SourceRetry \/ CommitRejected \/ RunRefused \/ RunEnds
             \/ UNCHANGED vars
      PROVE  UNCHANGED <<conf, src, touched>>
  BY <1>5 DEF CatalogAccepts, CatalogLoses, StartRun, Rebuild, SourceRetry, CommitRejected,
     RunRefused, RunEnds, vars
<1> QED
  BY <1>1, <1>2, <1>3, <1>4, <1>5 DEF Next

\* Where the run is at the tables, the steps after which it is not, the steps
\* of the source, the ones of the sink, and what changes nothing of a run.
AtTables == pc \in {"plan", "open"} \/ Reads
Leaves ==
  \/ \E o \in DOMAIN ops : RecoverOne(o)
  \/ RecoverDone \/ EnsureTables \/ ResetTarget \/ ResetInitialCheckpoint \/ ResumeConfirmed
  \/ ResetAnswered \/ ConfirmCompletion \/ ClearProgress
  \/ \E initial \in BOOLEAN : StartRun(initial)
  \/ Rebuild \/ RunRefused \/ RunEnds
SourceWorks ==
  \/ BeginSnapshot \/ ResumeSnapshot \/ SourceRetry \/ PlanTables \/ OpenTable
  \/ ReadChunk \/ Acknowledged \/ TableRead \/ RolledSaved
SinkWorks ==
  \/ DeleteKeys \/ BatchWritten \/ SpoolChunk \/ AppendAnswered \/ TruncateAnswered
  \/ RollAnswered \/ CommitRejected \/ TableRolled \/ TruncateForBatch \/ TruncateForSpool
  \/ AppendPiece
Outside ==
  /\ UNCHANGED <<snap, progress, table, view, emitted, cursor, rolling, chunk, todo, spool,
                 truncated, safe, receipts, pc>>
  /\ OpsKept /\ Len(ops') = Len(ops) /\ DOMAIN ops' = DOMAIN ops
  /\ \A o \in DOMAIN ops : ops'[o].intent = ops[o].intent

\* The run stays at its table.
Stays ==
  /\ UNCHANGED <<snap, progress, table, view, emitted, cursor, rolling, chunk, safe, receipts>>
  /\ Reads' <=> Reads
  /\ Writing' <=> Writing
  /\ ~Reads => pc' = pc

(* What a run waits for is the same request after a step of the catalog.    *)
LEMMA SameCurrent ==
  ASSUME OpsTyped, OpsKept, Len(ops') = Len(ops), ops # <<>>
  PROVE  /\ Len(ops) \in DOMAIN ops
         /\ Current'.do = Current.do /\ Current'.table = Current.table
         /\ Current'.lo = Current.lo /\ Current'.hi = Current.hi
         /\ Current'.keys = Current.keys /\ Current'.seen = Current.seen
<1>1. Len(ops) \in DOMAIN ops
  BY EmptySeq DEF OpsTyped
<1> QED
  BY <1>1 DEF OpsKept, SameRequest, Current

(* The kinds of steps.                                                     *)
LEMMA Kinds ==
  ASSUME PlaceInv, [Next]_vars
  PROVE  /\ Leaves \/ SourceWorks \/ SinkWorks \/ Outside
         /\ Leaves => ~AtTables'
         /\ SinkWorks \/ Outside => Stays
         /\ SinkWorks => Reads
<1> USE DEF Goto, sourceVars, durableVars, tableVars, sinkVars
<1>0. /\ TypeOK /\ OpsTyped /\ table \in Table /\ view \subseteq Key
      /\ ChunkPlace /\ CommitPlace
  BY DEF PlaceInv, TypeOK, OpsTyped
<1>a. pc = "commit" => ops # <<>>
  BY <1>0 DEF CommitPlace
<1>1. ASSUME \/ \E o \in DOMAIN ops : RecoverOne(o)
             \/ RecoverDone \/ EnsureTables \/ ResetInitialCheckpoint \/ ResumeConfirmed
             \/ ResetAnswered \/ ConfirmCompletion \/ ClearProgress
             \/ \E initial \in BOOLEAN : StartRun(initial)
             \/ Rebuild \/ RunRefused \/ RunEnds
      PROVE  ~AtTables'
  <2>1. pc' \notin {"plan", "open", "read", "batch", "append", "spool", "ack", "rolled", "commit"}
    BY <1>1 DEF RecoverOne, RecoverDone, EnsureTables, ResetInitialCheckpoint, ResumeConfirmed,
       ResetAnswered, ConfirmCompletion, ClearProgress, StartRun, Rebuild, RunRefused, RunEnds, EndRun
  <2> QED
    BY <2>1 DEF AtTables, Reads
<1>2. ASSUME ResetTarget
      PROVE  ~AtTables'
  <2>1. Begin("reset", 0, 0, <<>>) /\ <<>> \in Seq(Key) /\ 0 \in Nat
    BY <1>2, EmptySeq DEF ResetTarget
  <2>2. Current'.do = "reset" /\ pc' = "commit"
    <3>1. /\ Current' = [table |-> table, do |-> "reset", lo |-> 0, hi |-> 0,
                        keys |-> <<>>, seen |-> view,
                        intent |-> "PREPARED", catalog |-> "inflight"]
          /\ pc' = "commit"
      BY <1>0, <2>1, BegunTyped, "reset" \in {"append", "roll", "truncate", "reset"}
    <3> QED
      BY <3>1
  <2> QED
    BY <2>2 DEF AtTables, Reads
<1>3. ASSUME OpsKept, Len(ops') = Len(ops), pc' = pc,
             UNCHANGED <<snap, progress, table, view, emitted, cursor, rolling, chunk, safe, receipts>>
      PROVE  Stays
  <2>1. pc = "commit" => Current'.do = Current.do
    BY <1>0, <1>a, <1>3, SameCurrent
  <2> QED
    BY <1>3, <2>1 DEF Stays, Reads, Writing
<1>4. ASSUME NEW t \in Table, NEW k \in Key, Change(t, k)
      PROVE  Outside
  BY <1>0, <1>4, KeptTyped DEF Change, Outside
<1>5. ASSUME NEW o \in DOMAIN ops, CatalogAccepts(o) \/ CatalogLoses(o)
      PROVE  Outside
  <2>1. PICK c \in {"landed", "lost"} : ops' = [ops EXCEPT ![o].catalog = c]
    BY <1>5 DEF CatalogAccepts, CatalogLoses
  <2>2. /\ OpsKept /\ Len(ops') = Len(ops) /\ DOMAIN ops' = DOMAIN ops
        /\ \A p \in DOMAIN ops : p # o => ops'[p] = ops[p]
    BY <1>0, <2>1, RequestTyped
  <2>3. ops'[o].intent = ops[o].intent
    <3>1. ops[o] \in OpRecord /\ ops'[o] = [ops[o] EXCEPT !.catalog = c]
      BY <1>0, <2>1 DEF OpsTyped
    <3> QED
      BY <3>1 DEF OpRecord
  <2>4. UNCHANGED <<snap, progress, table, view, emitted, cursor, rolling, chunk, todo, spool,
                    truncated, safe, receipts, pc>>
    BY <1>5 DEF CatalogAccepts, CatalogLoses
  <2> QED
    BY <2>2, <2>3, <2>4 DEF Outside
<1>6. ASSUME UNCHANGED vars
      PROVE  Outside
  BY <1>0, <1>6, KeptTyped DEF vars, Outside
<1>14. ASSUME Outside
       PROVE  Stays
  BY <1>3, <1>14 DEF Outside
<1>7. ASSUME DeleteKeys \/ BatchWritten \/ SpoolChunk
      PROVE  Stays
  BY <1>7 DEF DeleteKeys, BatchWritten, SpoolChunk, Stays, Reads, Writing
<1>8. ASSUME AppendAnswered \/ TruncateAnswered \/ RollAnswered
      PROVE  Stays
  BY <1>8 DEF AppendAnswered, TruncateAnswered, RollAnswered, Answered, Stays, Reads, Writing
<1>9. ASSUME CommitRejected
      PROVE  Stays
  <2>1. Current.do \in {"append", "roll", "truncate"}
    BY <1>0, <1>9 DEF CommitRejected, ChunkPlace, Handing
  <2> QED
    BY <1>9, <2>1 DEF CommitRejected, Stays, Reads, Writing
<1>10. ASSUME NEW do \in {"append", "roll", "truncate"}, NEW lo \in Nat, NEW hi \in Nat,
              NEW keys \in Seq(Key), Begin(do, lo, hi, keys), Reads,
              do \in {"append", "truncate"} <=> Writing,
              UNCHANGED <<snap, progress, table, view, emitted, cursor, rolling, chunk, safe, receipts>>
       PROVE  Stays
  <2>1. Current'.do = do /\ pc' = "commit"
    BY <1>0, <1>10, BegunTyped
  <2> QED
    BY <1>10, <2>1 DEF Stays, Reads, Writing
<1>11. ASSUME TableRolled
       PROVE  Stays
  <2>1. pc = "read" /\ UNCHANGED <<snap, progress, table, view, emitted, cursor, rolling, chunk, safe, receipts>>
    BY <1>11 DEF TableRolled
  <2>2. Reads /\ ~Writing
    BY <2>1 DEF Reads, Writing
  <2>3. CASE spool[table] = <<>>
    BY <1>11, <2>1, <2>2, <2>3 DEF TableRolled, Stays, Reads, Writing
  <2>4. CASE spool[table] # <<>>
    <3>1. Begin("roll", 0, emitted, spool[table])
      BY <1>11, <2>4 DEF TableRolled
    <3>2. emitted \in Nat /\ spool[table] \in Seq(Key) /\ 0 \in Nat
      BY <1>0 DEF TypeOK
    <3> QED
      BY <1>10, <2>1, <2>2, <3>1, <3>2
  <2> QED
    BY <2>3, <2>4
<1>12. ASSUME TruncateForBatch \/ TruncateForSpool
       PROVE  Stays
  <2>1. /\ pc \in {"batch", "spool"}
        /\ UNCHANGED <<snap, progress, table, view, emitted, cursor, rolling, chunk, safe, receipts>>
    BY <1>12 DEF TruncateForBatch, TruncateForSpool
  <2>2. Reads /\ Writing
    BY <2>1 DEF Reads, Writing
  <2>3. PICK lo \in Nat, hi \in Nat : TruncateFirst(lo, hi)
    <3>1. CASE TruncateForBatch
      BY <1>0, <3>1, HeadTyped DEF TruncateForBatch
    <3>2. CASE TruncateForSpool
      BY <1>0, <2>2, <3>2, ChunkEnds, ProgressTyped DEF TruncateForSpool
    <3> QED
      BY <1>12, <3>1, <3>2
  <2>4. CASE conf.trino
    BY <1>0, <1>3, <2>1, <2>3, <2>4, KeptTyped DEF TruncateFirst
  <2>5. CASE ~conf.trino
    <3>1. Begin("truncate", lo, hi, <<>>) /\ <<>> \in Seq(Key)
      BY <2>3, <2>5, EmptySeq DEF TruncateFirst
    <3> QED
      BY <1>10, <2>1, <2>2, <3>1
  <2> QED
    BY <2>4, <2>5
<1>13. ASSUME AppendPiece
       PROVE  Stays
  <2>1. /\ Begin("append", Head(todo).lo, PieceEnd(Head(todo)), Head(todo).keys)
        /\ todo # <<>> /\ Reads /\ Writing
        /\ UNCHANGED <<snap, progress, table, view, emitted, cursor, rolling, chunk, safe, receipts>>
    BY <1>13 DEF AppendPiece, Writing, Reads
  <2>2. /\ Head(todo).lo \in Nat /\ PieceEnd(Head(todo)) \in Nat
        /\ Head(todo).keys \in Seq(Key)
    BY <1>0, <2>1, HeadTyped
  <2> QED
    BY <1>10, <2>1, <2>2
<1>15. Leaves \/ SourceWorks \/ SinkWorks \/ Outside
  BY <1>4, <1>5, <1>6 DEF Next, RunStep, Leaves, SourceWorks, SinkWorks
<1>16. ASSUME SinkWorks
       PROVE  Reads
  <2>1. CommitRejected => Current.do # "reset"
    BY <1>0 DEF CommitRejected, ChunkPlace, Handing
  <2>2. pc \in {"read", "batch", "append", "spool", "commit"}
    BY <1>16 DEF SinkWorks, DeleteKeys, BatchWritten, SpoolChunk, AppendAnswered, TruncateAnswered,
       RollAnswered, Answered, CommitRejected, TableRolled, TruncateForBatch, TruncateForSpool, AppendPiece
  <2>3. pc = "commit" => Current.do # "reset"
    BY <1>16, <2>1 DEF SinkWorks, DeleteKeys, BatchWritten, SpoolChunk, AppendAnswered, TruncateAnswered,
       RollAnswered, Answered, TableRolled, TruncateForBatch, TruncateForSpool, AppendPiece
  <2> QED
    BY <2>2, <2>3 DEF Reads
<1> QED
  BY <1>1, <1>2, <1>7, <1>8, <1>9, <1>11, <1>12, <1>13, <1>14, <1>15, <1>16 DEF Leaves, SinkWorks

\* A request is sent.
Asks ==
  /\ Len(ops') = Len(ops) + 1
  /\ DOMAIN ops' = DOMAIN ops \cup {Len(ops')} /\ Len(ops') \notin DOMAIN ops
  /\ \A o \in DOMAIN ops : ops'[o] = ops[o]
  /\ pc' = "commit" /\ pc \in {"reset", "read", "batch", "append", "spool"}
  /\ ops'[Len(ops')] = Current'
  /\ Current'.table = table /\ Current'.seen = view
  /\ Current'.intent = "PREPARED" /\ Current'.catalog = "inflight"
  /\ Current'.do = "reset" <=> pc = "reset"
  /\ UNCHANGED <<snap, progress, table, view, emitted, cursor, rolling, chunk, todo, safe, receipts>>

\* Requests stay what they are, intents are settled, and what is known of an
\* outcome stays known.
OpsNext ==
  /\ OpsKept
  /\ \A o \in DOMAIN ops :
       /\ ops'[o].intent # "none" => ops[o].intent # "none"
       /\ ops'[o].intent = "PREPARED" => ops[o].intent = "PREPARED"
       /\ ops'[o].catalog # ops[o].catalog => ops[o].catalog = "inflight"
       /\ Live(o)' => Live(o)
  /\ (DOMAIN ops' = DOMAIN ops /\ Len(ops') = Len(ops)) \/ Asks

(* Every step does to operations what it may.                              *)
LEMMA OpsStep ==
  ASSUME PlaceInv, Asked, [Next]_vars
  PROVE  OpsNext
<1> USE DEF Goto, sourceVars, durableVars, tableVars, sinkVars
<1>0. /\ TypeOK /\ OpsTyped /\ table \in Table /\ view \subseteq Key
      /\ ChunkPlace /\ CommitPlace
  BY DEF PlaceInv, TypeOK, OpsTyped
<1>a. pc = "commit" => /\ ops # <<>> /\ Len(ops) \in DOMAIN ops
                       /\ ops[Len(ops)].intent = "PREPARED"
  <2>1. pc = "commit" => ops # <<>>
    BY <1>0 DEF CommitPlace
  <2> QED
    BY <1>0, <2>1, EmptySeq DEF OpsTyped, Asked, Current
<1>1. ASSUME ops' = ops, receipts' \subseteq receipts
      PROVE  OpsNext
  BY <1>0, <1>1, KeptTyped DEF OpsNext, Live
<1>2. ASSUME NEW S, ops' = SetIntents(S, "none"), receipts' \subseteq receipts
      PROVE  OpsNext
  <2>1. /\ OpsKept /\ Len(ops') = Len(ops) /\ DOMAIN ops' = DOMAIN ops
        /\ \A o \in DOMAIN ops :
             /\ ops'[o].catalog = ops[o].catalog
             /\ ops'[o].intent = IF o \in S THEN "none" ELSE ops[o].intent
    BY <1>0, <1>2, SettledTyped
  <2> QED
    BY <1>2, <2>1 DEF OpsNext, Live
<1>3. ASSUME NEW p \in DOMAIN ops, ops[p].intent # "none", ops' = SetIntents({p}, "COMMITTED"),
             receipts' \subseteq receipts \cup {p}
      PROVE  OpsNext
  <2>1. /\ OpsKept /\ Len(ops') = Len(ops) /\ DOMAIN ops' = DOMAIN ops
        /\ \A o \in DOMAIN ops :
             /\ ops'[o].catalog = ops[o].catalog
             /\ ops'[o].intent = IF o \in {p} THEN "COMMITTED" ELSE ops[o].intent
    BY <1>0, <1>3, SettledTyped
  <2> QED
    BY <1>3, <2>1 DEF OpsNext, Live
<1>4. ASSUME NEW o \in DOMAIN ops, NEW c \in {"landed", "lost"}, ops[o].catalog = "inflight",
             \/ ops' = [ops EXCEPT ![o].catalog = c]
             \/ ops' = [ops EXCEPT ![o].catalog = c, ![o].intent = "none"],
             receipts' = receipts
      PROVE  OpsNext
  <2>1. /\ OpsKept /\ Len(ops') = Len(ops) /\ DOMAIN ops' = DOMAIN ops
        /\ ops'[o].catalog = c /\ ops'[o].intent \in {ops[o].intent, "none"}
        /\ \A p \in DOMAIN ops : p # o => ops'[p] = ops[p]
    BY <1>0, <1>4, RequestTyped
  <2> QED
    BY <1>4, <2>1 DEF OpsNext, Live
<1>5. ASSUME NEW do \in {"append", "roll", "truncate", "reset"}, NEW lo \in Nat, NEW hi \in Nat,
             NEW keys \in Seq(Key), Begin(do, lo, hi, keys),
             pc \in {"reset", "read", "batch", "append", "spool"}, (do = "reset") <=> (pc = "reset"),
             UNCHANGED <<snap, progress, table, view, emitted, cursor, rolling, chunk, todo, safe, receipts>>
      PROVE  OpsNext
  <2>1. /\ OpsKept /\ Len(ops') = Len(ops) + 1
        /\ DOMAIN ops' = DOMAIN ops \cup {Len(ops')} /\ Len(ops') \notin DOMAIN ops
        /\ \A o \in DOMAIN ops : ops'[o] = ops[o]
        /\ Current' = [table |-> table, do |-> do, lo |-> lo, hi |-> hi,
                       keys |-> keys, seen |-> view,
                       intent |-> "PREPARED", catalog |-> "inflight"]
        /\ Current' = ops'[Len(ops')] /\ pc' = "commit"
    BY <1>0, <1>5, BegunTyped
  <2>2. /\ Current'.table = table /\ Current'.seen = view /\ Current'.do = do
        /\ Current'.intent = "PREPARED" /\ Current'.catalog = "inflight"
    BY <2>1
  <2>3. Asks
    BY <1>5, <2>1, <2>2 DEF Asks
  <2>4. \A o \in DOMAIN ops : Live(o)' => Live(o)
    BY <1>5, <2>1 DEF Live
  <2> QED
    BY <2>1, <2>3, <2>4 DEF OpsNext
<1>6. ASSUME NEW o \in DOMAIN ops, RecoverOne(o)
      PROVE  OpsNext
  BY <1>2, <1>3, <1>6 DEF RecoverOne, Intents
<1>7. ASSUME \/ RecoverDone \/ EnsureTables \/ ResetInitialCheckpoint \/ BeginSnapshot
             \/ ResumeSnapshot \/ ResumeConfirmed \/ PlanTables \/ ReadChunk \/ TableRead
             \/ DeleteKeys \/ BatchWritten \/ SpoolChunk \/ ConfirmCompletion \/ ClearProgress
             \/ \E initial \in BOOLEAN : StartRun(initial)
             \/ SourceRetry \/ RunRefused \/ RunEnds \/ UNCHANGED vars
             \/ \E t \in Table, k \in Key : Change(t, k)
      PROVE  OpsNext
  <2>1. ops' = ops /\ receipts' \subseteq receipts
    BY <1>7 DEF RecoverDone, EnsureTables, ResetInitialCheckpoint, BeginSnapshot, ResumeSnapshot,
       ResumeConfirmed, PlanTables, ReadChunk, TableRead, DeleteKeys, BatchWritten, SpoolChunk,
       ConfirmCompletion, ClearProgress, StartRun, SourceRetry, RunRefused, RunEnds, EndRun,
       vars, Change
  <2> QED
    BY <1>1, <2>1
<1>8. ASSUME OpenTable \/ Acknowledged \/ RolledSaved \/ Rebuild
      PROVE  OpsNext
  <2>1. receipts' = receipts /\ (ops' = ops \/ \E S : ops' = SetIntents(S, "none"))
    BY <1>8 DEF OpenTable, Acknowledged, RolledSaved, Rebuild, SaveSnapshotProgress
  <2> QED
    BY <1>1, <1>2, <2>1
<1>9. ASSUME AppendAnswered \/ TruncateAnswered \/ RollAnswered \/ ResetAnswered
      PROVE  OpsNext
  <2>1. /\ pc = "commit" /\ receipts' = receipts
        /\ ops' = SetIntents({Len(ops)}, "none") \/ ops' = SetIntents({Len(ops)}, "COMMITTED")
    BY <1>9 DEF AppendAnswered, TruncateAnswered, RollAnswered, ResetAnswered, Answered
  <2> QED
    BY <1>a, <1>2, <1>3, <2>1
<1>10. ASSUME NEW o \in DOMAIN ops, CatalogAccepts(o) \/ CatalogLoses(o)
       PROVE  OpsNext
  BY <1>4, <1>10 DEF CatalogAccepts, CatalogLoses
<1>11. ASSUME CommitRejected
       PROVE  OpsNext
  BY <1>a, <1>4, <1>11 DEF CommitRejected, Current
<1>12. <<>> \in Seq(Key) /\ 0 \in Nat
  BY EmptySeq
<1>13. ASSUME ResetTarget
       PROVE  OpsNext
  <2>1. /\ Begin("reset", 0, 0, <<>>) /\ pc = "reset"
        /\ UNCHANGED <<snap, progress, table, view, emitted, cursor, rolling, chunk, todo, safe, receipts>>
    BY <1>13 DEF ResetTarget
  <2> QED
    BY <1>5, <1>12, <2>1, "reset" \in {"append", "roll", "truncate", "reset"}
<1>14. ASSUME AppendPiece
       PROVE  OpsNext
  <2>1. /\ Begin("append", Head(todo).lo, PieceEnd(Head(todo)), Head(todo).keys)
        /\ todo # <<>> /\ pc \in {"batch", "append"}
        /\ UNCHANGED <<snap, progress, table, view, emitted, cursor, rolling, chunk, todo, safe, receipts>>
    BY <1>14 DEF AppendPiece
  <2>2. /\ Head(todo).lo \in Nat /\ PieceEnd(Head(todo)) \in Nat
        /\ Head(todo).keys \in Seq(Key)
    BY <1>0, <2>1, HeadTyped
  <2> QED
    BY <1>5, <2>1, <2>2, "append" \in {"append", "roll", "truncate", "reset"}
<1>15. ASSUME TableRolled
       PROVE  OpsNext
  <2>1. pc = "read" /\ UNCHANGED <<snap, progress, table, view, emitted, cursor, rolling, chunk, todo, safe, receipts>>
    BY <1>15 DEF TableRolled
  <2>2. CASE spool[table] = <<>>
    BY <1>1, <1>15, <2>1, <2>2 DEF TableRolled
  <2>3. CASE spool[table] # <<>>
    <3>1. Begin("roll", 0, emitted, spool[table])
      BY <1>15, <2>3 DEF TableRolled
    <3>2. emitted \in Nat /\ spool[table] \in Seq(Key)
      BY <1>0 DEF TypeOK
    <3> QED
      BY <1>5, <1>12, <2>1, <3>1, <3>2, "roll" \in {"append", "roll", "truncate", "reset"}
  <2> QED
    BY <2>2, <2>3
<1>16. ASSUME TruncateForBatch \/ TruncateForSpool
       PROVE  OpsNext
  <2>1. /\ pc \in {"batch", "spool"}
        /\ UNCHANGED <<snap, progress, table, view, emitted, cursor, rolling, chunk, todo, safe, receipts>>
    BY <1>16 DEF TruncateForBatch, TruncateForSpool
  <2>2. PICK lo \in Nat, hi \in Nat : TruncateFirst(lo, hi)
    <3>1. CASE TruncateForBatch
      BY <1>0, <3>1, HeadTyped DEF TruncateForBatch
    <3>2. CASE TruncateForSpool
      BY <1>0, <3>2, ChunkEnds, ProgressTyped DEF TruncateForSpool, Writing
    <3> QED
      BY <1>16, <3>1, <3>2
  <2>3. CASE conf.trino
    BY <1>1, <2>1, <2>2, <2>3 DEF TruncateFirst
  <2>4. CASE ~conf.trino
    <3>1. Begin("truncate", lo, hi, <<>>)
      BY <2>2, <2>4 DEF TruncateFirst
    <3> QED
      BY <1>5, <1>12, <2>1, <3>1, "truncate" \in {"append", "roll", "truncate", "reset"}
  <2> QED
    BY <2>3, <2>4
<1> QED
  BY <1>6, <1>7, <1>8, <1>9, <1>10, <1>11, <1>13, <1>14, <1>15, <1>16 DEF Next, RunStep

-----------------------------------------------------------------------------
(* Where the run is, and what it knows *)

(* The parts of the invariant.                                             *)
LEMMA CopyParts ==
  ASSUME CopyInv
  PROVE  /\ InFlightOpen /\ ConfirmedQuiet
         /\ PlaceInv /\ TypeOK /\ OpsTyped /\ ChunkPlace /\ CommitPlace /\ ResetsFirst
         /\ UnderWay /\ OneOpen /\ ReceiptsTrue /\ OpsPast /\ ProgressSound /\ OpenPlace
         /\ ReadPlace /\ ChunkExact /\ EndPlace /\ TodoPlace /\ Asked /\ TruncatedFirst
  BY DEF CopyInv, LateInv, PlaceInv, Books, TypeOK, OpsTyped

(* A run at the tables has a snapshot that goes on.                         *)
LEMMA UnderWayStep ==
  ASSUME CopyInv, [Next]_vars
  PROVE  UnderWay'
<1> USE DEF Goto, sourceVars, durableVars, tableVars, sinkVars
<1>0. PlaceInv /\ UnderWay
  BY CopyParts
<1>1. ASSUME SinkWorks \/ Outside
      PROVE  UnderWay'
  BY <1>0, <1>1, Kinds DEF Stays, UnderWay, Reads
<1>2. ASSUME SourceWorks
      PROVE  UnderWay'
  <2>1. snap' = "started"
    BY <1>0, <1>2 DEF SourceWorks, BeginSnapshot, ResumeSnapshot, SourceRetry, PlanTables,
       OpenTable, ReadChunk, Acknowledged, TableRead, RolledSaved, UnderWay, Reads
  <2> QED
    BY <2>1 DEF UnderWay
<1>3. ASSUME Leaves
      PROVE  UnderWay'
  <2>1. pc' = "complete" => snap' # "none"
    BY <1>3 DEF Leaves, RecoverOne, RecoverDone, EnsureTables, ResetTarget, Begin,
       ResetInitialCheckpoint, ResumeConfirmed, ResetAnswered, ConfirmCompletion, ClearProgress,
       StartRun, Rebuild, RunRefused, RunEnds, EndRun
  <2> QED
    BY <1>0, <1>3, <2>1, Kinds DEF AtTables, UnderWay
<1> QED
  BY <1>0, <1>1, <1>2, <1>3, Kinds

(* A request that the run waits for is answered, or the run ends.           *)
LEMMA FromCommit ==
  ASSUME CopyInv, [Next]_vars, pc = "commit"
  PROVE  \/ pc' = "down"
         \/ pc' = "commit" /\ Outside
         \/ ops'[Len(ops)].intent # "PREPARED"
<1> USE DEF Goto, sourceVars, durableVars, tableVars, sinkVars
<1>0. PlaceInv /\ OpsTyped /\ CommitPlace
  BY CopyParts
<1>1. Len(ops) \in DOMAIN ops
  <2>1. ops # <<>>
    BY <1>0 DEF CommitPlace
  <2> QED
    BY <1>0, <2>1, EmptySeq DEF OpsTyped
<1>2. ASSUME NEW st \in {"none", "COMMITTED"}, ops' = SetIntents({Len(ops)}, st)
      PROVE  ops'[Len(ops)].intent # "PREPARED"
  BY <1>0, <1>1, <1>2, SettledTyped
<1>3. ASSUME AppendAnswered \/ TruncateAnswered \/ RollAnswered \/ ResetAnswered
      PROVE  ops'[Len(ops)].intent # "PREPARED"
  <2>1. ops' = SetIntents({Len(ops)}, "none") \/ ops' = SetIntents({Len(ops)}, "COMMITTED")
    BY <1>3 DEF AppendAnswered, TruncateAnswered, RollAnswered, ResetAnswered, Answered
  <2> QED
    BY <1>2, <2>1
<1>4. ASSUME CommitRejected
      PROVE  ops'[Len(ops)].intent # "PREPARED"
  <2>1. /\ ops' = [ops EXCEPT ![Len(ops)].catalog = "lost", ![Len(ops)].intent = "none"]
        /\ ops[Len(ops)] \in OpRecord
    BY <1>0, <1>1, <1>4 DEF CommitRejected, OpsTyped
  <2> QED
    BY <1>1, <2>1 DEF OpRecord
<1>5. ASSUME Leaves, ~ResetAnswered
      PROVE  pc' = "down"
  BY <1>5 DEF Leaves, RecoverOne, RecoverDone, EnsureTables, ResetTarget,
     ResetInitialCheckpoint, ResumeConfirmed, ConfirmCompletion, ClearProgress,
     StartRun, Rebuild, RunRefused, RunEnds, EndRun
<1>6. ~SourceWorks
  BY DEF SourceWorks, BeginSnapshot, ResumeSnapshot, SourceRetry, PlanTables,
     OpenTable, ReadChunk, Acknowledged, TableRead, RolledSaved
<1>7. ~(DeleteKeys \/ BatchWritten \/ SpoolChunk \/ TableRolled \/ TruncateForBatch
        \/ TruncateForSpool \/ AppendPiece)
  BY DEF DeleteKeys, BatchWritten, SpoolChunk, TableRolled, TruncateForBatch,
     TruncateForSpool, AppendPiece
<1>8. Outside => pc' = "commit"
  BY DEF Outside
<1> QED
  BY <1>0, <1>3, <1>4, <1>5, <1>6, <1>7, <1>8, Kinds DEF SinkWorks

(* Receipts are of requests that have landed.                              *)
LEMMA ReceiptStep ==
  ASSUME CopyInv, [Next]_vars
  PROVE  \/ receipts' \subseteq receipts
         \/ \E o \in DOMAIN ops : /\ RecoverOne(o) /\ Proven(o) /\ receipts' = receipts \cup {o}
                                  /\ ops' = SetIntents({o}, "COMMITTED")
<1> USE DEF sourceVars, durableVars, tableVars, sinkVars
<1>0. PlaceInv
  BY CopyParts
<1>1. ASSUME SinkWorks \/ Outside
      PROVE  receipts' = receipts
  BY <1>0, <1>1, Kinds DEF Stays
<1>2. ASSUME SourceWorks
      PROVE  receipts' = receipts
  BY <1>2 DEF SourceWorks, BeginSnapshot, ResumeSnapshot, SourceRetry, PlanTables,
       OpenTable, ReadChunk, Acknowledged, TableRead, RolledSaved
<1>3. ASSUME NEW o \in DOMAIN ops, RecoverOne(o)
      PROVE  \/ receipts' = receipts
             \/ /\ Proven(o) /\ receipts' = receipts \cup {o}
                /\ ops' = SetIntents({o}, "COMMITTED")
  BY <1>3 DEF RecoverOne
<1>4. ASSUME Leaves, ~(\E o \in DOMAIN ops : RecoverOne(o))
      PROVE  receipts' \subseteq receipts
  BY <1>4 DEF Leaves, RecoverDone, EnsureTables, ResetTarget,
     ResetInitialCheckpoint, ResumeConfirmed, ResetAnswered, Answered, ConfirmCompletion, ClearProgress,
     StartRun, Rebuild, RunRefused, RunEnds, EndRun
<1> QED
  BY <1>0, <1>1, <1>2, <1>3, <1>4, Kinds

(* One request is open at a time.                                          *)
LEMMA OneOpenStep ==
  ASSUME CopyInv, [Next]_vars
  PROVE  OneOpen'
<1> USE DEF Goto, sourceVars, durableVars, tableVars, sinkVars
<1>0. /\ PlaceInv /\ OneOpen /\ ReceiptsTrue /\ ResetsFirst /\ UnderWay /\ OpsTyped
      /\ OpsNext
  BY CopyParts, OpsStep
<1>1. ASSUME NEW o \in DOMAIN ops', ops'[o].intent = "PREPARED"
      PROVE  pc' \in {"down", "recover"} \/ (pc' = "commit" /\ o = Len(ops'))
  <2>1. CASE Asks
    BY <1>0, <1>1, <2>1 DEF Asks, OneOpen
  <2>2. CASE DOMAIN ops' = DOMAIN ops /\ Len(ops') = Len(ops)
    <3>1. o \in DOMAIN ops /\ ops[o].intent = "PREPARED"
      BY <1>0, <1>1, <2>2 DEF OpsNext
    <3>2. pc \in {"down", "recover"} \/ (pc = "commit" /\ o = Len(ops))
      BY <1>0, <3>1 DEF OneOpen
    <3>3. CASE pc = "commit" /\ o = Len(ops)
      BY <1>1, <2>2, <3>3, FromCommit
    <3>4. CASE pc \in {"down", "recover"}
      <4>1. ~SourceWorks /\ ~SinkWorks
        BY <3>4 DEF SourceWorks, BeginSnapshot, ResumeSnapshot, SourceRetry, PlanTables,
           OpenTable, ReadChunk, Acknowledged, TableRead, RolledSaved, SinkWorks,
           DeleteKeys, BatchWritten, SpoolChunk, AppendAnswered, TruncateAnswered, RollAnswered, Answered,
           CommitRejected, TableRolled, TruncateForBatch, TruncateForSpool, AppendPiece
      <4>2. ~RecoverDone
        BY <1>0, <3>1 DEF RecoverDone, ReceiptsTrue, Intents
      <4>3. Leaves => pc' \in {"down", "recover"}
        BY <3>4, <4>2 DEF Leaves, RecoverOne, EnsureTables, ResetTarget,
           ResetInitialCheckpoint, ResumeConfirmed, ResetAnswered, Answered, ConfirmCompletion, ClearProgress,
           StartRun, Rebuild, RunRefused, RunEnds, EndRun
      <4>4. Outside => pc' = pc
        BY DEF Outside
      <4> QED
        BY <1>0, <3>4, <4>1, <4>3, <4>4, Kinds
    <3> QED
      BY <3>2, <3>3, <3>4
  <2> QED
    BY <1>0, <2>1, <2>2 DEF OpsNext
<1>2. ASSUME NEW o \in DOMAIN ops', ops'[o].do = "reset", ops'[o].intent # "none"
      PROVE  snap' = "none"
  <2>1. CASE Asks /\ o \notin DOMAIN ops
    BY <1>0, <1>2, <2>1 DEF Asks, ResetsFirst
  <2>2. CASE o \in DOMAIN ops
    <3>1. ops[o].do = "reset" /\ ops[o].intent # "none"
      BY <1>0, <1>2, <2>2 DEF OpsNext, OpsKept, SameRequest
    <3>2. snap = "none"
      BY <1>0, <2>2, <3>1 DEF OneOpen
    <3>3. ~BeginSnapshot
      BY <1>0, <2>2, <3>1 DEF BeginSnapshot, ReceiptsTrue, Intents
    <3>4. SourceWorks => snap' = snap
      BY <3>3 DEF SourceWorks, ResumeSnapshot, SourceRetry, PlanTables,
           OpenTable, ReadChunk, Acknowledged, TableRead, RolledSaved
    <3>5. ~ConfirmCompletion
      BY <1>0, <3>2 DEF ConfirmCompletion, UnderWay
    <3>6. Leaves => snap' \in {snap, "none"}
      BY <3>5 DEF Leaves, RecoverOne, RecoverDone, EnsureTables, ResetTarget,
           ResetInitialCheckpoint, ResumeConfirmed, ResetAnswered, Answered, ClearProgress,
           StartRun, Rebuild, RunRefused, RunEnds, EndRun
    <3> QED
      BY <1>0, <3>2, <3>4, <3>6, Kinds DEF Stays
  <2> QED
    BY <1>0, <2>1, <2>2 DEF OpsNext
<1> QED
  BY <1>1, <1>2 DEF OneOpen

(* What a run knows of earlier requests.                                   *)
LEMMA ReceiptsTrueStep ==
  ASSUME CopyInv, [Next]_vars
  PROVE  ReceiptsTrue'
<1> USE DEF Goto, sourceVars, durableVars, tableVars, sinkVars
<1>0. /\ PlaceInv /\ OneOpen /\ ReceiptsTrue /\ ResetsFirst /\ CommitPlace /\ OpsTyped
      /\ OpsNext
  BY CopyParts, OpsStep
<1>d. DOMAIN ops \subseteq DOMAIN ops'
  BY <1>0 DEF OpsNext, OpsKept
<1>1. ASSUME NEW o \in receipts'
      PROVE  /\ o \in DOMAIN ops' /\ ops'[o].catalog = "landed"
             /\ RecoverableDataOperation(o)' /\ ops'[o].intent # "PREPARED"
  <2>1. CASE o \in receipts
    <3>1. /\ o \in DOMAIN ops /\ ops[o].catalog = "landed"
          /\ RecoverableDataOperation(o) /\ ops[o].intent # "PREPARED"
      BY <1>0, <2>1 DEF ReceiptsTrue
    <3>2. ops'[o].do = ops[o].do
      BY <1>0, <3>1 DEF OpsNext, OpsKept, SameRequest
    <3> QED
      BY <1>0, <1>d, <3>1, <3>2 DEF OpsNext, RecoverableDataOperation
  <2>2. CASE o \notin receipts
    <3>1. /\ o \in DOMAIN ops /\ Proven(o) /\ ops' = SetIntents({o}, "COMMITTED")
      BY <1>1, <2>2, ReceiptStep
    <3>2. ops'[o].catalog = ops[o].catalog /\ ops'[o].intent = "COMMITTED" /\ ops'[o].do = ops[o].do
      <4>1. /\ OpsKept /\ \A p \in DOMAIN ops :
              /\ ops'[p].catalog = ops[p].catalog
              /\ ops'[p].intent = IF p \in {o} THEN "COMMITTED" ELSE ops[p].intent
        BY <1>0, <3>1, SettledTyped
      <4> QED
        BY <3>1, <4>1 DEF OpsKept, SameRequest
    <3> QED
      BY <1>d, <3>1, <3>2 DEF Proven, RecoverableDataOperation
  <2> QED
    BY <2>1, <2>2
\* What else ReceiptsTrue says, by the place.
<1> DEFINE Places ==
      /\ pc' = "down" => receipts' = {}
      /\ pc' \in {"recover", "ensure", "reset", "start"} \/ Resetting' => receipts' \subseteq Intents'
      /\ pc' \in {"ensure", "reset", "start"} => Intents' \subseteq receipts'
      /\ Resetting' => Intents' \ {Len(ops')} \subseteq receipts'
      /\ pc' = "capture" => receipts' = {} /\ Intents' = {} /\ progress' = NoProgress
<1>2. ASSUME ops' = ops
      PROVE  Intents' = Intents
  BY <1>2 DEF Intents
<1>3. ASSUME pc' \notin {"down", "recover", "ensure", "reset", "start", "capture", "commit"}
      PROVE  Places
  BY <1>3 DEF Resetting
<1>4. ASSUME SourceWorks
      PROVE  Places
  <2>1. pc' \notin {"down", "recover", "ensure", "reset", "start", "capture", "commit"}
    BY <1>4 DEF SourceWorks, BeginSnapshot, StartBarrier, ResumeSnapshot, SourceRetry, PlanTables,
       OpenTable, ReadChunk, Acknowledged, TableRead, RolledSaved, NextTable
  <2> QED
    BY <1>3, <2>1
<1>5. ASSUME Outside
      PROVE  Places
  <2>1. /\ DOMAIN ops' = DOMAIN ops /\ Len(ops') = Len(ops) /\ pc' = pc /\ receipts' = receipts
        /\ progress' = progress
        /\ \A o \in DOMAIN ops : ops'[o].intent = ops[o].intent
    BY <1>5 DEF Outside
  <2>2. Intents' = Intents
    BY <2>1 DEF Intents
  <2>3. Resetting' <=> Resetting
    <3>1. pc = "commit" => Current'.do = Current.do
      BY <1>0, <1>5, SameCurrent DEF Outside, CommitPlace
    <3> QED
      BY <2>1, <3>1 DEF Resetting
  <2> HIDE DEF Resetting
  <2> QED
    BY <1>0, <2>1, <2>2, <2>3 DEF ReceiptsTrue
<1>6. ASSUME SinkWorks
      PROVE  Places
  <2>1. Reads'
    BY <1>0, <1>6, Kinds DEF Stays
  <2> QED
    BY <2>1 DEF Reads, Resetting
<1>7. ASSUME NEW o \in DOMAIN ops, RecoverOne(o)
      PROVE  Places
  <2>1. /\ pc = "recover" /\ pc' = "recover" /\ o \in Intents \ receipts
        /\ \/ ops' = SetIntents({o}, "none") /\ receipts' = receipts
           \/ ops' = SetIntents({o}, "COMMITTED") /\ receipts' = receipts \cup {o}
    BY <1>7 DEF RecoverOne
  <2>2. PICK st \in {"none", "COMMITTED"} :
          /\ ops' = SetIntents({o}, st)
          /\ receipts' = IF st = "none" THEN receipts ELSE receipts \cup {o}
    BY <2>1
  <2>3. /\ DOMAIN ops' = DOMAIN ops
        /\ \A p \in DOMAIN ops : ops'[p].intent = IF p \in {o} THEN st ELSE ops[p].intent
    BY <1>0, <2>2, SettledTyped
  <2>4. receipts \subseteq Intents
    BY <1>0, <2>1 DEF ReceiptsTrue
  <2>5. receipts' \subseteq Intents'
    BY <2>1, <2>2, <2>3, <2>4 DEF Intents
  <2> QED
    BY <2>1, <2>5 DEF Resetting
<1>8. ASSUME RecoverDone \/ EnsureTables
      PROVE  Places
  <2>1. /\ ops' = ops /\ receipts' = receipts
        /\ \/ pc = "recover" /\ pc' = "ensure" /\ Intents \subseteq receipts
           \/ pc = "ensure" /\ pc' \in {"reset", "start"}
    BY <1>8 DEF RecoverDone, EnsureTables
  <2> QED
    BY <1>0, <1>2, <2>1 DEF ReceiptsTrue, Resetting
<1>9. ASSUME ResetTarget
      PROVE  Places
  <2>1. pc = "reset" /\ receipts' = receipts /\ pc' = "commit"
    BY <1>9 DEF ResetTarget, Begin
  <2>2. Asks
    <3>1. Len(ops') # Len(ops)
      <4>1. Begin("reset", 0, 0, <<>>) /\ <<>> \in Seq(Key) /\ 0 \in Nat
        BY <1>9, EmptySeq DEF ResetTarget
      <4>2. Len(ops') = Len(ops) + 1
        BY <1>0, <4>1, BegunTyped, "reset" \in {"append", "roll", "truncate", "reset"} DEF PlaceInv, TypeOK
      <4> QED
        BY <1>0, <4>2 DEF OpsTyped
    <3> QED
      BY <1>0, <3>1 DEF OpsNext
  <2>3. receipts \subseteq Intents /\ Intents \subseteq receipts
    BY <1>0, <2>1 DEF ReceiptsTrue
  <2>4. Intents \subseteq Intents' /\ Intents' \subseteq Intents \cup {Len(ops')}
    BY <2>2 DEF Asks, Intents
  <2> QED
    BY <2>1, <2>3, <2>4
<1>10. ASSUME ResetAnswered
       PROVE  Places
  <2>1. /\ pc = "commit" /\ Current.do = "reset" /\ pc' \in {"start", "reset"} /\ receipts' = receipts
        /\ ops' = SetIntents({Len(ops)}, "none")
    BY <1>10 DEF ResetAnswered, Answered
  <2>2. /\ DOMAIN ops' = DOMAIN ops
        /\ \A p \in DOMAIN ops : ops'[p].intent = IF p \in {Len(ops)} THEN "none" ELSE ops[p].intent
    <3> DEFINE S == {Len(ops)}
               st == "none"
    <3>1. OpsTyped /\ st \in {"none", "PREPARED", "COMMITTED"} /\ ops' = SetIntents(S, st)
      BY <1>0, <2>1
    <3> HIDE DEF S, st
    <3>2. /\ DOMAIN ops' = DOMAIN ops
          /\ \A p \in DOMAIN ops : ops'[p].intent = IF p \in S THEN st ELSE ops[p].intent
      BY <3>1, SettledTyped
    <3> QED
      BY <3>2 DEF S, st
  <2>3. Intents' = Intents \ {Len(ops)}
    BY <2>2 DEF Intents
  <2>4. receipts \subseteq Intents /\ Intents \ {Len(ops)} \subseteq receipts /\ Len(ops) \notin receipts
    BY <1>0, <2>1 DEF ReceiptsTrue, Resetting, RecoverableDataOperation, Current
  <2> QED
    BY <2>1, <2>3, <2>4 DEF Resetting
<1>11. ASSUME ResetInitialCheckpoint
       PROVE  Places
  <2>1. /\ pc = "start" /\ pc' = "capture" /\ Intents = {} /\ ops' = ops /\ receipts' = receipts
        /\ progress' = NoProgress
    BY <1>11 DEF ResetInitialCheckpoint
  <2>2. receipts = {}
    BY <1>0, <2>1 DEF ReceiptsTrue
  <2> QED
    BY <1>2, <2>1, <2>2 DEF Resetting
<1>12. ASSUME ResumeConfirmed \/ ConfirmCompletion \/ ClearProgress
       PROVE  Places
  <2>1. pc' \in {"complete", "clear", "done"}
    BY <1>12 DEF ResumeConfirmed, ConfirmCompletion, ClearProgress
  <2> QED
    BY <1>3, <2>1
<1>13. ASSUME (\E initial \in BOOLEAN : StartRun(initial)) \/ Rebuild \/ RunRefused \/ RunEnds
       PROVE  Places
  <2>1. /\ pc' \in {"recover", "down"}
        /\ receipts' = {}
    BY <1>0, <1>13 DEF StartRun, Rebuild, RunRefused, RunEnds, EndRun, ReceiptsTrue
  <2> QED
    BY <2>1 DEF Resetting
<1>14. Places
  BY <1>0, <1>4, <1>5, <1>6, <1>7, <1>8, <1>9, <1>10, <1>11, <1>12, <1>13, Kinds DEF Leaves
<1> QED
  BY <1>1, <1>14 DEF ReceiptsTrue

(* Good rows of a table that is read are the ones of the view.              *)
LEMMA GoodKept ==
  ASSUME SourceKept
  PROVE  \A t \in Table, k \in Key : Good(t, k)' => Good(t, k)
  BY DEF SourceKept, Good

(* Progress is saved when a table is opened, after a chunk, and at the end  *)
(* of a rolled table.                                                      *)
LEMMA Advances ==
  ASSUME CopyInv, [Next]_vars, snap' = "started", ~BeginSnapshot
  PROVE  /\ snap = "started"
         /\ \/ progress' = progress
            \/ /\ UNCHANGED <<conf, src, touched, target, receipts, safe>>
               /\ DOMAIN ops' = DOMAIN ops
               /\ \/ pc = "open" /\ pc' \in {"read", "plan"} /\ progress' = Saved(emitted, cursor)
                  \/ /\ pc = "ack" /\ pc' \in {"read", "plan"} /\ ~rolling
                     /\ progress' = Saved(emitted + Len(chunk), Last(chunk))
                  \/ /\ pc = "rolled" /\ pc' \in {"open", "complete", "plan"}
                     /\ progress' = Saved(emitted, cursor)
<1> USE DEF Goto, sourceVars, durableVars, tableVars, sinkVars
<1>0. PlaceInv /\ TypeOK /\ ResetsFirst
  BY CopyParts
<1>1. ASSUME SinkWorks \/ Outside
      PROVE  snap = "started" /\ progress' = progress
  BY <1>0, <1>1, Kinds DEF Stays
<1>2. ASSUME Leaves
      PROVE  snap = "started" /\ progress' = progress
  <2>1. ~ClearProgress
    BY <1>0 DEF ClearProgress, ResetsFirst
  <2> QED
    BY <1>2, <2>1 DEF Leaves, RecoverOne, RecoverDone, EnsureTables, ResetTarget,
       ResetInitialCheckpoint, ResumeConfirmed, ResetAnswered, Answered, ConfirmCompletion,
       StartRun, Rebuild, RunRefused, RunEnds, EndRun
<1>3. ASSUME ResumeSnapshot \/ PlanTables \/ ReadChunk \/ TableRead
      PROVE  snap = "started" /\ progress' = progress
  BY <1>3 DEF ResumeSnapshot, PlanTables, ReadChunk, TableRead
<1>4. ASSUME NEW next, NEW cur, SaveSnapshotProgress(next, cur)
      PROVE  DOMAIN ops' = DOMAIN ops /\ progress' = Saved(next, cur)
  BY <1>4 DEF SaveSnapshotProgress, SetIntents
<1>5. ASSUME OpenTable
      PROVE  /\ snap = "started" /\ UNCHANGED <<conf, src, touched, target, receipts, safe>>
             /\ DOMAIN ops' = DOMAIN ops
             /\ pc = "open" /\ pc' = "read" /\ progress' = Saved(emitted, cursor)
  BY <1>4, <1>5 DEF OpenTable
<1>6. ASSUME Acknowledged
      PROVE  /\ snap = "started" /\ UNCHANGED <<conf, src, touched, target, receipts, safe>>
             /\ \/ progress' = progress
                \/ /\ DOMAIN ops' = DOMAIN ops /\ pc = "ack" /\ pc' = "read" /\ ~rolling
                   /\ progress' = Saved(emitted + Len(chunk), Last(chunk))
  BY <1>4, <1>6 DEF Acknowledged, BatchSaves
<1>7. ASSUME RolledSaved
      PROVE  /\ snap = "started" /\ UNCHANGED <<conf, src, touched, target, receipts, safe>>
             /\ DOMAIN ops' = DOMAIN ops
             /\ pc = "rolled" /\ pc' \in {"open", "complete"} /\ progress' = Saved(emitted, cursor)
  BY <1>4, <1>7 DEF RolledSaved, NextTable
<1>8. ASSUME SourceRetry
      PROVE  /\ snap = "started" /\ UNCHANGED <<conf, src, touched, target, receipts, safe>>
             /\ DOMAIN ops' = DOMAIN ops /\ pc' = "plan"
             /\ \/ progress' = progress
                \/ /\ pc = "ack" /\ ~rolling
                   /\ progress' = Saved(emitted + Len(chunk), Last(chunk))
                \/ pc \in {"open", "rolled"} /\ progress' = Saved(emitted, cursor)
  BY <1>8 DEF SourceRetry, BatchSaves
<1> QED
  BY <1>0, <1>1, <1>2, <1>3, <1>5, <1>6, <1>7, <1>8, Kinds DEF SourceWorks

(* Nothing is left when the query returns nothing.                         *)
LEMMA NothingLeft ==
  ASSUME TypeOK, Remaining = <<>>
  PROVE  \A k \in view : k <= cursor
<1>1. view \subseteq Key /\ cursor \in Key \cup {NoKey}
  BY DEF TypeOK
<1>2. /\ IsFiniteSet(Left) /\ Len(Remaining) = Cardinality(Left)
  BY <1>1, QueryRows
<1>3. Cardinality(Left) = 0
  BY <1>2, EmptySeq
<1>4. Left = {}
  BY <1>2, <1>3, FS_EmptySet
<1>5. \A k \in view : k \in Nat /\ cursor \in Nat
  BY <1>1 DEF Key, NoKey
<1> QED
  BY <1>4, <1>5 DEF Left

(* The batch: its places, and what follows it.                             *)
LEMMA BatchFacts ==
  ASSUME CopyInv, Writing
  PROVE  /\ chunk \in Seq(Key) /\ Len(chunk) \in 1..ChunkSize /\ ChunkSize \in Nat
         /\ Len(chunk) \in Nat
         /\ Last(chunk) = chunk[Len(chunk)] /\ Last(chunk) \in Key /\ cursor < Last(chunk)
         /\ \A m \in 1..Len(chunk) :
              /\ chunk[m] \in view /\ chunk[m] \in Key /\ cursor < chunk[m]
              /\ Reached(view, cursor, chunk[m]) = m
              /\ chunk[m] <= Last(chunk)
         /\ \A k \in view : cursor < k =>
              \/ \E m \in 1..Len(chunk) : chunk[m] = k
              \/ /\ Len(chunk) = ChunkSize /\ Len(chunk) < Reached(view, cursor, k)
                 /\ Last(chunk) < k
<1>1. /\ TypeOK /\ Remaining # <<>> /\ chunk = SnapshotQuery
  BY CopyParts DEF ChunkExact
<1>2. view \subseteq Key /\ cursor \in Key \cup {NoKey} /\ ChunkSize \in Nat
  BY <1>1, CopyAssumption DEF TypeOK
<1>3. /\ chunk \in Seq(Key) /\ Len(chunk) \in 1..ChunkSize
      /\ \A m \in 1..Len(chunk) :
           /\ chunk[m] \in view /\ cursor < chunk[m]
           /\ Reached(view, cursor, chunk[m]) = m
           /\ chunk[m] <= chunk[Len(chunk)]
      /\ \A k \in view : cursor < k =>
           \/ \E m \in 1..Len(chunk) : chunk[m] = k
           \/ /\ Len(chunk) = ChunkSize /\ Len(chunk) < Reached(view, cursor, k)
              /\ chunk[Len(chunk)] < k
  BY <1>1, <1>2, BatchPlaces
<1>4. Last(chunk) = chunk[Len(chunk)]
  BY DEF Last
<1>5. Len(chunk) \in Nat /\ Len(chunk) \in 1..Len(chunk)
  BY <1>2, <1>3
<1>6. \A m \in 1..Len(chunk) : chunk[m] \in Key
  BY <1>2, <1>3
<1>7. Last(chunk) \in Key /\ cursor < Last(chunk)
  BY <1>3, <1>4, <1>5, <1>6
<1> QED
  BY <1>2, <1>3, <1>4, <1>5, <1>6, <1>7

(* Where the run reads, the place of the cursor and of the rows after it.   *)
LEMMA ReadFacts ==
  ASSUME CopyInv, Reads
  PROVE  /\ progress.table = table /\ table \in Table /\ snap = "started"
         /\ progress.cursor \in Nat /\ progress.next \in Nat /\ emitted \in Nat /\ cursor \in Nat
         /\ progress.cursor <= cursor /\ progress.next <= emitted
         /\ ~rolling => progress.cursor = cursor /\ progress.next = emitted
         /\ view \in SUBSET Key
         /\ \A k \in Key : Good(table, k) => k \in view
         /\ \A k \in view : k \in Nat /\ Reached(view, progress.cursor, k) \in Nat
         /\ \A k \in view : cursor < k =>
              /\ Reached(view, cursor, k) \in Nat
              /\ progress.next + Reached(view, progress.cursor, k) = emitted + Reached(view, cursor, k)
         /\ \A k \in view : k <= cursor =>
              progress.next + Reached(view, progress.cursor, k) <= emitted
<1>1. /\ TypeOK /\ ReadPlace /\ UnderWay /\ PlaceInv /\ ProgressSound
  BY CopyParts
<1>2. /\ progress.cursor \in Nat /\ progress.next \in Nat /\ emitted \in Nat /\ cursor \in Nat
      /\ view \in SUBSET Key /\ table \in Table
  BY <1>1, ProgressTyped DEF TypeOK
<1>3. /\ progress.table = table
      /\ emitted = progress.next + Reached(view, progress.cursor, cursor)
      /\ snap = "started"
  BY <1>1 DEF ReadPlace, UnderWay
<1>4. /\ ~rolling => progress.cursor = cursor /\ progress.next = emitted
      /\ rolling => progress.cursor = 0 /\ progress.next = 0
  BY <1>1, <1>3 DEF ReadPlace, Saved, ProgressSound, NoKey
<1>5. progress.cursor <= cursor /\ progress.next <= emitted
  BY <1>2, <1>4
<1>6. \A k \in Key : Good(table, k) => k \in view
  BY <1>1 DEF ReadPlace, Good
<1>7. \A k \in view : /\ k \in Nat /\ Reached(view, progress.cursor, k) \in Nat
                      /\ Reached(view, cursor, k) \in Nat
                      /\ Reached(view, progress.cursor, cursor) \in Nat
  BY <1>2, ReachedCounts DEF Key
<1>8. ASSUME NEW k \in view, cursor < k
      PROVE  progress.next + Reached(view, progress.cursor, k) = emitted + Reached(view, cursor, k)
  <2>1. Reached(view, progress.cursor, k)
          = Reached(view, progress.cursor, cursor) + Reached(view, cursor, k)
    BY <1>2, <1>5, <1>7, <1>8, ReachedSplits
  <2> QED
    BY <1>2, <1>3, <1>7, <2>1
<1>9. ASSUME NEW k \in view, k <= cursor
      PROVE  progress.next + Reached(view, progress.cursor, k) <= emitted
  <2>1. Reached(view, progress.cursor, k) <= Reached(view, progress.cursor, cursor)
    BY <1>2, <1>7, <1>9, ReachedGrows
  <2> QED
    BY <1>2, <1>3, <1>7, <2>1
<1> QED
  BY <1>2, <1>3, <1>4, <1>5, <1>6, <1>7, <1>8, <1>9

(* What is saved is the next table when this one is over, a full chunk      *)
(* more, or the end of the table.                                          *)
LEMMA AdvanceOver ==
  ASSUME CopyInv, [Next]_vars, snap' = "started", ~BeginSnapshot, progress' # progress
  PROVE  /\ UNCHANGED <<conf, src, touched, target, receipts, safe>>
         /\ \/ /\ pc = "open" /\ Over
               /\ table = progress.table + 1 /\ emitted = 0 /\ cursor = NoKey
               /\ progress' = Saved(emitted, cursor)
            \/ /\ Reads /\ progress.table = table
               /\ progress'.table = table
               /\ \/ Over' /\ pc = "rolled" /\ progress' = Saved(emitted, cursor)
                  \/ /\ pc = "ack" /\ ~rolling
                     /\ progress' = Saved(emitted + Len(chunk), Last(chunk))
                     /\ Over' \/ (~conf.rolling /\ ~Over /\ Len(chunk) = ChunkSize)
<1>0. /\ UNCHANGED <<conf, src, touched, target, receipts, safe>>
      /\ \/ pc = "open" /\ progress' = Saved(emitted, cursor)
         \/ /\ pc = "ack" /\ ~rolling
            /\ progress' = Saved(emitted + Len(chunk), Last(chunk))
         \/ pc = "rolled" /\ progress' = Saved(emitted, cursor)
  BY Advances
<1>a. /\ OpenPlace /\ ReadPlace /\ ProgressSound /\ EndPlace
  BY CopyParts
<1>b. \A k \in Key : k \in Nat
  BY DEF Key
<1>1. CASE pc = "open" /\ progress' = Saved(emitted, cursor)
  BY <1>0, <1>1, <1>a DEF OpenPlace
<1>2. ASSUME progress'.table = table, NEW c \in Nat, progress'.cursor = c,
             \A k \in Key : Good(table, k) => k <= c
      PROVE  Over'
  BY <1>0, <1>2 DEF Over, Good, Untouched
<1>3. CASE pc = "rolled" /\ progress' = Saved(emitted, cursor)
  <2>1. Reads
    BY <1>3 DEF Reads
  <2>2. progress'.table = table /\ progress'.cursor = cursor
    BY <1>3 DEF Saved
  <2>3. cursor \in Nat /\ progress.table = table /\ \A k \in Key : Good(table, k) => k \in view
    BY <2>1, ReadFacts
  <2>4. \A k \in view : k <= cursor
    BY <1>3, <1>a DEF EndPlace
  <2>5. Over'
    BY <1>2, <2>2, <2>3, <2>4
  <2> QED
    BY <1>0, <1>3, <2>1, <2>2, <2>3, <2>5
<1>4. CASE pc = "ack" /\ ~rolling /\ progress' = Saved(emitted + Len(chunk), Last(chunk))
  <2>1. Reads /\ Writing
    BY <1>4 DEF Reads, Writing
  <2>2. progress'.table = table /\ progress'.cursor = Last(chunk)
    BY <1>4 DEF Saved
  <2>3. /\ cursor \in Nat /\ progress.table = table /\ \A k \in Key : Good(table, k) => k \in view
        /\ progress.cursor \in Nat /\ progress.cursor <= cursor /\ table \in Table
        /\ progress.cursor = cursor /\ progress.next = emitted
        /\ emitted \in Nat /\ snap = "started"
    BY <1>4, <2>1, ReadFacts
  <2>4. /\ Last(chunk) \in Key /\ cursor < Last(chunk) /\ Len(chunk) \in Nat
        /\ \A m \in 1..Len(chunk) : chunk[m] <= Last(chunk)
        /\ \A k \in view : cursor < k =>
              \/ \E m \in 1..Len(chunk) : chunk[m] = k
              \/ Len(chunk) = ChunkSize
    BY <2>1, BatchFacts
  <2>5. Last(chunk) \in Nat
    BY <2>4 DEF Key
  <2>6. ASSUME Over
        PROVE  Over'
    <3>1. \A k \in Key : Good(table, k) => k <= progress.cursor
      BY <2>3, <2>6 DEF Over
    <3>2. \A k \in Key : Good(table, k) => k <= Last(chunk)
      BY <1>b, <2>3, <2>4, <2>5, <3>1
    <3> QED
      BY <1>2, <2>2, <2>5, <3>2
  <2>7. ASSUME Len(chunk) # ChunkSize
        PROVE  Over'
    <3>1. \A k \in Key : Good(table, k) => k <= Last(chunk)
      <4>1. TAKE k \in Key
      <4>2. HAVE Good(table, k)
      <4>3. k \in view /\ k \in Nat
        BY <1>b, <2>3, <4>2
      <4>4. CASE cursor < k
        BY <2>4, <2>7, <4>3, <4>4
      <4>5. CASE k <= cursor
        BY <2>3, <2>4, <2>5, <4>3, <4>5
      <4> QED
        BY <2>3, <4>3, <4>4, <4>5
    <3> QED
      BY <1>2, <2>2, <2>5, <3>1
  <2>8. ASSUME conf.rolling
        PROVE  Over
    BY <1>4, <1>a, <2>1, <2>3, <2>8 DEF ReadPlace, ProgressSound
  <2> QED
    BY <1>0, <1>4, <2>1, <2>2, <2>3, <2>6, <2>7, <2>8
<1> QED
  BY <1>0, <1>1, <1>3, <1>4

(* Where the copy is over it stays so while progress does not move.         *)
LEMMA OverKept ==
  ASSUME SourceKept, progress' = progress, Over
  PROVE  Over'
BY GoodKept DEF Over

(* Operations stay behind the progress.                                    *)
LEMMA OpsPastStep ==
  ASSUME CopyInv, [Next]_vars
  PROVE  OpsPast'
<1>0. /\ PlaceInv /\ TypeOK /\ OpsTyped /\ OpsPast /\ ResetsFirst /\ ReceiptsTrue /\ OpsNext
      /\ TypeOK'
  BY CopyParts, OpsStep, PlaceInvStep DEF PlaceInv
<1>1. SUFFICES ASSUME snap' = "started", NEW o \in DOMAIN ops', Live(o)'
               PROVE  ops'[o].table <= progress'.table
  BY DEF OpsPast
<1>2. CASE BeginSnapshot
  <2>1. ops' = ops /\ receipts' = receipts /\ pc = "capture"
    BY <1>2 DEF BeginSnapshot
  <2>2. receipts = {} /\ Intents = {}
    BY <1>0, <2>1 DEF ReceiptsTrue
  <2> QED
    BY <1>1, <2>1, <2>2 DEF Live, Intents
<1>3. CASE ~BeginSnapshot
  <2>1. snap = "started"
    BY <1>1, <1>3, Advances
  <2>2. progress.table \in Nat /\ progress'.table \in Nat /\ NoProgress.table = 0
    <3>1. progress'.table \in Nat
      <4>1. CASE progress' = NoProgress
        BY <4>1 DEF NoProgress
      <4>2. CASE progress' \in [table : Table, next : Nat, cursor : Key \cup {NoKey}]
        BY <4>2 DEF Table
      <4> QED
        BY <1>0, <4>1, <4>2 DEF TypeOK
    <3> QED
      BY <1>0, <3>1, ProgressTyped
  <2>3. progress.table <= progress'.table
    <3>1. ProgressStep
      BY <1>0, PlaceInvStep
    <3>2. CASE progress = NoProgress
      BY <2>2, <3>2
    <3>3. CASE progress # NoProgress
      BY <1>1, <2>1, <2>2, <3>1, <3>3 DEF ProgressStep, Behind
    <3> QED
      BY <3>2, <3>3
  <2>4. CASE o \in DOMAIN ops
    <3>1. Live(o) /\ ops'[o].table = ops[o].table
      BY <1>0, <1>1, <2>4 DEF OpsNext, OpsKept, SameRequest
    <3>2. ops[o].table <= progress.table
      BY <1>0, <2>1, <2>4, <3>1 DEF OpsPast
    <3>3. ops[o].table \in Nat
      <4>1. ops[o] \in OpRecord
        BY <1>0, <2>4 DEF OpsTyped
      <4> QED
        BY <4>1 DEF OpRecord, Table
    <3> QED
      BY <2>2, <2>3, <3>1, <3>2, <3>3
  <2>5. CASE o \notin DOMAIN ops
    <3>1. Asks /\ o = Len(ops')
      BY <1>0, <1>1, <2>5 DEF OpsNext, Asks
    <3>2. ops'[o].table = table /\ progress' = progress
      BY <3>1 DEF Asks
    <3>3. pc # "reset"
      BY <1>0, <2>1 DEF ResetsFirst
    <3>4. Reads
      BY <3>1, <3>3 DEF Asks, Reads
    <3>5. progress.table = table
      BY <3>4, ReadFacts
    <3> QED
      BY <2>2, <3>2, <3>5
  <2> QED
    BY <2>4, <2>5
<1> QED
  BY <1>2, <1>3

(* Progress of a rolled table is its end.                                  *)
LEMMA ProgressSoundStep ==
  ASSUME CopyInv, [Next]_vars
  PROVE  ProgressSound'
<1>0. /\ PlaceInv /\ TypeOK /\ ProgressSound /\ ReceiptsTrue /\ conf' = conf
  BY CopyParts, SourceStep
<1>1. SUFFICES ASSUME snap' = "started"
               PROVE  /\ progress'.next = 0 => progress'.cursor = NoKey
                      /\ conf'.rolling /\ progress'.next > 0 => Over'
  BY DEF ProgressSound
<1>2. CASE BeginSnapshot
  <2>1. progress = NoProgress /\ progress' = progress
    BY <1>0, <1>2 DEF BeginSnapshot, ReceiptsTrue
  <2> QED
    BY <2>1 DEF NoProgress
<1>3. CASE ~BeginSnapshot /\ progress' = progress
  BY <1>0, <1>1, <1>3, SourceStep, Advances, OverKept DEF ProgressSound
<1>4. CASE ~BeginSnapshot /\ progress' # progress
  <2>1. CASE pc = "open" /\ emitted = 0 /\ cursor = NoKey /\ progress' = Saved(emitted, cursor)
    BY <2>1 DEF Saved
  <2>2. CASE Over' /\ pc = "rolled" /\ progress' = Saved(emitted, cursor)
    <3>1. emitted = 0 => cursor = NoKey
      BY <2>2, CopyParts DEF ReadPlace, Reads
    <3> QED
      BY <2>2, <3>1 DEF Saved
  <2>3. CASE /\ pc = "ack" /\ progress' = Saved(emitted + Len(chunk), Last(chunk))
             /\ Over' \/ ~conf.rolling
    <3>1. Reads /\ Writing
      BY <2>3 DEF Reads, Writing
    <3>2. emitted \in Nat /\ Len(chunk) \in Nat /\ Len(chunk) \in 1..ChunkSize /\ ChunkSize \in Nat
      BY <3>1, ReadFacts, BatchFacts
    <3>3. progress'.next # 0
      BY <2>3, <3>2 DEF Saved
    <3> QED
      BY <1>0, <2>3, <3>3
  <2> QED
    BY <1>1, <1>4, <2>1, <2>2, <2>3, AdvanceOver
<1> QED
  BY <1>2, <1>3, <1>4

(* The requests of the sink.                                               *)
LEMMA Asking ==
  ASSUME CopyInv, [Next]_vars, SinkWorks, pc' = "commit"
  PROVE  /\ Asks /\ UNCHANGED <<conf, src, touched, target, spool, truncated>>
         /\ \/ /\ TableRolled /\ pc = "read" /\ Remaining = <<>> /\ rolling /\ spool[table] # <<>>
               /\ Current'.do = "roll" /\ Current'.lo = 0 /\ Current'.hi = emitted
               /\ Current'.keys = spool[table] /\ weak' = weak
            \/ /\ AppendPiece /\ todo # <<>>
               /\ pc = "append" \/ (pc = "batch" /\ WriteMode # "delete" /\ ~NeedsTruncate)
               /\ Current'.do = "append" /\ Current'.lo = Head(todo).lo
               /\ Current'.hi = PieceEnd(Head(todo)) /\ Current'.keys = Head(todo).keys
               /\ weak' = weak
            \/ /\ TruncateForBatch \/ TruncateForSpool
               /\ pc \in {"batch", "spool"} /\ NeedsTruncate /\ ~conf.trino /\ emitted = 0
               /\ pc = "batch" => todo # <<>>
               /\ Current'.do = "truncate"
               /\ weak' = weak \cup {w \in {"wiped"} : \E o \in receipts : ops[o].table = table}
<1> USE DEF Goto, sourceVars, durableVars, tableVars, sinkVars
<1>0. /\ PlaceInv /\ TypeOK /\ OpsTyped /\ TodoPlace /\ OpsNext
      /\ table \in Table /\ view \subseteq Key
  BY CopyParts, OpsStep DEF TypeOK
<1>a. 0 \in Nat /\ <<>> \in Seq(Key)
  BY EmptySeq
<1>1. ASSUME NEW do \in {"append", "roll", "truncate"}, NEW lo \in Nat, NEW hi \in Nat,
             NEW keys \in Seq(Key), Begin(do, lo, hi, keys)
      PROVE  /\ Asks /\ Current'.do = do /\ Current'.lo = lo /\ Current'.hi = hi
             /\ Current'.keys = keys
  <2>1. /\ Len(ops') = Len(ops) + 1
        /\ Current' = [table |-> table, do |-> do, lo |-> lo, hi |-> hi,
                       keys |-> keys, seen |-> view,
                       intent |-> "PREPARED", catalog |-> "inflight"]
    BY <1>0, <1>1, BegunTyped, do \in {"append", "roll", "truncate", "reset"}
  <2>2. Len(ops') # Len(ops)
    BY <1>0, <2>1 DEF OpsTyped
  <2> QED
    BY <1>0, <2>1, <2>2 DEF OpsNext
<1>2. CASE TableRolled
  <2>1. /\ pc = "read" /\ Remaining = <<>> /\ rolling /\ spool[table] # <<>>
        /\ Begin("roll", 0, emitted, spool[table])
        /\ UNCHANGED <<conf, src, touched, target, spool, truncated, weak>>
    BY <1>2 DEF TableRolled
  <2>2. emitted \in Nat /\ spool[table] \in Seq(Key)
    BY <1>0 DEF TypeOK
  <2>3. /\ Asks /\ Current'.do = "roll" /\ Current'.lo = 0 /\ Current'.hi = emitted
        /\ Current'.keys = spool[table]
    BY <1>1, <1>a, <2>1, <2>2, "roll" \in {"append", "roll", "truncate"}
  <2> QED
    BY <1>2, <2>1, <2>3
<1>3. CASE AppendPiece
  <2>1. /\ Begin("append", Head(todo).lo, PieceEnd(Head(todo)), Head(todo).keys)
        /\ todo # <<>>
        /\ pc = "append" \/ (pc = "batch" /\ WriteMode # "delete" /\ ~NeedsTruncate)
        /\ UNCHANGED <<conf, src, touched, target, spool, truncated, weak>>
    BY <1>3 DEF AppendPiece
  <2>2. /\ Head(todo).lo \in Nat /\ PieceEnd(Head(todo)) \in Nat
        /\ Head(todo).keys \in Seq(Key)
    BY <1>0, <2>1, HeadTyped
  <2>3. /\ Asks /\ Current'.do = "append" /\ Current'.lo = Head(todo).lo
        /\ Current'.hi = PieceEnd(Head(todo)) /\ Current'.keys = Head(todo).keys
    BY <1>1, <2>1, <2>2, "append" \in {"append", "roll", "truncate"}
  <2> QED
    BY <1>3, <2>1, <2>3
<1>4. CASE TruncateForBatch \/ TruncateForSpool
  <2>1. PICK lo \in Nat, hi \in Nat :
          /\ TruncateFirst(lo, hi)
          /\ \/ pc = "batch" /\ todo # <<>> /\ lo = Head(todo).lo
             \/ pc = "spool" /\ lo = emitted
          /\ UNCHANGED <<conf, src, touched, spool>>
    <3>1. CASE TruncateForBatch
      BY <1>0, <3>1, HeadTyped DEF TruncateForBatch
    <3>2. CASE TruncateForSpool
      <4>1. Writing
        BY <3>2 DEF TruncateForSpool, Writing
      <4>2. emitted \in Nat /\ emitted + Len(chunk) \in Nat
        BY <1>0, <4>1, BatchFacts DEF TypeOK
      <4> QED
        BY <3>2, <4>2 DEF TruncateForSpool
    <3> QED
      BY <1>4, <3>1, <3>2
  <2>2. /\ NeedsTruncate /\ lo = 0
        /\ weak' = weak \cup {w \in {"wiped"} : \E o \in receipts : ops[o].table = table}
        /\ IF conf.trino THEN pc' = pc
           ELSE Begin("truncate", lo, hi, <<>>) /\ UNCHANGED <<target, truncated>>
    BY <2>1 DEF TruncateFirst
  <2>3. ~conf.trino
    BY <2>1, <2>2
  <2>4. Asks /\ Current'.do = "truncate"
    BY <1>1, <1>a, <2>2, <2>3, "truncate" \in {"append", "roll", "truncate"}
  <2>5. emitted = 0
    <3>1. CASE pc = "batch" /\ todo # <<>> /\ lo = Head(todo).lo
      <4>1. todo \in Seq(Piece) /\ Writing
        BY <1>0, <3>1 DEF TypeOK, Writing
      <4>2. 1 \in DOMAIN todo /\ Head(todo) = todo[1]
        BY <3>1, <4>1, EmptySeq
      <4>3. PICK i, e \in 1..Len(chunk) : IsPiece(Head(todo), chunk, i, e)
        BY <1>0, <4>1, <4>2 DEF TodoPlace
      <4>4. Head(todo).lo = emitted + i - 1 /\ i \in 1..Len(chunk) /\ Len(chunk) \in Nat /\ emitted \in Nat
        BY <1>0, <4>1, <4>3, BatchFacts DEF IsPiece, TypeOK
      <4> QED
        BY <2>2, <3>1, <4>4
    <3> QED
      BY <2>1, <2>2, <3>1
  <2> QED
    BY <1>4, <2>1, <2>2, <2>3, <2>4, <2>5
<1>5. ~(DeleteKeys \/ BatchWritten \/ SpoolChunk \/ AppendAnswered \/ TruncateAnswered
        \/ RollAnswered \/ CommitRejected)
  BY DEF DeleteKeys, BatchWritten, SpoolChunk, AppendAnswered, TruncateAnswered, RollAnswered,
     CommitRejected
<1> QED
  BY <1>2, <1>3, <1>4, <1>5 DEF SinkWorks

(* A table of which nothing is left is over.                               *)
LEMMA Ended ==
  ASSUME CopyInv, Reads, \A k \in view : k <= cursor,
         progress'.table = table, progress'.cursor = cursor, UNCHANGED <<src, touched>>
  PROVE  Over'
<1>1. \A k \in Key : Good(table, k) => k \in view
  BY ReadFacts
<1>2. \A k \in Key : Good(table, k) => k <= cursor
  BY <1>1
<1> QED
  BY <1>2 DEF Over, Good, Untouched

(* The table that is opened is the one of the progress or the next.         *)
LEMMA OpenPlaceStep ==
  ASSUME CopyInv, [Next]_vars
  PROVE  OpenPlace'
<1> USE DEF Goto, sourceVars, durableVars, tableVars, sinkVars
<1>0. /\ PlaceInv /\ TypeOK /\ OpenPlace /\ ReadPlace /\ EndPlace
  BY CopyParts
<1>1. CASE SinkWorks \/ Leaves
  <2>1. pc' # "open"
    BY <1>0, <1>1, Kinds DEF Stays, AtTables, Reads
  <2> QED
    BY <2>1 DEF OpenPlace
<1>2. CASE Outside
  <2>1. UNCHANGED <<progress, table, emitted, cursor, pc>>
    BY <1>2 DEF Outside
  <2>2. pc = "open" => SourceKept
    BY <1>0, SourceStep DEF BeginSnapshot
  <2>3. pc = "open" /\ Over => Over'
    BY <2>1, <2>2, OverKept
  <2> QED
    BY <1>0, <2>1, <2>3 DEF OpenPlace, Saved
<1>3. CASE BeginSnapshot \/ ResumeSnapshot \/ SourceRetry \/ OpenTable \/ ReadChunk \/ Acknowledged
  <2>1. pc' # "open"
    BY <1>3 DEF BeginSnapshot, StartBarrier, ResumeSnapshot, SourceRetry, OpenTable, ReadChunk, Acknowledged
  <2> QED
    BY <2>1 DEF OpenPlace
<1>4. CASE PlanTables
  <2>1. /\ table' = SavedPlan.table /\ emitted' = SavedPlan.next /\ cursor' = SavedPlan.cursor
        /\ progress' = progress
    BY <1>4 DEF PlanTables
  <2>2. CASE progress = NoProgress
    <3>1. table' = 1 /\ emitted' = 0 /\ cursor' = NoKey /\ progress'.table = 0
      BY <2>1, <2>2 DEF SavedPlan, NoProgress
    <3>2. 0 \notin Table
      BY DEF Table
    <3> QED
      BY <3>1, <3>2 DEF OpenPlace, Over
  <2>3. CASE progress # NoProgress
    <3>1. /\ progress \in [table : Table, next : Nat, cursor : Key \cup {NoKey}]
          /\ table' = progress.table /\ emitted' = progress.next /\ cursor' = progress.cursor
      BY <1>0, <2>1, <2>3 DEF SavedPlan, TypeOK
    <3>2. progress = [table |-> progress.table, next |-> progress.next, cursor |-> progress.cursor]
      BY <3>1
    <3> QED
      BY <2>1, <3>1, <3>2 DEF OpenPlace, Saved
  <2> QED
    BY <2>2, <2>3
<1>5. CASE TableRead \/ RolledSaved
  <2>1. /\ Reads /\ table' = FollowingTable /\ emitted' = 0 /\ cursor' = NoKey
        /\ pc' = IF LastTable THEN "complete" ELSE "open"
        /\ UNCHANGED <<src, touched>>
    BY <1>5 DEF TableRead, RolledSaved, NextTable, Reads
  <2>2. /\ table \in Table /\ progress.table = table
        /\ ~rolling => progress.cursor = cursor
    BY <2>1, ReadFacts
  <2>3. progress'.table = table /\ progress'.cursor = cursor /\ \A k \in view : k <= cursor
    <3>1. CASE TableRead
      BY <1>0, <2>2, <3>1, NothingLeft DEF TableRead
    <3>2. CASE RolledSaved
      BY <1>0, <3>2 DEF RolledSaved, SaveSnapshotProgress, Saved, EndPlace
    <3> QED
      BY <1>5, <3>1, <3>2
  <2>4. Over'
    BY <2>1, <2>3, Ended
  <2>5. pc' = "open" => table' = table + 1
    BY <2>1, <2>2, TableFollows
  <2> QED
    BY <2>1, <2>3, <2>4, <2>5 DEF OpenPlace
<1> QED
  BY <1>0, <1>1, <1>2, <1>3, <1>4, <1>5, Kinds DEF SourceWorks

(* The place of the cursor.                                                *)
LEMMA ReadPlaceStep ==
  ASSUME CopyInv, [Next]_vars
  PROVE  ReadPlace'
<1> USE DEF Goto, sourceVars, durableVars, tableVars, sinkVars
<1>0. /\ PlaceInv /\ TypeOK /\ OpenPlace /\ ReadPlace /\ ProgressSound /\ UnderWay
  BY CopyParts
<1>1. ASSUME UNCHANGED <<conf, progress, table, view, emitted, cursor, rolling>>, Reads, SourceKept
      PROVE  ReadPlace'
  <2>1. \A k \in Key : Untouched(table, k)' => Untouched(table, k) /\ (k \in src'[table] <=> k \in src[table])
    BY <1>0, <1>1 DEF SourceKept, TypeOK
  <2>2. /\ progress.table = table
        /\ IF rolling
           THEN conf.rolling /\ progress.next = 0
           ELSE progress = Saved(emitted, cursor) /\ (conf.rolling => emitted > 0)
        /\ emitted = progress.next + Reached(view, progress.cursor, cursor)
        /\ emitted = 0 => cursor = NoKey
        /\ \A k \in Key : Untouched(table, k) => (k \in view <=> k \in src[table])
    BY <1>0, <1>1 DEF ReadPlace
  <2>3. \A k \in Key : Untouched(table, k)' => (k \in view <=> k \in src'[table])
    BY <2>1, <2>2
  <2> QED
    BY <1>1, <2>2, <2>3 DEF ReadPlace, Saved
<1>2. CASE SinkWorks \/ Outside
  <2>1. /\ UNCHANGED <<conf, progress, table, view, emitted, cursor, rolling>>
        /\ Reads' <=> Reads
    BY <1>0, <1>2, Kinds, SourceStep DEF Stays
  <2>2. BeginSnapshot => ~Reads
    BY DEF BeginSnapshot, Reads
  <2> QED
    BY <1>0, <1>1, <2>1, <2>2, SourceStep DEF ReadPlace
<1>3. CASE Leaves
  <2>1. ~Reads'
    BY <1>0, <1>3, Kinds DEF AtTables
  <2> QED
    BY <2>1 DEF ReadPlace
<1>4. CASE BeginSnapshot \/ ResumeSnapshot \/ SourceRetry \/ PlanTables \/ TableRead \/ RolledSaved
  <2>1. pc' \in {"plan", "open", "complete"}
    BY <1>4 DEF BeginSnapshot, StartBarrier, ResumeSnapshot, SourceRetry, PlanTables, TableRead,
       RolledSaved, NextTable
  <2> QED
    BY <2>1 DEF ReadPlace, Reads
<1>5. CASE OpenTable
  <2>1. /\ progress' = Saved(emitted, cursor) /\ view' = src[table]
        /\ rolling' = (conf.rolling /\ emitted = 0) /\ pc = "open"
        /\ UNCHANGED <<conf, src, touched, table, emitted, cursor>>
    BY <1>5 DEF OpenTable, SaveSnapshotProgress, ConsistentView
  <2>2. /\ progress'.table = table /\ progress'.next = emitted /\ progress'.cursor = cursor
    BY <2>1 DEF Saved
  <2>3. emitted \in Nat /\ cursor \in Nat /\ src[table] \in SUBSET Key
    BY <1>0, ProgressTyped DEF TypeOK
  <2>4. Reached(view', cursor, cursor) = 0
    BY <2>1, <2>3, ReachedNone
  <2>5. emitted = 0 => cursor = NoKey
    <3>1. progress = Saved(emitted, cursor) => progress.next = emitted /\ progress.cursor = cursor
      BY DEF Saved
    <3> QED
      BY <1>0, <2>1, <3>1 DEF OpenPlace, ProgressSound, UnderWay
  <2>6. \A k \in Key : Untouched(table, k)' => (k \in view' <=> k \in src'[table'])
    BY <2>1
  <2>7. progress' = Saved(emitted, cursor)' /\ (~rolling' /\ conf'.rolling => emitted' > 0)
    <3>1. ~rolling' /\ conf.rolling => emitted # 0
      BY <2>1, Zenon
    <3>2. progress' = Saved(emitted, cursor)'
      BY <2>1 DEF Saved
    <3> QED
      BY <2>1, <2>3, <3>1, <3>2
  <2>8. emitted' = progress'.next + Reached(view', progress'.cursor, cursor')
    BY <2>1, <2>2, <2>3, <2>4
  <2>9. rolling' => conf'.rolling /\ progress'.next = 0
    BY <2>1, <2>2
  <2> QED
    BY <2>1, <2>2, <2>5, <2>6, <2>7, <2>8, <2>9 DEF ReadPlace
<1>6. CASE ReadChunk
  <2>1. UNCHANGED <<conf, progress, table, view, emitted, cursor, rolling>> /\ Reads
    BY <1>6 DEF ReadChunk, Reads
  <2>2. SourceKept
    BY <1>0, <1>6, SourceStep DEF ReadChunk, BeginSnapshot
  <2> QED
    BY <1>1, <2>1, <2>2
<1>7. CASE Acknowledged
  <2>1. /\ emitted' = emitted + Len(chunk) /\ cursor' = Last(chunk)
        /\ IF rolling THEN progress' = progress
           ELSE progress' = Saved(emitted + Len(chunk), Last(chunk))
        /\ UNCHANGED <<conf, src, touched, table, view, rolling>>
        /\ Reads /\ Writing
    BY <1>7 DEF Acknowledged, BatchSaves, SaveSnapshotProgress, Reads, Writing
  <2>2. /\ Last(chunk) \in view /\ Last(chunk) \in Key /\ cursor < Last(chunk)
        /\ Len(chunk) \in Nat /\ Len(chunk) > 0
        /\ Reached(view, cursor, Last(chunk)) = Len(chunk)
    <3>1. /\ Len(chunk) \in 1..ChunkSize /\ ChunkSize \in Nat
          /\ Last(chunk) = chunk[Len(chunk)] /\ Last(chunk) \in Key /\ cursor < Last(chunk)
          /\ \A m \in 1..Len(chunk) : chunk[m] \in view /\ Reached(view, cursor, chunk[m]) = m
      BY <2>1, BatchFacts
    <3>2. Len(chunk) \in 1..Len(chunk) /\ Len(chunk) \in Nat
      BY <3>1
    <3> QED
      BY <3>1, <3>2
  <2>3. /\ progress.table = table /\ emitted \in Nat /\ progress.next \in Nat /\ view \in SUBSET Key
        /\ \A k \in view : cursor < k =>
             progress.next + Reached(view, progress.cursor, k) = emitted + Reached(view, cursor, k)
    BY <2>1, ReadFacts
  <2>4. Last(chunk) \in Nat
    BY <2>2 DEF Key
  <2>5. emitted' > 0
    BY <2>1, <2>2, <2>3
  <2>6. \A k \in Key : Untouched(table, k)' => (k \in view' <=> k \in src'[table'])
    BY <1>0, <2>1 DEF ReadPlace, Untouched
  <2>7. emitted' = progress'.next + Reached(view', progress'.cursor, cursor')
    <3>1. CASE rolling
      BY <2>1, <2>2, <2>3, <3>1
    <3>2. CASE ~rolling
      <4>1. Reached(view, Last(chunk), Last(chunk)) = 0
        BY <2>3, <2>4, ReachedNone
      <4>2. progress'.next = emitted + Len(chunk) /\ progress'.cursor = Last(chunk)
        BY <2>1, <3>2 DEF Saved
      <4> QED
        BY <2>1, <2>2, <2>3, <4>1, <4>2
    <3> QED
      BY <3>1, <3>2
  <2>8. progress'.table = table'
    BY <2>1, <2>3 DEF Saved
  <2>9. IF rolling'
        THEN conf'.rolling /\ progress'.next = 0
        ELSE progress' = Saved(emitted, cursor)' /\ (conf'.rolling => emitted' > 0)
    BY <1>0, <2>1, <2>5 DEF ReadPlace, Saved
  <2>10. emitted' # 0
    BY <2>1, <2>2, <2>3
  <2> QED
    BY <2>6, <2>7, <2>8, <2>9, <2>10 DEF ReadPlace
<1> QED
  BY <1>0, <1>2, <1>3, <1>4, <1>5, <1>6, <1>7, Kinds DEF SourceWorks

(* The batch.                                                              *)
LEMMA ChunkExactStep ==
  ASSUME CopyInv, [Next]_vars
  PROVE  ChunkExact'
<1> USE DEF Goto, sourceVars, durableVars, tableVars, sinkVars
<1>0. PlaceInv /\ ChunkExact
  BY CopyParts
<1>1. ASSUME UNCHANGED <<view, cursor>>
      PROVE  Remaining' = Remaining /\ SnapshotQuery' = SnapshotQuery
  <2>1. Remaining' = Remaining
    BY <1>1 DEF Remaining
  <2> QED
    BY <2>1 DEF SnapshotQuery
<1>2. CASE SinkWorks \/ Outside
  BY <1>0, <1>1, <1>2, Kinds DEF Stays, ChunkExact
<1>3. CASE Leaves
  <2>1. ~Writing'
    BY <1>0, <1>3, Kinds DEF AtTables, Reads, Writing
  <2> QED
    BY <2>1 DEF ChunkExact
<1>4. CASE SourceWorks /\ ~ReadChunk
  <2>1. pc' \in {"plan", "open", "complete", "read"}
    BY <1>4 DEF SourceWorks, BeginSnapshot, StartBarrier, ResumeSnapshot, SourceRetry, PlanTables,
       OpenTable, Acknowledged, TableRead, RolledSaved, NextTable
  <2> QED
    BY <2>1 DEF ChunkExact, Writing
<1>5. CASE ReadChunk
  <2>1. Remaining # <<>> /\ chunk' = SnapshotQuery /\ UNCHANGED <<view, cursor>>
    BY <1>5 DEF ReadChunk
  <2> QED
    BY <1>1, <2>1 DEF ChunkExact
<1> QED
  BY <1>0, <1>2, <1>3, <1>4, <1>5, Kinds

(* The end of a rolled table.                                              *)
LEMMA EndPlaceStep ==
  ASSUME CopyInv, [Next]_vars
  PROVE  EndPlace'
<1> USE DEF Goto, sourceVars, durableVars, tableVars, sinkVars
<1>0. PlaceInv /\ TypeOK /\ EndPlace /\ OpsTyped /\ CommitPlace
  BY CopyParts
<1>1. CASE Leaves
  <2>1. ~Reads'
    BY <1>0, <1>1, Kinds DEF AtTables
  <2>2. pc' # "rolled" /\ ~(pc' = "commit" /\ Current'.do = "roll")
    BY <2>1 DEF Reads
  <2> QED
    BY <2>2 DEF EndPlace
<1>2. CASE SourceWorks
  <2>1. pc' # "rolled" /\ pc' # "commit"
    BY <1>2 DEF SourceWorks, BeginSnapshot, StartBarrier, ResumeSnapshot, SourceRetry, PlanTables,
       OpenTable, ReadChunk, Acknowledged, TableRead, RolledSaved, NextTable
  <2> QED
    BY <2>1 DEF EndPlace
<1>3. CASE Outside
  <2>1. pc = "commit" => Current'.do = Current.do
    BY <1>0, <1>3, SameCurrent DEF Outside, CommitPlace
  <2>2. UNCHANGED <<pc, rolling, view, cursor, spool, table>>
    BY <1>3 DEF Outside
  <2> QED
    BY <1>0, <2>1, <2>2 DEF EndPlace
<1>4. CASE SinkWorks /\ pc' = "commit"
  <2>1. Current'.do = "roll" => rolling /\ Remaining = <<>>
    BY <1>4, Asking
  <2>2. UNCHANGED <<rolling, view, cursor>>
    BY <1>4, Asking DEF Asks
  <2>3. Remaining = <<>> => \A k \in view : k <= cursor
    BY <1>0, NothingLeft
  <2> QED
    BY <1>4, <2>1, <2>2, <2>3 DEF EndPlace
<1>5. CASE SinkWorks /\ pc' = "rolled"
  <2>1. TableRolled \/ RollAnswered
    BY <1>5 DEF SinkWorks, DeleteKeys, BatchWritten, SpoolChunk, AppendAnswered, TruncateAnswered,
       CommitRejected, TruncateForBatch, TruncateForSpool, TruncateFirst, AppendPiece, Begin
  <2>2. UNCHANGED <<rolling, view, cursor, table>>
    BY <1>0, <1>5, Kinds DEF Stays
  <2>3. CASE TableRolled
    <3>1. rolling /\ Remaining = <<>> /\ spool[table] = <<>> /\ spool' = spool
      BY <1>5, <2>3 DEF TableRolled, Begin
    <3> QED
      BY <1>0, <1>5, <2>2, <3>1, NothingLeft DEF EndPlace
  <2>4. CASE RollAnswered
    <3>1. pc = "commit" /\ Current.do = "roll" /\ spool' = [spool EXCEPT ![table] = <<>>]
      BY <2>4 DEF RollAnswered, Answered
    <3>2. spool'[table] = <<>>
      BY <1>0, <3>1 DEF TypeOK
    <3> QED
      BY <1>0, <1>5, <2>2, <3>1, <3>2 DEF EndPlace
  <2> QED
    BY <2>1, <2>3, <2>4
<1>6. CASE pc' \notin {"rolled", "commit"}
  BY <1>6 DEF EndPlace
<1> QED
  BY <1>0, <1>1, <1>2, <1>3, <1>4, <1>5, <1>6, Kinds

(* What receipts cover of a batch.                                         *)
LEMMA RecoveredKept ==
  ASSUME OpsKept, UNCHANGED <<receipts, table, emitted>>, receipts \subseteq DOMAIN ops,
         NEW keys, chunk' = keys
  PROVE  /\ RecoveredAt(chunk)' = RecoveredAt(keys)
         /\ \A p, i, e : IsPiece(p, chunk, i, e)' <=> IsPiece(p, keys, i, e)
<1>1. \A o \in receipts :
        /\ ops'[o].table = ops[o].table /\ ops'[o].do = ops[o].do
        /\ ops'[o].lo = ops[o].lo /\ ops'[o].hi = ops[o].hi
  BY DEF OpsKept, SameRequest
<1>2. \A i \in DOMAIN keys :
        (\E o \in receipts : /\ ops'[o].table = table /\ ops'[o].do \in {"append", "roll"}
                             /\ ops'[o].lo <= emitted + i - 1 /\ emitted + i - 1 < ops'[o].hi)
        <=> (\E o \in receipts : /\ ops[o].table = table /\ ops[o].do \in {"append", "roll"}
                                 /\ ops[o].lo <= emitted + i - 1 /\ emitted + i - 1 < ops[o].hi)
  BY <1>1
<1>3. RecoveredAt(chunk)' = RecoveredAt(keys)
  BY <1>2 DEF RecoveredAt, RecoverableDataOperation, InRange
<1>4. Open(chunk)' = Open(keys)
  BY <1>3 DEF Open
<1> QED
  BY <1>3, <1>4 DEF IsPiece

(* The mode in which a table is written.                                   *)
LEMMA ModeKept ==
  ASSUME UNCHANGED <<conf, table, safe>>
  PROVE  /\ WriteMode' = WriteMode
         /\ rolling' = rolling => (Spools' <=> Spools)
         /\ truncated' = truncated => (NeedsTruncate' <=> NeedsTruncate)
BY DEF WriteMode, Spools, NeedsTruncate

(* What is left of a batch.                                                *)
LEMMA TodoPlaceStep ==
  ASSUME CopyInv, [Next]_vars
  PROVE  TodoPlace'
<1> USE DEF Goto, sourceVars, durableVars, tableVars, sinkVars
<1>0. /\ PlaceInv /\ TypeOK /\ OpsTyped /\ TodoPlace /\ Asked /\ CommitPlace /\ OpsNext /\ OpsKept
      /\ receipts \subseteq DOMAIN ops /\ todo \in Seq(Piece) /\ conf' = conf
  BY CopyParts, OpsStep, SourceStep DEF TypeOK, ReceiptsTrue, OpsNext
<1>1. CASE Leaves
  <2>1. ~Writing'
    BY <1>0, <1>1, Kinds DEF AtTables, Reads, Writing
  <2> QED
    BY <2>1 DEF TodoPlace
<1>2. CASE SourceWorks /\ ~ReadChunk
  <2>1. pc' \in {"plan", "open", "complete", "read"}
    BY <1>2 DEF SourceWorks, BeginSnapshot, StartBarrier, ResumeSnapshot, SourceRetry, PlanTables,
       OpenTable, Acknowledged, TableRead, RolledSaved, NextTable
  <2> QED
    BY <2>1 DEF TodoPlace, Writing
<1>3. CASE ReadChunk
  <2> DEFINE keys == SnapshotQuery
  <2>1. /\ chunk' = keys /\ todo' = (IF Spools THEN <<>> ELSE Pieces(keys))
        /\ pc' \in {"ack", "spool", "batch"} /\ (pc' = "spool" => Spools)
        /\ UNCHANGED <<receipts, table, emitted, safe, rolling>>
        /\ Remaining # <<>>
    BY <1>3 DEF ReadChunk
  <2>2. /\ WriteMode' = WriteMode
        /\ Spools' <=> Spools
    BY <1>0, <2>1, ModeKept
  <2>3. keys \in Seq(Key) /\ emitted \in Nat /\ conf.split \in Nat \ {0}
    BY <1>0, <2>1, ChunkRead, ConfAssumption DEF TypeOK, Conf
  <2>4. /\ \A n \in DOMAIN Pieces(keys) : \E i, e \in Nat : IsPiece(Pieces(keys)[n], keys, i, e)
        /\ \A n, m \in DOMAIN Pieces(keys) : n < m => PieceEnd(Pieces(keys)[n]) <= Pieces(keys)[m].lo
    <3> HIDE DEF keys
    <3> QED
      BY <2>3, PiecesOf
  <2>5. \A p, i, e : IsPiece(p, chunk, i, e)' <=> IsPiece(p, SnapshotQuery, i, e)
    BY <1>0, <2>1, RecoveredKept
  <2>6. CASE Spools
    <3>1. todo' = <<>> /\ DOMAIN todo' = {}
      BY <2>1, <2>6
    <3> QED
      BY <2>1, <2>2, <3>1 DEF TodoPlace
  <2>7. CASE ~Spools
    <3>1. todo' = Pieces(keys) /\ pc' # "append" /\ pc' # "spool" /\ ~Spools'
      BY <2>1, <2>2, <2>7
    <3>2. \A n \in DOMAIN todo' : \E i, e \in 1..Len(chunk') : IsPiece(todo[n], chunk, i, e)'
      <4>1. TAKE n \in DOMAIN todo'
      <4>2. PICK i, e \in Nat : IsPiece(Pieces(keys)[n], keys, i, e)
        BY <2>4, <3>1
      <4>3. i \in 1..Len(keys) /\ e \in 1..Len(keys)
        BY <4>2 DEF IsPiece
      <4> QED
        BY <2>1, <2>5, <3>1, <4>2, <4>3
    <3> QED
      BY <2>4, <3>1, <3>2 DEF TodoPlace
  <2> QED
    BY <2>6, <2>7
<1>4. ASSUME SinkWorks \/ Outside, Writing', Writing,
             UNCHANGED <<conf, table, safe, rolling, receipts, emitted, chunk>>
      PROVE  /\ WriteMode' = WriteMode
             /\ Spools' <=> Spools
             /\ \A p, i, e : IsPiece(p, chunk, i, e)' <=> IsPiece(p, chunk, i, e)
  BY <1>0, <1>4, ModeKept, RecoveredKept
<1>5. CASE SinkWorks \/ Outside
  <2>1. SUFFICES ASSUME Writing' PROVE TodoPlace'
    BY DEF TodoPlace
  <2>2. /\ Writing /\ UNCHANGED <<conf, table, safe, rolling, receipts, emitted, chunk>>
        /\ ~Reads => pc' = pc
    BY <1>0, <1>5, <2>1, Kinds DEF Stays
  <2>3. /\ WriteMode' = WriteMode
        /\ Spools' <=> Spools
        /\ \A p, i, e : IsPiece(p, chunk, i, e)' <=> IsPiece(p, chunk, i, e)
    BY <1>4, <1>5, <2>1, <2>2
  <2>4. /\ Spools => todo = <<>>
        /\ \A n \in DOMAIN todo : \E i, e \in 1..Len(chunk) : IsPiece(todo[n], chunk, i, e)
        /\ \A n, m \in DOMAIN todo : n < m => PieceEnd(todo[n]) <= todo[m].lo
        /\ pc = "append" => WriteMode = "delete" /\ todo # <<>>
        /\ pc = "spool" => Spools
    BY <1>0, <2>2 DEF TodoPlace
  <2>5. pc' = "append" => WriteMode = "delete" /\ todo' # <<>>
    <3>1. CASE Outside
      BY <2>4, <3>1 DEF Outside
    <3>2. CASE SinkWorks
      BY <3>2 DEF SinkWorks, DeleteKeys, BatchWritten, SpoolChunk, AppendAnswered, TruncateAnswered,
         RollAnswered, CommitRejected, TableRolled, TruncateForBatch, TruncateForSpool,
         TruncateFirst, AppendPiece, Begin
    <3> QED
      BY <1>5, <3>1, <3>2
  <2>6. pc' = "spool" => Spools
    <3>1. CASE Outside
      BY <2>4, <3>1 DEF Outside
    <3>2. CASE SinkWorks /\ pc' = "spool"
      <4>1. TruncateAnswered \/ TruncateForSpool
        BY <3>2 DEF SinkWorks, DeleteKeys, BatchWritten, SpoolChunk, AppendAnswered,
           RollAnswered, CommitRejected, TableRolled, TruncateForBatch,
           TruncateFirst, AppendPiece, Begin
      <4>2. CASE TruncateForSpool
        BY <2>4, <4>2 DEF TruncateForSpool
      <4>3. CASE TruncateAnswered
        BY <1>0, <3>2, <4>3 DEF TruncateAnswered, Answered, Asked
      <4> QED
        BY <4>1, <4>2, <4>3
    <3> QED
      BY <1>5, <3>1, <3>2
  <2>7. CASE AppendAnswered
    <3>1. todo # <<>> /\ todo' = Tail(todo)
      BY <1>0, <2>7 DEF AppendAnswered, Answered, CommitPlace
    <3>2. \A n \in DOMAIN todo' : /\ n \in Nat /\ n + 1 \in DOMAIN todo /\ todo'[n] = todo[n + 1]
      BY <1>0, <3>1, HeadTailProperties
    <3>3. \A n \in DOMAIN todo' : \E i, e \in 1..Len(chunk) : IsPiece(todo[n], chunk, i, e)'
      BY <2>2, <2>3, <2>4, <3>2
    <3>4. \A n, m \in DOMAIN todo' : n < m => PieceEnd(todo'[n]) <= todo'[m].lo
      <4>1. TAKE n, m \in DOMAIN todo'
      <4>2. HAVE n < m
      <4>3. /\ n + 1 \in DOMAIN todo /\ m + 1 \in DOMAIN todo /\ n + 1 < m + 1
            /\ todo'[n] = todo[n + 1] /\ todo'[m] = todo[m + 1]
        BY <3>2, <4>2
      <4> QED
        BY <2>4, <4>3
    <3>5. ~Spools
      BY <2>4, <3>1
    <3> QED
      BY <2>2, <2>3, <2>5, <2>6, <3>3, <3>4, <3>5 DEF TodoPlace
  <2>8. CASE ~AppendAnswered
    <3>1. todo' = todo
      BY <1>5, <2>8 DEF Outside, SinkWorks, DeleteKeys, BatchWritten, SpoolChunk, TruncateAnswered,
         RollAnswered, CommitRejected, TableRolled, TruncateForBatch, TruncateForSpool,
         AppendPiece
    <3>3. \A n \in DOMAIN todo' : \E i, e \in 1..Len(chunk) : IsPiece(todo[n], chunk, i, e)'
      BY <2>2, <2>3, <2>4, <3>1
    <3> QED
      BY <2>2, <2>3, <2>4, <2>5, <2>6, <3>1, <3>3 DEF TodoPlace
  <2> QED
    BY <2>7, <2>8
<1> QED
  BY <1>0, <1>1, <1>2, <1>3, <1>5, Kinds

(* The request that is open.                                               *)
LEMMA AskedStep ==
  ASSUME CopyInv, [Next]_vars
  PROVE  Asked'
<1> USE DEF Goto, sourceVars, durableVars, tableVars, sinkVars
<1>0. /\ PlaceInv /\ TypeOK /\ OpsTyped /\ TodoPlace /\ Asked /\ CommitPlace /\ OpsNext /\ OpsKept
      /\ conf' = conf /\ table \in Table /\ view \subseteq Key
  BY CopyParts, OpsStep, SourceStep DEF TypeOK, OpsNext
<1>1. SUFFICES ASSUME pc' = "commit" PROVE Asked'
  BY DEF Asked
<1>2. CASE Outside
  <2>1. /\ UNCHANGED <<pc, view, todo, emitted, spool, table, truncated, safe, rolling>>
        /\ Len(ops') = Len(ops) /\ \A o \in DOMAIN ops : ops'[o].intent = ops[o].intent
    BY <1>2 DEF Outside
  <2>2. ops # <<>>
    BY <1>0, <1>1, <2>1 DEF CommitPlace
  <2>3. /\ Len(ops) \in DOMAIN ops
        /\ Current'.do = Current.do /\ Current'.lo = Current.lo /\ Current'.hi = Current.hi
        /\ Current'.keys = Current.keys /\ Current'.seen = Current.seen
    BY <1>0, <2>1, <2>2, SameCurrent
  <2>4. Current'.intent = Current.intent
    BY <2>1, <2>3 DEF Current
  <2>5. /\ Spools' <=> Spools
        /\ NeedsTruncate' <=> NeedsTruncate
    BY <1>0, <2>1, ModeKept
  <2> HIDE DEF Current
  <2> QED
    BY <1>0, <1>1, <2>1, <2>3, <2>4, <2>5 DEF Asked
<1>3. CASE SourceWorks
  <2>1. pc' # "commit"
    BY <1>3 DEF SourceWorks, BeginSnapshot, StartBarrier, ResumeSnapshot, SourceRetry, PlanTables,
       OpenTable, ReadChunk, Acknowledged, TableRead, RolledSaved, NextTable
  <2> QED
    BY <1>1, <2>1
<1>4. CASE Leaves
  <2>1. Current'.do = "reset"
    BY <1>0, <1>1, <1>4, Kinds DEF AtTables, Reads
  <2>2. ResetTarget
    BY <1>1, <1>4 DEF Leaves, RecoverOne, RecoverDone, EnsureTables, ResetInitialCheckpoint,
       ResumeConfirmed, ResetAnswered, ConfirmCompletion, ClearProgress, StartRun, Rebuild,
       RunRefused, RunEnds, EndRun
  <2>3. Begin("reset", 0, 0, <<>>) /\ 0 \in Nat /\ <<>> \in Seq(Key)
    BY <2>2, EmptySeq DEF ResetTarget
  <2>4. Current' = [table |-> table, do |-> "reset", lo |-> 0, hi |-> 0,
                    keys |-> <<>>, seen |-> view,
                    intent |-> "PREPARED", catalog |-> "inflight"]
    BY <1>0, <2>3, BegunTyped, "reset" \in {"append", "roll", "truncate", "reset"}
  <2>5. Current'.intent = "PREPARED"
    BY <2>4
  <2> HIDE DEF Current
  <2> QED
    BY <2>1, <2>5 DEF Asked
<1>5. CASE SinkWorks
  <2>1. /\ Asks /\ UNCHANGED <<conf, spool, truncated>>
        /\ \/ /\ Current'.do = "roll" /\ Current'.lo = 0 /\ Current'.hi = emitted
              /\ Current'.keys = spool[table]
           \/ /\ todo # <<>>
              /\ pc = "append" \/ (pc = "batch" /\ WriteMode # "delete" /\ ~NeedsTruncate)
              /\ Current'.do = "append" /\ Current'.lo = Head(todo).lo
              /\ Current'.hi = PieceEnd(Head(todo)) /\ Current'.keys = Head(todo).keys
           \/ /\ pc \in {"batch", "spool"} /\ NeedsTruncate /\ emitted = 0
              /\ pc = "batch" => todo # <<>>
              /\ Current'.do = "truncate"
    BY <1>1, <1>5, Asking
  <2>2. /\ UNCHANGED <<table, view, emitted, rolling, todo, safe>>
        /\ Current'.seen = view /\ Current'.intent = "PREPARED"
    BY <2>1 DEF Asks
  <2>3. /\ Spools' <=> Spools
        /\ NeedsTruncate' <=> NeedsTruncate
    BY <2>1, <2>2, ModeKept
  <2>4. pc = "append" => ~NeedsTruncate
    BY <1>0 DEF TodoPlace, Writing, NeedsTruncate
  <2>5. pc = "spool" => Spools
    BY <1>0 DEF TodoPlace, Writing
  <2>6. PieceEnd(Head(todo))' = PieceEnd(Head(todo))
    BY <2>2 DEF PieceEnd
  <2> HIDE DEF Current
  <2> QED
    BY <2>1, <2>2, <2>3, <2>4, <2>5, <2>6 DEF Asked
<1> QED
  BY <1>0, <1>2, <1>3, <1>4, <1>5, Kinds

(* Memory of the run: it ends, or the tables it has truncated and its       *)
(* receipts are kept.                                                      *)
LEMMA MemoryStep ==
  ASSUME CopyInv, [Next]_vars
  PROVE  \/ pc' = "down" /\ \A t \in Table : spool'[t] = <<>>
         \/ /\ truncated \subseteq truncated' /\ receipts \subseteq receipts'
            /\ pc \in {"down", "recover"} /\ pc' \notin {"down", "recover"} =>
                 Intents \subseteq receipts /\ ops' = ops
            /\ \A t \in Table : \/ spool'[t] = <<>> \/ spool'[t] = spool[t]
                                \/ t = table /\ SpoolChunk
<1> USE DEF Goto, sourceVars, durableVars, tableVars, sinkVars
<1>0. PlaceInv /\ TypeOK
  BY CopyParts
<1>t. truncated \subseteq Table /\ spool \in [Table -> Seq(Key)] /\ table \in Table
  BY <1>0 DEF TypeOK
<1>1. ASSUME UNCHANGED <<truncated, spool>>, receipts \subseteq receipts',
             pc \notin {"down", "recover"} \/ pc' \in {"down", "recover"}
             \/ (Intents \subseteq receipts /\ ops' = ops)
      PROVE  /\ truncated \subseteq truncated' /\ receipts \subseteq receipts'
             /\ pc \in {"down", "recover"} /\ pc' \notin {"down", "recover"} =>
                  Intents \subseteq receipts /\ ops' = ops
             /\ \A t \in Table : spool'[t] = spool[t]
  BY <1>1
<1>2. CASE RunRefused \/ RunEnds
  BY <1>2 DEF RunRefused, RunEnds, EndRun
<1>3. CASE Outside
  BY <1>1, <1>3 DEF Outside
<1>4. CASE \/ \E o \in DOMAIN ops : RecoverOne(o)
           \/ RecoverDone \/ EnsureTables \/ ResetTarget \/ ResetInitialCheckpoint \/ ResumeConfirmed
           \/ ConfirmCompletion \/ ClearProgress
           \/ \E initial \in BOOLEAN : StartRun(initial)
           \/ Rebuild
  <2>1. /\ UNCHANGED <<truncated, spool>> /\ receipts \subseteq receipts'
        /\ pc \notin {"down", "recover"} \/ pc' \in {"down", "recover"}
           \/ (Intents \subseteq receipts /\ ops' = ops)
    BY <1>4 DEF RecoverOne, RecoverDone, EnsureTables, ResetTarget, ResetInitialCheckpoint,
       ResumeConfirmed, ConfirmCompletion, ClearProgress, StartRun, Rebuild
  <2> QED
    BY <1>1, <2>1
<1>5. CASE ResetAnswered \/ TruncateAnswered
  BY <1>5 DEF ResetAnswered, TruncateAnswered, Answered
<1>6. CASE RollAnswered
  <2>1. spool' = [spool EXCEPT ![table] = <<>>] /\ UNCHANGED <<truncated, receipts>> /\ pc = "commit"
    BY <1>6 DEF RollAnswered, Answered
  <2>2. \A t \in Table : spool'[t] = <<>> \/ spool'[t] = spool[t]
    BY <1>t, <2>1
  <2> QED
    BY <2>1, <2>2
<1>7. CASE SpoolChunk
  <2>1. spool' = [spool EXCEPT ![table] = SpoolBefore \o chunk] /\ UNCHANGED <<truncated, receipts>> /\ pc = "spool"
    BY <1>7 DEF SpoolChunk
  <2>2. \A t \in Table : t = table \/ spool'[t] = spool[t]
    BY <1>t, <2>1
  <2> QED
    BY <1>7, <2>1, <2>2
<1>8. CASE BeginSnapshot \/ ResumeSnapshot
  <2>1. /\ spool' = [t \in Table |-> <<>>] /\ truncated' = (IF rebuild THEN Table ELSE truncated)
        /\ receipts' = receipts /\ pc \in {"capture", "start"}
    BY <1>8 DEF BeginSnapshot, ResumeSnapshot, StartBarrier
  <2> QED
    BY <1>t, <2>1
<1>9. CASE \/ SourceRetry \/ PlanTables \/ OpenTable \/ ReadChunk \/ Acknowledged \/ TableRead \/ RolledSaved
           \/ DeleteKeys \/ BatchWritten \/ AppendAnswered \/ CommitRejected \/ TableRolled \/ AppendPiece
  <2>1. UNCHANGED <<truncated, spool, receipts>> /\ pc \notin {"down", "recover"}
    BY <1>9 DEF SourceRetry, PlanTables, OpenTable, ReadChunk, Acknowledged, TableRead, RolledSaved,
       DeleteKeys, BatchWritten, AppendAnswered, Answered, CommitRejected, TableRolled, AppendPiece
  <2> QED
    BY <1>1, <2>1
<1>10. CASE TruncateForBatch \/ TruncateForSpool
  <2>1. UNCHANGED <<spool, receipts>> /\ pc \notin {"down", "recover"} /\ truncated \subseteq truncated'
    BY <1>10 DEF TruncateForBatch, TruncateForSpool, TruncateFirst
  <2> QED
    BY <2>1
<1> QED
  BY <1>0, <1>2, <1>3, <1>4, <1>5, <1>6, <1>7, <1>8, <1>9, <1>10, Kinds
     DEF Leaves, SourceWorks, SinkWorks

(* A run truncates a table before it writes to it.                         *)
LEMMA TruncatedFirstStep ==
  ASSUME CopyInv, [Next]_vars
  PROVE  TruncatedFirst'
<1>0. /\ PlaceInv /\ TypeOK /\ OpsTyped /\ TruncatedFirst /\ OpsNext /\ OpsKept /\ TodoPlace /\ ResetsFirst
      /\ conf' = conf
  BY CopyParts, OpsStep, SourceStep DEF OpsNext
<1>1. SUFFICES ASSUME conf.mode = "truncate"
               PROVE  /\ \A t \in Table : spool'[t] # <<>> => t \in truncated'
                      /\ pc' \notin {"down", "recover"} =>
                           \A o \in Intents' \ receipts' :
                             RecoverableDataOperation(o)' => ops'[o].table \in truncated'
  BY <1>0 DEF TruncatedFirst
<1>2. WriteMode = "truncate" /\ (~NeedsTruncate => table \in truncated)
  BY <1>1 DEF WriteMode, NeedsTruncate
<1>3. CASE pc' = "down" /\ \A t \in Table : spool'[t] = <<>>
  BY <1>3
<1>4. CASE /\ truncated \subseteq truncated' /\ receipts \subseteq receipts'
           /\ pc \in {"down", "recover"} /\ pc' \notin {"down", "recover"} =>
                Intents \subseteq receipts /\ ops' = ops
           /\ \A t \in Table : \/ spool'[t] = <<>> \/ spool'[t] = spool[t]
                               \/ t = table /\ SpoolChunk
  <2>1. \A t \in Table : spool'[t] # <<>> => t \in truncated'
    <3>1. TAKE t \in Table
    <3>2. SpoolChunk => table \in truncated
      BY <1>2 DEF SpoolChunk
    <3> QED
      BY <1>0, <1>1, <1>4, <3>2 DEF TruncatedFirst
  <2>2. ASSUME pc' \notin {"down", "recover"}, NEW o \in Intents', o \notin receipts',
               RecoverableDataOperation(o)'
        PROVE  ops'[o].table \in truncated'
    <3>1. o \in DOMAIN ops' /\ ops'[o].intent # "none"
      BY <2>2 DEF Intents
    <3>2. CASE pc \in {"down", "recover"}
      <4>1. o \in Intents
        BY <1>4, <2>2, <3>2 DEF Intents
      <4> QED
        BY <1>4, <2>2, <3>2, <4>1
    <3>3. CASE pc \notin {"down", "recover"} /\ o \in DOMAIN ops
      <4>1. /\ ops[o].intent # "none" /\ ops'[o].table = ops[o].table /\ ops'[o].do = ops[o].do
        BY <1>0, <3>1, <3>3 DEF OpsNext, OpsKept, SameRequest
      <4>2. o \in Intents \ receipts /\ RecoverableDataOperation(o)
        BY <1>4, <2>2, <3>3, <4>1 DEF Intents, RecoverableDataOperation
      <4> QED
        BY <1>0, <1>1, <1>4, <3>3, <4>1, <4>2 DEF TruncatedFirst
    <3>4. CASE o \notin DOMAIN ops
      <4>1. Asks /\ o = Len(ops') /\ ops'[o] = Current'
        BY <1>0, <3>1, <3>4 DEF OpsNext, Asks
      <4>2. ops'[o].table = table /\ pc' = "commit" /\ Current'.do \in {"append", "roll"}
        BY <2>2, <4>1 DEF Asks, RecoverableDataOperation
      <4>3. SinkWorks
        <5>1. ~Leaves
          BY <1>0, <4>2, Kinds DEF AtTables, Reads
        <5>2. ~SourceWorks /\ ~Outside
          <6>1. ~Outside
            BY <1>0, <4>1 DEF Outside, Asks
          <6>2. ~SourceWorks
            BY <4>2 DEF SourceWorks, BeginSnapshot, StartBarrier, ResumeSnapshot, SourceRetry, PlanTables,
               OpenTable, ReadChunk, Acknowledged, TableRead, RolledSaved, NextTable, Goto
          <6> QED
            BY <6>1, <6>2
        <5> QED
          BY <1>0, <5>1, <5>2, Kinds
      <4>4. \/ spool[table] # <<>>
            \/ pc = "append"
            \/ ~NeedsTruncate
        BY <4>2, <4>3, Asking
      <4>5. pc # "append"
        BY <1>0, <1>2 DEF TodoPlace, Writing
      <4>6. table \in truncated
        BY <1>0, <1>1, <1>2, <4>4, <4>5 DEF TruncatedFirst, TypeOK
      <4> QED
        BY <1>4, <4>2, <4>6
    <3> QED
      BY <3>2, <3>3, <3>4
  <2> QED
    BY <2>1, <2>2
<1> QED
  BY <1>3, <1>4, MemoryStep

(* Every step keeps the books.                                             *)
LEMMA CopyInvStep ==
  ASSUME CopyInv, [Next]_vars
  PROVE  CopyInv'
<1>1. LateInv' /\ PlaceInv'
  BY LateStep, PlaceInvStep DEF CopyInv
<1>2. Books'
  BY UnderWayStep, OneOpenStep, ReceiptsTrueStep, OpsPastStep, ProgressSoundStep, OpenPlaceStep,
     ReadPlaceStep, ChunkExactStep, EndPlaceStep, TodoPlaceStep, AskedStep, TruncatedFirstStep DEF Books
<1> QED
  BY <1>1, <1>2 DEF CopyInv

(* The first state.                                                        *)
LEMMA CopyStarts ==
  ASSUME Init
  PROVE  CopyInv
<1>1. LateInv /\ PlaceInv
  BY LateStarts, PlaceStarts
<1>2. /\ snap = "none" /\ pc = "down" /\ ops = <<>> /\ DOMAIN ops = {} /\ receipts = {}
      /\ \A t \in Table : spool[t] = <<>>
  BY DEF Init
<1>3. ~Reads /\ ~Writing /\ ~Resetting
  BY <1>2 DEF Reads, Writing, Resetting
<1>4. Books
  BY <1>2, <1>3 DEF Books, UnderWay, OneOpen, ReceiptsTrue, OpsPast, ProgressSound, OpenPlace,
     ReadPlace, ChunkExact, EndPlace, TodoPlace, Asked, TruncatedFirst
<1> QED
  BY <1>1, <1>4 DEF CopyInv

-----------------------------------------------------------------------------
(* Rows *)

RowsInv ==
  /\ Covers /\ Written /\ Copied /\ ChunkRows /\ Landed
  /\ Untruncated /\ TruncateAlone /\ Agree /\ OwnApart /\ Finished
FullInv == CopyInv /\ RowsInv /\ RowsComplete

\* A step in which the copy may be relied on before and after.
RowsNext == FullInv /\ [Next]_vars /\ Relied' /\ ~BeginSnapshot

(* What a snapshot that goes on relies on is not forgotten.                *)
LEMMA WeakGrows ==
  ASSUME [Next]_vars, ~BeginSnapshot
  PROVE  weak \subseteq weak'
<1>1. CASE RunStep
  <2>1. CASE OpenTable \/ SpoolChunk \/ TruncateForBatch \/ TruncateForSpool
    BY <2>1 DEF OpenTable, SpoolChunk, TruncateForBatch, TruncateForSpool, TruncateFirst
  <2>2. CASE ~(OpenTable \/ SpoolChunk \/ TruncateForBatch \/ TruncateForSpool)
    BY <1>1, <2>2 DEF RunStep, RecoverOne, RecoverDone, EnsureTables, ResetTarget, ResetInitialCheckpoint,
       ResumeSnapshot, ResumeConfirmed, PlanTables, ReadChunk, Acknowledged, TableRead,
       TableRolled, RolledSaved, DeleteKeys, AppendPiece,
       BatchWritten, AppendAnswered, TruncateAnswered, ResetAnswered, RollAnswered,
       Answered, ConfirmCompletion, ClearProgress
  <2> QED
    BY <2>1, <2>2
<1>2. CASE \/ \E t \in Table, k \in Key : Change(t, k)
           \/ \E o \in DOMAIN ops : CatalogAccepts(o) \/ CatalogLoses(o)
           \/ \E initial \in BOOLEAN : StartRun(initial)
           \/ Rebuild \/ SourceRetry \/ CommitRejected \/ RunRefused \/ RunEnds
           \/ UNCHANGED vars
  BY <1>2 DEF Change, CatalogAccepts, CatalogLoses, StartRun, Rebuild, SourceRetry, CommitRejected,
     RunRefused, RunEnds, vars
<1> QED
  BY <1>1, <1>2 DEF Next

(* What holds in such a step.                                              *)
LEMMA RowsParts ==
  ASSUME RowsNext
  PROVE  /\ CopyInv /\ [Next]_vars /\ Relied /\ Relied' /\ ~BeginSnapshot
         /\ snap = "started" /\ snap' = "started" /\ weak' \subseteq {"appended"}
         /\ SourceKept /\ conf' = conf /\ TypeOK /\ TypeOK' /\ PlaceInv /\ OpsTyped
         /\ OpsNext /\ OpsKept
         /\ Covers /\ Written /\ Copied /\ ChunkRows /\ Landed
         /\ Untruncated /\ TruncateAlone /\ Agree /\ OwnApart /\ Finished
<1>1. /\ CopyInv /\ [Next]_vars /\ Relied' /\ ~BeginSnapshot
      /\ Covers /\ Written /\ Copied /\ ChunkRows /\ Landed
      /\ Untruncated /\ TruncateAlone /\ Agree /\ OwnApart /\ Finished
  BY DEF RowsNext, FullInv, RowsInv
<1>2. snap' = "started" /\ weak' \subseteq {"appended"}
  BY <1>1 DEF Relied
<1>3. snap = "started" /\ weak \subseteq weak'
  BY <1>1, <1>2, Advances, WeakGrows
<1>4. TypeOK /\ PlaceInv /\ OpsTyped /\ Asked
  BY <1>1, CopyParts
<1>5. TypeOK' /\ OpsNext /\ OpsKept
  <2>1. TypeOK'
    BY <1>1, <1>4, PlaceInvStep DEF PlaceInv
  <2> QED
    BY <1>1, <1>4, <2>1, OpsStep DEF OpsNext
<1> QED
  BY <1>1, <1>2, <1>3, <1>4, <1>5, SourceStep DEF Relied

(* The rows of a piece, by their places in the batch.                      *)
LEMMA TodoRows ==
  ASSUME CopyInv, Writing, NEW n \in DOMAIN todo
  PROVE  /\ todo[n].lo \in Nat /\ PieceEnd(todo[n]) \in Nat /\ emitted \in Nat
         /\ emitted <= todo[n].lo /\ todo[n].lo < PieceEnd(todo[n])
         /\ PieceEnd(todo[n]) <= emitted + Len(chunk)
         /\ \A k \in Range(todo[n].keys) : \E m \in 1..Len(chunk) :
              chunk[m] = k /\ m \notin RecoveredAt(chunk)
              /\ todo[n].lo < emitted + m /\ emitted + m <= PieceEnd(todo[n])
         /\ \A m \in 1..Len(chunk) :
              todo[n].lo < emitted + m /\ emitted + m <= PieceEnd(todo[n]) => chunk[m] \in Range(todo[n].keys)
<1>0. TypeOK
  BY CopyParts
<1>1. /\ TypeOK /\ emitted \in Nat /\ Len(chunk) \in Nat /\ chunk \in Seq(Key)
      /\ todo[n] \in Piece
  <2>1. todo \in Seq(Piece) /\ emitted \in Nat
    BY <1>0 DEF TypeOK
  <2>2. todo[n] \in Piece
    BY <2>1
  <2> QED
    BY <1>0, <2>1, <2>2, BatchFacts
<1>2. PICK i \in 1..Len(chunk), e \in 1..Len(chunk) : IsPiece(todo[n], chunk, i, e)
  BY CopyParts DEF TodoPlace
<1>3. /\ i \in Nat /\ e \in Nat /\ 1 <= i /\ i <= e /\ e <= Len(chunk)
      /\ i..e \subseteq Open(chunk)
      /\ todo[n].lo = emitted + i - 1 /\ Len(todo[n].keys) = e - i + 1
      /\ \A j \in 1..Len(todo[n].keys) : todo[n].keys[j] = chunk[i + j - 1]
  BY <1>1, <1>2 DEF IsPiece
<1>4. PieceEnd(todo[n]) = emitted + e
  <2>1. PieceEnd(todo[n]) = (emitted + i - 1) + (e - i + 1)
    BY <1>3 DEF PieceEnd
  <2> QED
    BY <1>1, <1>3, <2>1
<1>5. DOMAIN todo[n].keys = 1..Len(todo[n].keys)
  <2>1. todo[n].keys \in Seq(Key)
    BY <1>1 DEF Piece
  <2> QED
    BY <2>1
<1>6. ASSUME NEW k \in Range(todo[n].keys)
      PROVE  \E m \in 1..Len(chunk) :
              chunk[m] = k /\ m \notin RecoveredAt(chunk)
              /\ todo[n].lo < emitted + m /\ emitted + m <= PieceEnd(todo[n])
  <2>1. PICK j \in 1..Len(todo[n].keys) : todo[n].keys[j] = k
    BY <1>5 DEF Range
  <2> DEFINE m == i + j - 1
  <2>2. j \in Nat /\ 1 <= j /\ j <= e - i + 1
    BY <1>3, <2>1
  <2>3. m \in 1..Len(chunk) /\ m \in i..e /\ chunk[m] = k
    <3>1. i \in Nat /\ e \in Nat /\ 1 <= i /\ e <= Len(chunk)
      BY <1>3
    <3>2. m \in Nat /\ i <= m /\ m <= e
      BY <2>2, <3>1
    <3>3. m \in i..e /\ 1 <= m
      BY <3>1, <3>2
    <3>4. m \in 1..Len(chunk)
      <4>1. Len(chunk) \in Nat
        BY <1>1
      <4> QED
        BY <3>1, <3>2, <3>3, <4>1
    <3>5. todo[n].keys[j] = chunk[m]
      BY <1>3
    <3> QED
      BY <2>1, <3>3, <3>4, <3>5
  <2>4. m \notin RecoveredAt(chunk)
    BY <1>3, <2>3 DEF Open
  <2>5. emitted + i - 1 < emitted + m /\ emitted + m <= emitted + e
    BY <1>1, <1>3, <2>2
  <2> QED
    BY <1>3, <1>4, <2>3, <2>4, <2>5
<1>7. ASSUME NEW m \in 1..Len(chunk), todo[n].lo < emitted + m, emitted + m <= PieceEnd(todo[n])
      PROVE  chunk[m] \in Range(todo[n].keys)
  <2> DEFINE j == m - i + 1
  <2>1. m \in Nat /\ i <= m /\ m <= e
    BY <1>1, <1>3, <1>4, <1>7
  <2>2. j \in 1..(e - i + 1) /\ i + j - 1 = m
    BY <1>3, <2>1
  <2>3. j \in DOMAIN todo[n].keys /\ todo[n].keys[j] = chunk[m]
    BY <1>3, <1>5, <2>2
  <2> QED
    BY <2>3 DEF Range
<1>8. /\ todo[n].lo \in Nat /\ PieceEnd(todo[n]) \in Nat /\ emitted \in Nat
      /\ emitted <= todo[n].lo /\ todo[n].lo < PieceEnd(todo[n])
      /\ PieceEnd(todo[n]) <= emitted + Len(chunk)
  <2> HIDE DEF PieceEnd
  <2> QED
    BY <1>1, <1>3, <1>4
<1> QED
  BY <1>6, <1>7, <1>8

\* The steps that empty a table.
Emptied(t) ==
  \/ \E o \in DOMAIN ops : CatalogAccepts(o) /\ ops[o].do = "truncate" /\ t = ops[o].table
  \/ (TruncateForBatch \/ TruncateForSpool) /\ conf.trino /\ t = table

(* The other steps keep what is in the target, but for the rows that are    *)
(* about to be written again.                                              *)
LEMMA HeldStep ==
  ASSUME RowsNext, NEW t \in Table, NEW k \in Key, Held(t, k), ~Emptied(t),
         ~(DeleteKeys /\ t = table /\ k \in Range(Head(todo).keys))
  PROVE  Held(t, k)'
<1> USE DEF sourceVars, durableVars, tableVars, sinkVars
<1>0. /\ CopyInv /\ [Next]_vars /\ TypeOK /\ snap = "started" /\ OpsTyped /\ ~BeginSnapshot
      /\ target \in [Table -> [Key -> Nat]] /\ table \in Table
  BY RowsParts DEF TypeOK
<1>1. ASSUME target' = target
      PROVE  Held(t, k)'
  BY <1>1 DEF Held
<1>2. ASSUME NEW o \in DOMAIN ops, CatalogAccepts(o)
      PROVE  Held(t, k)'
  <2>1. /\ ops[o].catalog = "inflight"
        /\ target' = [target EXCEPT ![ops[o].table] = Effect(ops[o], @)]
        /\ ops[o] \in OpRecord
    BY <1>0, <1>2 DEF CatalogAccepts, OpsTyped
  <2>2. ops[o].do # "reset"
    <3>1. ops[o].intent = "PREPARED"
      BY <1>0, <2>1, CopyParts DEF InFlightOpen
    <3>2. ops[o].do = "reset" => snap = "none"
      BY <1>0, <3>1, CopyParts DEF OneOpen
    <3> QED
      BY <1>0, <3>2
  <2>3. CASE ops[o].table # t
    BY <1>0, <2>1, <2>3 DEF Held
  <2>4. CASE ops[o].table = t
    <3>1. ops[o].do \in {"append", "roll"}
      BY <1>2, <2>1, <2>2, <2>4 DEF Emptied, OpRecord
    <3>2. target[t] \in [Key -> Nat] /\ target'[t] = Effect(ops[o], target[t])
      BY <1>0, <2>1, <2>4
    <3>3. target[t][k] <= target'[t][k] /\ target'[t][k] \in Nat /\ target[t][k] \in Nat
      BY <2>1, <3>1, <3>2, EffectTyped
    <3> QED
      BY <3>3 DEF Held
  <2> QED
    BY <2>3, <2>4
<1>3. ASSUME TruncateForBatch \/ TruncateForSpool
      PROVE  Held(t, k)'
  <2>1. CASE conf.trino
    <3>1. target' = [target EXCEPT ![table] = [l \in Key |-> 0]] /\ t # table
      BY <1>3, <2>1 DEF TruncateForBatch, TruncateForSpool, TruncateFirst, Emptied
    <3> QED
      BY <1>0, <3>1 DEF Held
  <2>2. CASE ~conf.trino
    BY <1>1, <1>3, <2>2 DEF TruncateForBatch, TruncateForSpool, TruncateFirst
  <2> QED
    BY <2>1, <2>2
<1>4. ASSUME DeleteKeys
      PROVE  Held(t, k)'
  <2>1. target' = [target EXCEPT ![table] =
                     [l \in Key |-> IF l \in Range(Head(todo).keys) THEN 0 ELSE @[l]]]
    BY <1>4 DEF DeleteKeys
  <2>2. t # table \/ k \notin Range(Head(todo).keys)
    BY <1>4
  <2>3. target'[t][k] = target[t][k]
    <3>1. CASE t # table
      BY <1>0, <2>1, <3>1
    <3>2. CASE t = table /\ k \notin Range(Head(todo).keys)
      <4>1. target'[t] = [l \in Key |-> IF l \in Range(Head(todo).keys) THEN 0 ELSE target[t][l]]
        BY <1>0, <2>1, <3>2
      <4> QED
        BY <3>2, <4>1
    <3> QED
      BY <2>2, <3>1, <3>2
  <2> QED
    BY <2>3 DEF Held
<1>5. ASSUME RunStep, ~TruncateForBatch, ~TruncateForSpool, ~DeleteKeys
      PROVE  target' = target
  BY <1>0, <1>5 DEF RunStep, RecoverOne, RecoverDone, EnsureTables, ResetTarget, ResetInitialCheckpoint,
       ResumeSnapshot, ResumeConfirmed, PlanTables, OpenTable, ReadChunk, Acknowledged, TableRead,
       TableRolled, RolledSaved, AppendPiece, SpoolChunk,
       BatchWritten, AppendAnswered, TruncateAnswered, ResetAnswered, RollAnswered,
       Answered, ConfirmCompletion, ClearProgress
<1>6. ASSUME \/ \E u \in Table, l \in Key : Change(u, l)
             \/ \E o \in DOMAIN ops : CatalogLoses(o)
             \/ \E initial \in BOOLEAN : StartRun(initial)
             \/ Rebuild \/ SourceRetry \/ CommitRejected \/ RunRefused \/ RunEnds
             \/ UNCHANGED vars
      PROVE  target' = target
  BY <1>6 DEF Change, CatalogLoses, StartRun, Rebuild, SourceRetry, CommitRejected,
     RunRefused, RunEnds, vars
<1> QED
  BY <1>0, <1>1, <1>2, <1>3, <1>4, <1>5, <1>6 DEF Next

(* What a truncate removes: rows at which the copy begins, and of which no  *)
(* operation is counted on.                                                *)
LEMMA TruncatesAlone ==
  ASSUME CopyInv, Reads, NeedsTruncate, emitted = 0, \A o \in receipts : ops[o].table # table
  PROVE  /\ progress.table = table /\ progress.next = 0 /\ progress.cursor = NoKey
         /\ cursor = NoKey
         /\ \A q \in DOMAIN ops : Live(q) /\ RecoverableDataOperation(q) => ops[q].table # table
<1>1. ReadPlace /\ TruncatedFirst
  BY CopyParts
<1>2. cursor = NoKey
  BY <1>1 DEF ReadPlace
<1>3. /\ progress.table = table /\ progress.cursor \in Nat /\ progress.next \in Nat
      /\ progress.cursor <= cursor /\ progress.next <= emitted
  BY ReadFacts
<1>4. conf.mode = "truncate" /\ table \notin truncated
  BY DEF NeedsTruncate, WriteMode
<1>5. pc \notin {"down", "recover"}
  BY DEF Reads
<1>6. ASSUME NEW q \in DOMAIN ops, Live(q), RecoverableDataOperation(q)
      PROVE  ops[q].table # table
  <2>1. CASE q \in receipts
    BY <2>1
  <2>2. CASE q \notin receipts
    BY <1>1, <1>4, <1>5, <1>6, <2>2 DEF TruncatedFirst, Live, Intents
  <2> QED
    BY <2>1, <2>2
<1> QED
  BY <1>2, <1>3, <1>6 DEF NoKey

(* A table that is emptied.                                                *)
LEMMA EmptiedAlone ==
  ASSUME RowsNext, NEW t \in Table, Emptied(t)
  PROVE  /\ progress.table = t /\ progress.next = 0 /\ progress.cursor = NoKey
         /\ \A q \in DOMAIN ops : Live(q) /\ RecoverableDataOperation(q) => ops[q].table # t
         /\ UNCHANGED <<pc, progress, table, view, emitted, cursor, rolling, chunk, todo, spool, receipts>>
         /\ pc # "complete"
         /\ Reads => /\ t = table /\ cursor = NoKey /\ emitted = 0 /\ NeedsTruncate
                     /\ pc \in {"batch", "spool"} \/ (pc = "commit" /\ Current.do = "truncate")
<1> USE DEF sourceVars, durableVars, tableVars, sinkVars
<1>0. /\ CopyInv /\ TypeOK /\ OpsTyped /\ TruncateAlone /\ Relied /\ weak' \subseteq {"appended"}
      /\ OneOpen /\ InFlightOpen /\ CommitPlace /\ Asked /\ ReadPlace /\ TodoPlace
  BY RowsParts, CopyParts
<1>1. ASSUME NEW o \in DOMAIN ops, CatalogAccepts(o), ops[o].do = "truncate", t = ops[o].table
      PROVE  /\ progress.table = t /\ progress.next = 0 /\ progress.cursor = NoKey
             /\ \A q \in DOMAIN ops : Live(q) /\ RecoverableDataOperation(q) => ops[q].table # t
             /\ UNCHANGED <<pc, progress, table, view, emitted, cursor, rolling, chunk, todo, spool, receipts>>
             /\ pc # "complete"
             /\ Reads => /\ t = table /\ cursor = NoKey /\ emitted = 0 /\ NeedsTruncate
                         /\ pc = "commit" /\ Current.do = "truncate"
  <2>1. ops[o].intent = "PREPARED"
    BY <1>0, <1>1 DEF CatalogAccepts, InFlightOpen
  <2>2. /\ progress.table = t /\ progress.next = 0 /\ progress.cursor = NoKey
        /\ \A q \in DOMAIN ops : Live(q) /\ RecoverableDataOperation(q) => ops[q].table # t
    BY <1>0, <1>1, <2>1 DEF TruncateAlone
  <2>3. pc \in {"down", "recover"} \/ (pc = "commit" /\ o = Len(ops))
    BY <1>0, <2>1 DEF OneOpen
  <2>4. UNCHANGED <<pc, progress, table, view, emitted, cursor, rolling, chunk, todo, spool, receipts>>
    BY <1>1 DEF CatalogAccepts
  <2>5. ASSUME Reads
        PROVE  /\ t = table /\ cursor = NoKey /\ emitted = 0 /\ NeedsTruncate
               /\ pc = "commit" /\ Current.do = "truncate"
    <3>1. pc = "commit" /\ Current.do = "truncate" /\ Current.table = t
      BY <1>1, <2>3, <2>5 DEF Reads, Current
    <3>2. t = table /\ emitted = 0 /\ NeedsTruncate
      BY <1>0, <3>1 DEF CommitPlace, Asked
    <3>3. cursor = NoKey
      BY <1>0, <2>5, <3>2 DEF ReadPlace
    <3> QED
      BY <3>1, <3>2, <3>3
  <2> QED
    BY <2>2, <2>3, <2>4, <2>5
<1>2. CASE (TruncateForBatch \/ TruncateForSpool) /\ conf.trino /\ t = table
  <2>1. /\ pc \in {"batch", "spool"} /\ NeedsTruncate
        /\ \A o \in receipts : ops[o].table # table
        /\ UNCHANGED <<pc, progress, table, view, emitted, cursor, rolling, chunk, todo, spool, receipts>>
        /\ emitted = 0 \/ (pc = "batch" /\ todo # <<>> /\ Head(todo).lo = 0)
    <3>1. weak' = weak \cup {w \in {"wiped"} : \E o \in receipts : ops[o].table = table}
      BY <1>2 DEF TruncateForBatch, TruncateForSpool, TruncateFirst
    <3>2. \A o \in receipts : ops[o].table # table
      BY <1>0, <3>1
    <3> QED
      BY <1>2, <3>2 DEF TruncateForBatch, TruncateForSpool, TruncateFirst
  <2>2. Reads /\ Writing
    BY <2>1 DEF Reads, Writing
  <2>3. emitted = 0
    <3>1. CASE pc = "batch" /\ todo # <<>> /\ Head(todo).lo = 0
      <4>1. 1 \in DOMAIN todo /\ Head(todo) = todo[1]
        <5>1. todo \in Seq(Piece)
          BY <1>0 DEF TypeOK
        <5> QED
          BY <3>1, <5>1, EmptySeq
      <4>2. todo[1].lo = 0 /\ emitted <= todo[1].lo /\ emitted \in Nat
        BY <1>0, <2>2, <3>1, <4>1, TodoRows
      <4> QED
        BY <4>2
    <3> QED
      BY <2>1, <3>1
  <2> QED
    BY <1>0, <1>2, <2>1, <2>2, <2>3, TruncatesAlone
<1> QED
  BY <1>1, <1>2 DEF Emptied

(* An operation that counts has counted, unless progress has moved.         *)
LEMMA CountsBefore ==
  ASSUME RowsNext, NEW o \in DOMAIN ops, Counts(o)'
  PROVE  /\ Live(o) /\ RecoverableDataOperation(o) /\ ops[o].catalog # "lost"
         /\ ops[o].table = progress'.table /\ ops[o].hi > progress'.next
         /\ progress' = progress => Counts(o)
         /\ \A k \in Key : progress' = progress => (HasPlace(o, k)' <=> HasPlace(o, k))
         /\ ops'[o].catalog = ops[o].catalog \/ (ops[o].catalog = "inflight" /\ ops'[o].catalog = "landed")
<1>1. OpsNext /\ OpsTyped
  BY RowsParts
<1>2. /\ ops'[o].table = ops[o].table /\ ops'[o].do = ops[o].do /\ ops'[o].lo = ops[o].lo
      /\ ops'[o].hi = ops[o].hi /\ ops'[o].seen = ops[o].seen
      /\ Live(o)' => Live(o)
      /\ ops'[o].catalog # ops[o].catalog => ops[o].catalog = "inflight"
      /\ ops'[o].catalog \in {"inflight", "landed", "lost"}
  <2>1. ops'[o] \in OpRecord
    BY <1>1 DEF OpsNext, OpsKept, OpsTyped
  <2> QED
    BY <1>1, <2>1 DEF OpsNext, OpsKept, SameRequest, OpRecord
<1>3. Live(o) /\ RecoverableDataOperation(o) /\ ops[o].catalog # "lost"
  BY <1>2 DEF Counts, RecoverableDataOperation
<1>4. \A k \in Key : progress' = progress => (HasPlace(o, k)' <=> HasPlace(o, k))
  BY <1>2 DEF HasPlace, Reached
<1> QED
  BY <1>2, <1>3, <1>4 DEF Counts

(* Where progress has moved no operation is counted on, or the copy of the  *)
(* table is over.                                                          *)
LEMMA NoneCounts ==
  ASSUME RowsNext, progress' # progress
  PROVE  Over' \/ \A o \in DOMAIN ops' : ~Counts(o)'
<1>0. /\ CopyInv /\ [Next]_vars /\ Relied /\ ~BeginSnapshot /\ snap = "started" /\ snap' = "started"
      /\ OpsPast /\ TypeOK /\ OpsTyped /\ Written
  BY RowsParts, CopyParts
<1>1. DOMAIN ops' = DOMAIN ops
  BY <1>0, Advances
<1>2. SUFFICES ASSUME ~Over', NEW o \in DOMAIN ops, Counts(o)' PROVE FALSE
  BY <1>1
<1>3. /\ Live(o) /\ RecoverableDataOperation(o) /\ ops[o].catalog # "lost"
      /\ ops[o].table = progress'.table /\ ops[o].hi > progress'.next
  BY <1>2, CountsBefore
<1>4. CASE pc = "open" /\ table = progress.table + 1 /\ progress' = Saved(emitted, cursor)
  <2>1. ops[o].table = table /\ ops[o].table <= progress.table /\ progress.table \in Nat
    BY <1>0, <1>3, <1>4, ProgressTyped DEF Saved, OpsPast
  <2> QED
    BY <1>4, <2>1
<1>5. CASE /\ pc = "ack" /\ ~rolling
           /\ progress' = Saved(emitted + Len(chunk), Last(chunk))
           /\ progress.table = table
           /\ ~conf.rolling /\ ~Over /\ Len(chunk) = ChunkSize
  <2>1. Reads /\ Writing
    BY <1>5 DEF Reads, Writing
  <2>2. progress.next = emitted /\ emitted \in Nat /\ ChunkSize \in Nat
    BY <1>0, <1>5, <2>1, ReadFacts, BatchFacts
  <2>3. progress'.next = emitted + ChunkSize /\ progress'.table = progress.table
    BY <1>5 DEF Saved
  <2>4. ops[o].hi \in Nat
    <3>1. ops[o] \in OpRecord
      BY <1>0 DEF OpsTyped
    <3> QED
      BY <3>1 DEF OpRecord
  <2>5. Counts(o)
    BY <1>3, <2>2, <2>3, <2>4 DEF Counts
  <2>6. ops[o].hi <= progress.next + ChunkSize
    BY <1>0, <1>5, <2>5 DEF Written
  <2> QED
    BY <1>3, <2>2, <2>3, <2>4, <2>6
<1> QED
  BY <1>0, <1>2, <1>4, <1>5, AdvanceOver

(* The rows before the saved progress.                                     *)
LEMMA CoversStep ==
  ASSUME RowsNext
  PROVE  Covers'
<1>0. /\ CopyInv /\ [Next]_vars /\ Relied /\ ~BeginSnapshot /\ snap = "started" /\ snap' = "started"
      /\ SourceKept /\ TypeOK /\ Covers /\ Copied /\ ChunkRows /\ EndPlace /\ ChunkPlace
  BY RowsParts, CopyParts
<1>1. SUFFICES ASSUME NEW t \in Table, NEW k \in Key, Good(t, k)',
                      t < progress'.table \/ (t = progress'.table /\ k <= progress'.cursor)
               PROVE  Held(t, k)'
  BY DEF Covers
<1>2. Good(t, k) /\ t \in Nat /\ k \in Nat /\ k # NoKey /\ k > NoKey
  BY <1>0, <1>1, GoodKept DEF Table, Key, NoKey
<1>3. /\ progress.table \in Nat /\ progress.cursor \in Nat /\ progress.next \in Nat
      /\ table \in Nat /\ cursor \in Nat /\ emitted \in Nat
  BY <1>0, ProgressTyped
<1>4. CASE progress' = progress
  <2>1. Held(t, k)
    BY <1>0, <1>1, <1>2, <1>4 DEF Covers
  <2>2. ~Emptied(t)
    BY <1>1, <1>2, <1>3, <1>4, EmptiedAlone DEF NoKey
  <2>3. ~(DeleteKeys /\ t = table /\ k \in Range(Head(todo).keys))
    <3>1. SUFFICES ASSUME DeleteKeys, t = table, k \in Range(Head(todo).keys) PROVE FALSE
      OBVIOUS
    <3>2. pc = "batch" /\ todo # <<>> /\ Reads /\ Writing
      BY <3>1 DEF DeleteKeys, Reads, Writing
    <3>3. 1 \in DOMAIN todo /\ Head(todo) = todo[1]
      <4>1. todo \in Seq(Piece)
        BY <1>0 DEF TypeOK
      <4> QED
        BY <3>2, <4>1, EmptySeq
    <3>4. PICK m \in 1..Len(chunk) : chunk[m] = k
      BY <1>0, <3>1, <3>2, <3>3, TodoRows
    <3>5. cursor < k
      BY <1>0, <3>2, <3>4, BatchFacts
    <3>6. progress.table = table /\ progress.cursor <= cursor
      BY <1>0, <3>2, ReadFacts
    <3> QED
      BY <1>1, <1>2, <1>3, <1>4, <3>1, <3>5, <3>6
  <2> QED
    BY <2>1, <2>2, <2>3, HeldStep
<1>5. CASE progress' # progress
  <2>0. Held(t, k) => Held(t, k)'
    BY <1>0, <1>5, AdvanceOver DEF Held
  <2>1. ASSUME t < progress.table \/ (t = progress.table /\ k <= progress.cursor)
        PROVE  Held(t, k)'
    BY <1>0, <1>2, <2>0, <2>1 DEF Covers
  <2>2. CASE /\ pc = "open" /\ Over
             /\ table = progress.table + 1 /\ emitted = 0 /\ cursor = NoKey
             /\ progress' = Saved(emitted, cursor)
    <3>1. progress'.table = table /\ progress'.cursor = NoKey
      BY <2>2 DEF Saved
    <3>2. t < table
      BY <1>1, <1>2, <1>3, <3>1 DEF NoKey
    <3>3. t < progress.table \/ t = progress.table
      BY <1>2, <1>3, <2>2, <3>2
    <3>4. t = progress.table => k <= progress.cursor
      BY <1>1, <1>2, <2>2 DEF Over
    <3> QED
      BY <2>1, <3>3, <3>4
  <2>3. ASSUME Reads, progress.table = table, progress'.table = table
        PROVE  \/ Held(t, k)'
               \/ t = table /\ progress.cursor < k /\ k <= progress'.cursor /\ k \in view
    <3>1. Good(table, k) => k \in view
      BY <1>0, <2>3, ReadFacts
    <3> QED
      BY <1>1, <1>2, <1>3, <2>1, <2>3, <3>1
  <2>4. ASSUME Reads, t = table, progress.cursor < k, k <= cursor
        PROVE  Held(t, k) \/ (Spools /\ k \in Range(spool[table]))
    BY <1>0, <1>2, <2>4 DEF Copied
  <2>5. CASE pc = "rolled" /\ progress' = Saved(emitted, cursor) /\ progress.table = table
    <3>1. Reads /\ progress'.table = table /\ progress'.cursor = cursor
      BY <2>5 DEF Reads, Saved
    <3>2. spool[table] = <<>> /\ Range(spool[table]) = {}
      <4>1. spool[table] = <<>>
        BY <1>0, <2>5 DEF EndPlace
      <4> QED
        BY <4>1 DEF Range
    <3> QED
      BY <2>0, <2>3, <2>4, <2>5, <3>1, <3>2
  <2>6. CASE pc = "ack" /\ ~rolling /\ progress' = Saved(emitted + Len(chunk), Last(chunk)) /\ progress.table = table
    <3>1. Reads /\ Writing /\ progress'.table = table /\ progress'.cursor = Last(chunk)
      BY <2>6 DEF Reads, Writing, Saved
    <3>2. ~Spools
      BY <2>6 DEF Spools
    <3>3. todo = <<>>
      BY <1>0, <2>6 DEF ChunkPlace, Handing
    <3>4. ASSUME t = table, cursor < k, k <= Last(chunk), k \in view
          PROVE  Held(t, k)
      <4>1. Last(chunk) \in Nat
        BY <1>0, <3>1, BatchFacts DEF Key
      <4>2. PICK m \in 1..Len(chunk) : chunk[m] = k
        BY <1>0, <1>2, <3>1, <3>4, <4>1, BatchFacts
      <4>3. m \in DOMAIN chunk
        <5>1. chunk \in Seq(Key)
          BY <1>0, <3>1, BatchFacts
        <5> QED
          BY <4>2, <5>1
      <4>4. ~InTodo(k)
        BY <3>3 DEF InTodo
      <4> QED
        BY <1>0, <1>2, <3>1, <3>2, <3>4, <4>2, <4>3, <4>4 DEF ChunkRows
    <3>5. t = table /\ progress.cursor < k /\ k <= Last(chunk) /\ k \in view => Held(t, k)
      BY <1>2, <1>3, <2>4, <3>1, <3>2, <3>4
    <3> QED
      BY <2>0, <2>3, <2>6, <3>1, <3>5
  <2> QED
    BY <1>0, <1>5, <2>2, <2>5, <2>6, AdvanceOver
<1> QED
  BY <1>4, <1>5

(* The spool of the table keeps its rows, but when it has been committed or *)
(* is begun anew, and takes the batch.                                     *)
LEMMA SpoolStep ==
  ASSUME RowsNext, SinkWorks \/ Outside, NEW k
  PROVE  /\ k \in Range(spool[table]) =>
              k \in Range(spool[table])' \/ RollAnswered \/ (SpoolChunk /\ emitted = 0)
         /\ SpoolChunk /\ k \in Range(chunk) => k \in Range(spool[table])'
<1> USE DEF sourceVars, durableVars, tableVars, sinkVars
<1>0. /\ table \in Table /\ spool \in [Table -> Seq(Key)] /\ chunk \in Seq(Key) /\ TypeOK
  BY RowsParts DEF TypeOK
<1>1. CASE SpoolChunk
  <2>1. table' = table /\ spool' = [spool EXCEPT ![table] = SpoolBefore \o chunk]
    BY <1>1 DEF SpoolChunk
  <2>2. spool'[table] = SpoolBefore \o chunk
    BY <1>0, <2>1
  <2>3. SpoolBefore \in Seq(Key) /\ (emitted # 0 => SpoolBefore = spool[table])
    BY <1>0, EmptySeq DEF SpoolBefore
  <2>4. /\ Len(SpoolBefore) \in Nat /\ Len(chunk) \in Nat
        /\ DOMAIN SpoolBefore = 1..Len(SpoolBefore) /\ DOMAIN chunk = 1..Len(chunk)
    BY <1>0, <2>3
  <2>5. /\ SpoolBefore \o chunk \in Seq(Key)
        /\ Len(SpoolBefore \o chunk) = Len(SpoolBefore) + Len(chunk)
        /\ \A i \in 1..Len(SpoolBefore) : (SpoolBefore \o chunk)[i] = SpoolBefore[i]
        /\ \A i \in 1..Len(chunk) : (SpoolBefore \o chunk)[Len(SpoolBefore) + i] = chunk[i]
    <3> HIDE DEF SpoolBefore
    <3>1. /\ SpoolBefore \o chunk \in Seq(Key)
          /\ Len(SpoolBefore \o chunk) = Len(SpoolBefore) + Len(chunk)
          /\ \A i \in 1..Len(SpoolBefore) + Len(chunk) : (SpoolBefore \o chunk)[i] =
                IF i <= Len(SpoolBefore) THEN SpoolBefore[i] ELSE chunk[i - Len(SpoolBefore)]
      BY <1>0, <2>3, ConcatProperties
    <3>2. \A i \in 1..Len(SpoolBefore) : (SpoolBefore \o chunk)[i] = SpoolBefore[i]
      BY <2>4, <3>1
    <3>3. ASSUME NEW i \in 1..Len(chunk)
          PROVE  (SpoolBefore \o chunk)[Len(SpoolBefore) + i] = chunk[i]
      <4>1. /\ Len(SpoolBefore) + i \in 1..Len(SpoolBefore) + Len(chunk)
            /\ ~(Len(SpoolBefore) + i <= Len(SpoolBefore))
            /\ Len(SpoolBefore) + i - Len(SpoolBefore) = i
        BY <2>4, <3>3
      <4> QED
        BY <3>1, <4>1
    <3> QED
      BY <3>1, <3>2, <3>3
  <2> HIDE DEF SpoolBefore
  <2>6. \A i \in 1..Len(SpoolBefore) : SpoolBefore[i] \in Range(SpoolBefore \o chunk)
    <3>1. \A i \in 1..Len(SpoolBefore) : i \in DOMAIN (SpoolBefore \o chunk)
      BY <2>4, <2>5
    <3> QED
      BY <2>5, <3>1 DEF Range
  <2>7. \A i \in 1..Len(chunk) : chunk[i] \in Range(SpoolBefore \o chunk)
    <3>1. \A i \in 1..Len(chunk) : Len(SpoolBefore) + i \in DOMAIN (SpoolBefore \o chunk)
      BY <2>4, <2>5
    <3> QED
      BY <2>5, <3>1 DEF Range
  <2>8. Range(spool[table])' = Range(SpoolBefore \o chunk)
    BY <2>1, <2>2 DEF Range
  <2>9. k \in Range(chunk) => k \in Range(SpoolBefore \o chunk)
    BY <2>4, <2>7 DEF Range
  <2>10. k \in Range(SpoolBefore) => k \in Range(SpoolBefore \o chunk)
    BY <2>4, <2>6 DEF Range
  <2> QED
    BY <1>1, <2>3, <2>8, <2>9, <2>10
<1>2. CASE ~SpoolChunk /\ ~RollAnswered
  <2>1. UNCHANGED <<spool, table>>
    BY <1>2 DEF Outside, SinkWorks, DeleteKeys, BatchWritten, AppendAnswered, Answered, TruncateAnswered,
         CommitRejected, TableRolled, TruncateForBatch, TruncateForSpool,
         AppendPiece
  <2> QED
    BY <1>2, <2>1 DEF Range
<1> QED
  BY <1>1, <1>2

(* Rows in the target stay there while a table is read, but for the rows    *)
(* of the piece that comes next and for a table that is emptied.           *)
LEMMA ReadHeld ==
  ASSUME RowsNext, Reads, NEW k \in Key, Held(table, k), k <= cursor
  PROVE  table' = table => Held(table, k)'
<1>1. SUFFICES ASSUME table' = table PROVE Held(table, k)'
  OBVIOUS
<1>2. /\ CopyInv /\ TypeOK /\ table \in Table /\ cursor \in Nat /\ k \in Nat /\ k > 0
  BY RowsParts, ReadFacts DEF Key
<1>3. ~Emptied(table)
  BY <1>2, EmptiedAlone DEF NoKey
<1>4. ~(DeleteKeys /\ k \in Range(Head(todo).keys))
  <2>1. SUFFICES ASSUME DeleteKeys, k \in Range(Head(todo).keys) PROVE FALSE
    OBVIOUS
  <2>2. pc = "batch" /\ todo # <<>> /\ Writing
    BY <2>1 DEF DeleteKeys, Writing
  <2>3. 1 \in DOMAIN todo /\ Head(todo) = todo[1]
    <3>1. todo \in Seq(Piece)
      BY <1>2 DEF TypeOK
    <3> QED
      BY <2>2, <3>1, EmptySeq
  <2>4. PICK m \in 1..Len(chunk) : chunk[m] = k
    BY <1>2, <2>1, <2>2, <2>3, TodoRows
  <2>5. cursor < k
    BY <1>2, <2>2, <2>4, BatchFacts
  <2> QED
    BY <1>2, <2>5
<1>5. \A t \in Table : t = table => Held(t, k)'
  BY <1>3, <1>4, HeldStep
<1> QED
  BY <1>1, <1>2, <1>5 DEF Held

(* The rows up to the cursor.                                              *)
LEMMA CopiedStep ==
  ASSUME RowsNext
  PROVE  Copied'
<1> USE DEF Goto, sourceVars, durableVars, tableVars, sinkVars
<1>0. /\ CopyInv /\ [Next]_vars /\ Relied /\ ~BeginSnapshot /\ snap = "started" /\ snap' = "started"
      /\ SourceKept /\ TypeOK /\ Covers /\ Copied /\ ChunkRows /\ Landed /\ ChunkPlace /\ PlaceInv
      /\ Asked /\ conf' = conf /\ TypeOK'
  BY RowsParts, CopyParts
<1>1. SUFFICES ASSUME Reads', NEW k \in Key, Good(table, k)', progress'.cursor < k, k <= cursor'
               PROVE  Held(table, k)' \/ (Spools' /\ k \in Range(spool[table])')
  BY DEF Copied
<1>2. k \in Nat /\ table' \in Table /\ table \in Table
  BY <1>0 DEF Key, TypeOK
<1>3. CASE SinkWorks \/ Outside
  <2>1. /\ Reads /\ UNCHANGED <<conf, progress, table, cursor, rolling, safe>>
    BY <1>0, <1>1, <1>3, Kinds DEF Stays
  <2>2. Good(table, k) /\ (Spools' <=> Spools)
    BY <1>0, <1>1, <1>2, <2>1, GoodKept, ModeKept
  <2>3. Held(table, k) \/ (Spools /\ k \in Range(spool[table]))
    BY <1>0, <1>1, <2>1, <2>2 DEF Copied
  <2>4. ASSUME Held(table, k)
        PROVE  Held(table, k)'
    BY <1>1, <2>1, <2>4, ReadHeld
  <2>5. CASE Spools /\ k \in Range(spool[table])
    <3>1. k \in Range(spool[table])' \/ RollAnswered \/ (SpoolChunk /\ emitted = 0)
      BY <1>3, <2>5, SpoolStep
    <3>2. ASSUME RollAnswered
          PROVE  Held(table, k)
      <4>1. pc = "commit" /\ Current.do = "roll" /\ Current.catalog = "landed"
        BY <3>2 DEF RollAnswered, Answered
      <4>2. RecoverableDataOperation(Len(ops)) /\ Current.keys = spool[table]
        BY <1>0, <4>1 DEF RecoverableDataOperation, Asked, Current
      <4> QED
        BY <1>0, <2>2, <2>5, <4>1, <4>2 DEF Landed
    <3>3. ~(SpoolChunk /\ emitted = 0)
      <4>1. emitted = 0 => cursor = NoKey
        BY <1>0, <2>1, CopyParts DEF ReadPlace
      <4>2. progress.cursor \in Nat
        BY <1>0, ProgressTyped
      <4> QED
        BY <1>1, <1>2, <2>1, <4>1, <4>2 DEF NoKey
    <3> QED
      BY <2>2, <2>4, <2>5, <3>1, <3>2, <3>3
  <2> QED
    BY <2>3, <2>4, <2>5
<1>4. CASE Leaves
  BY <1>0, <1>1, <1>4, Kinds DEF AtTables
<1>5. CASE ResumeSnapshot \/ SourceRetry \/ PlanTables \/ TableRead \/ RolledSaved
  <2>1. pc' \in {"plan", "open", "complete"}
    BY <1>5 DEF StartBarrier, ResumeSnapshot, SourceRetry, PlanTables, TableRead,
       RolledSaved, NextTable
  <2> QED
    BY <1>1, <2>1 DEF Reads
<1>6. CASE OpenTable
  <2>1. progress'.cursor = cursor /\ cursor' = cursor /\ cursor \in Nat
    BY <1>0, <1>6, ProgressTyped DEF OpenTable, SaveSnapshotProgress, Saved
  <2> QED
    BY <1>1, <1>2, <2>1
<1>7. CASE ReadChunk
  <2>1. UNCHANGED <<conf, target, progress, table, cursor, rolling, safe, spool>> /\ Reads
    BY <1>7 DEF ReadChunk, Reads
  <2>2. Good(table, k) /\ (Spools' <=> Spools)
    BY <1>0, <1>1, <1>2, <2>1, GoodKept, ModeKept
  <2>3. Held(table, k) \/ (Spools /\ k \in Range(spool[table]))
    BY <1>0, <1>1, <2>1, <2>2 DEF Copied
  <2> QED
    BY <2>1, <2>2, <2>3 DEF Held, Range
<1>8. CASE Acknowledged
  <2>1. /\ cursor' = Last(chunk)
        /\ IF rolling THEN progress' = progress
           ELSE progress' = Saved(emitted + Len(chunk), Last(chunk))
        /\ UNCHANGED <<conf, target, table, view, rolling, safe, spool>>
        /\ Reads /\ Writing /\ pc = "ack"
    BY <1>8 DEF Acknowledged, BatchSaves, SaveSnapshotProgress, Reads, Writing
  <2>2. /\ Last(chunk) \in Nat /\ chunk \in Seq(Key) /\ cursor \in Nat
    BY <1>0, <2>1, BatchFacts, ProgressTyped DEF Key
  <2>3. progress' = progress
    <3>1. CASE ~rolling
      BY <1>1, <1>2, <2>1, <2>2, <3>1 DEF Saved
    <3> QED
      BY <2>1, <3>1
  <2>4. Good(table, k) /\ (Spools' <=> Spools)
    BY <1>0, <1>1, <1>2, <2>1, GoodKept, ModeKept
  <2>5. Held(table, k) \/ (Spools /\ k \in Range(spool[table]))
    <3>1. CASE k <= cursor
      BY <1>0, <1>1, <2>1, <2>3, <2>4, <3>1 DEF Copied
    <3>2. CASE cursor < k
      <4>1. k \in view
        BY <1>0, <2>1, <2>4, ReadFacts
      <4>2. k <= Last(chunk)
        BY <1>1, <2>1
      <4>3. PICK m \in 1..Len(chunk) : chunk[m] = k
        BY <1>0, <1>2, <2>1, <2>2, <3>2, <4>1, <4>2, BatchFacts
      <4>4. m \in DOMAIN chunk
        BY <2>2, <4>3
      <4>5. todo = <<>>
        BY <1>0, <2>1 DEF ChunkPlace, Handing
      <4>6. ~InTodo(k)
        BY <4>5 DEF InTodo
      <4> QED
        BY <1>0, <2>1, <2>4, <4>3, <4>4, <4>6 DEF ChunkRows
    <3> QED
      BY <1>2, <2>2, <3>1, <3>2
  <2> QED
    BY <2>1, <2>4, <2>5 DEF Held, Range
<1> QED
  BY <1>0, <1>3, <1>4, <1>5, <1>6, <1>7, <1>8, Kinds DEF SourceWorks

(* Whoever asks for anything but a reset is the sink.                      *)
LEMMA NewRequest ==
  ASSUME CopyInv, [Next]_vars, NEW o \in DOMAIN ops', o \notin DOMAIN ops, ops'[o].do # "reset"
  PROVE  Asks /\ o = Len(ops') /\ ops'[o] = Current' /\ pc' = "commit" /\ SinkWorks
<1>0. PlaceInv /\ OpsNext
  BY CopyParts, OpsStep
<1>1. Asks /\ o = Len(ops') /\ ops'[o] = Current' /\ pc' = "commit" /\ Current'.do # "reset"
  BY <1>0 DEF OpsNext, Asks
<1>2. ~Leaves
  BY <1>0, <1>1, Kinds DEF AtTables, Reads
<1>3. ~Outside
  BY <1>1 DEF Outside, Asks
<1>4. ~SourceWorks
  BY <1>1 DEF SourceWorks, BeginSnapshot, StartBarrier, ResumeSnapshot, SourceRetry, PlanTables,
     OpenTable, ReadChunk, Acknowledged, TableRead, RolledSaved, NextTable, Goto
<1> QED
  BY <1>0, <1>1, <1>2, <1>3, <1>4, Kinds

(* The rows of a piece.                                                    *)
LEMMA PieceHas ==
  ASSUME NEW keys, NEW p \in Piece, NEW i, NEW e, IsPiece(p, keys, i, e), emitted \in Nat,
         Len(keys) \in Nat, NEW j \in 1..Len(keys),
         p.lo <= emitted + j - 1, emitted + j - 1 < PieceEnd(p)
  PROVE  keys[j] \in Range(p.keys)
<1>1. /\ i \in Nat /\ e \in Nat /\ j \in Nat
      /\ p.lo = emitted + i - 1 /\ Len(p.keys) = e - i + 1
      /\ \A n \in 1..Len(p.keys) : p.keys[n] = keys[i + n - 1]
  BY DEF IsPiece
<1>2. p.keys \in Seq(Key) /\ PieceEnd(p) = p.lo + Len(p.keys)
  BY DEF Piece, PieceEnd
<1> HIDE DEF PieceEnd
<1> DEFINE n == j - i + 1
<1>3. n \in 1..Len(p.keys) /\ i + n - 1 = j
  BY <1>1, <1>2
<1> HIDE DEF n
<1>4. n \in DOMAIN p.keys
  BY <1>2, <1>3
<1>5. p.keys[n] = keys[i + n - 1]
  BY <1>1, <1>3
<1>6. p.keys[n] = keys[j]
  BY <1>3, <1>5
<1> QED
  BY <1>4, <1>6 DEF Range

(* The rows of a batch that no receipt covers are to be committed.         *)
LEMMA OpenRows ==
  ASSUME CopyInv, ReadChunk, ~Spools, NEW i \in DOMAIN SnapshotQuery,
         i \notin RecoveredAt(SnapshotQuery)
  PROVE  InTodo(chunk[i])'
<1> DEFINE keys == SnapshotQuery
<1>1. /\ chunk' = keys /\ todo' = Pieces(keys)
  BY DEF ReadChunk
<1>2. /\ TypeOK /\ keys \in Seq(Key) /\ emitted \in Nat /\ conf.split \in Nat \ {0}
  BY CopyParts, ChunkRead, ConfAssumption DEF TypeOK, Conf, ReadChunk
<1> HIDE DEF keys
<1>3. i \in Open(keys) /\ i \in 1..Len(keys) /\ Len(keys) \in Nat
  BY <1>2 DEF Open, keys
<1>4. PICK n \in DOMAIN Pieces(keys) :
        Pieces(keys)[n].lo <= emitted + i - 1 /\ emitted + i - 1 < PieceEnd(Pieces(keys)[n])
  BY <1>2, <1>3, PiecesOf
<1>5. Pieces(keys)[n] \in Piece /\ \E b, e \in Nat : IsPiece(Pieces(keys)[n], keys, b, e)
  BY <1>2, PiecesOf
<1>6. keys[i] \in Range(Pieces(keys)[n].keys)
  BY <1>2, <1>3, <1>4, <1>5, PieceHas
<1>7. keys[i] = chunk'[i] /\ n \in DOMAIN todo' /\ todo'[n] = Pieces(keys)[n]
  BY <1>1
<1>8. chunk'[i] \in Range(todo'[n].keys)
  BY <1>6, <1>7
<1> QED
  BY <1>7, <1>8 DEF InTodo, Range

(* A table that is not truncated yet.                                      *)
LEMMA UntruncatedStep ==
  ASSUME CopyInv, [Next]_vars, Untruncated
  PROVE  Untruncated'
<1> USE DEF Goto, sourceVars, durableVars, tableVars, sinkVars
<1>0. /\ PlaceInv /\ TypeOK /\ OpsNext /\ Asked /\ conf' = conf
      /\ receipts \subseteq DOMAIN ops /\ TypeOK' /\ OpsKept
  BY CopyParts, OpsStep, SourceStep, PlaceInvStep DEF ReceiptsTrue, PlaceInv, OpsNext
<1>1. SUFFICES ASSUME Writing', pc' # "ack", NeedsTruncate', ~Spools', NEW i \in DOMAIN chunk'
               PROVE  i \in RecoveredAt(chunk)' \/ InTodo(chunk[i])'
  BY DEF Untruncated
<1>2. Reads'
  BY <1>1 DEF Reads, Writing
<1>3. ~Leaves
  BY <1>0, <1>2, Kinds DEF AtTables
<1>4. CASE SourceWorks
  <2>1. ReadChunk
    BY <1>1, <1>4 DEF Writing, SourceWorks, BeginSnapshot, StartBarrier, ResumeSnapshot, SourceRetry, PlanTables,
     OpenTable, Acknowledged, TableRead, RolledSaved, NextTable
  <2>2. UNCHANGED <<conf, table, safe, rolling, receipts, emitted>> /\ chunk' = SnapshotQuery
    BY <1>0, <2>1 DEF ReadChunk
  <2>3. ~Spools
    BY <1>1, <2>2, ModeKept
  <2>4. RecoveredAt(chunk)' = RecoveredAt(SnapshotQuery)
    BY <1>0, <2>2, RecoveredKept
  <2> QED
    BY <1>1, <2>1, <2>2, <2>3, <2>4, OpenRows
<1>5. CASE SinkWorks \/ Outside
  <2>1. /\ Writing /\ UNCHANGED <<conf, table, safe, rolling, receipts, emitted, chunk>>
    BY <1>0, <1>1, <1>5, Kinds DEF Stays
  <2>2. truncated \subseteq truncated'
    BY <1>5 DEF Outside, SinkWorks, DeleteKeys, BatchWritten, SpoolChunk, AppendAnswered, Answered, TruncateAnswered,
         RollAnswered, CommitRejected, TableRolled, TruncateForBatch, TruncateForSpool,
         TruncateFirst, AppendPiece
  <2>3. NeedsTruncate /\ ~Spools
    BY <1>1, <2>1, <2>2 DEF NeedsTruncate, WriteMode, Spools
  <2>4. pc # "ack"
    BY <1>1, <1>5 DEF Outside, SinkWorks, DeleteKeys, BatchWritten, SpoolChunk, AppendAnswered, Answered, TruncateAnswered,
         RollAnswered, CommitRejected, TableRolled, TruncateForBatch, TruncateForSpool,
         TruncateFirst, AppendPiece
  <2>5. i \in RecoveredAt(chunk) \/ InTodo(chunk[i])
    BY <1>1, <2>1, <2>3, <2>4 DEF Untruncated
  <2>6. RecoveredAt(chunk)' = RecoveredAt(chunk)
    BY <1>0, <2>1, RecoveredKept
  <2>7. ~AppendAnswered
    BY <1>0, <2>3 DEF AppendAnswered, Answered, Asked
  <2>8. todo' = todo
    BY <1>5, <2>7 DEF Outside, SinkWorks, DeleteKeys, BatchWritten, SpoolChunk, TruncateAnswered,
         RollAnswered, CommitRejected, TableRolled, TruncateForBatch, TruncateForSpool,
         AppendPiece
  <2> QED
    BY <2>1, <2>5, <2>6, <2>8 DEF InTodo, Range
<1> QED
  BY <1>0, <1>3, <1>4, <1>5, Kinds

(* Truncates.                                                              *)
LEMMA TruncateAloneStep ==
  ASSUME RowsNext
  PROVE  TruncateAlone'
<1>0. /\ CopyInv /\ [Next]_vars /\ TruncateAlone /\ OneOpen /\ Relied /\ OpsNext /\ ~BeginSnapshot
      /\ snap' = "started" /\ weak' \subseteq {"appended"} /\ OpsTyped
  BY RowsParts, CopyParts
<1>1. SUFFICES ASSUME NEW o \in DOMAIN ops', ops'[o].do = "truncate", ops'[o].intent = "PREPARED"
               PROVE  /\ progress'.table = ops'[o].table /\ progress'.next = 0 /\ progress'.cursor = NoKey
                      /\ \A q \in DOMAIN ops' : Live(q)' /\ RecoverableDataOperation(q)' =>
                           ops'[q].table # ops'[o].table
  BY DEF TruncateAlone
<1>2. ASSUME NEW q \in DOMAIN ops, Live(q)', RecoverableDataOperation(q)'
      PROVE  Live(q) /\ RecoverableDataOperation(q) /\ ops'[q].table = ops[q].table
  BY <1>0, <1>2 DEF OpsNext, OpsKept, SameRequest, RecoverableDataOperation
<1>3. CASE o \in DOMAIN ops
  <2>1. ops[o].do = "truncate" /\ ops[o].intent = "PREPARED" /\ ops'[o].table = ops[o].table
    BY <1>0, <1>1, <1>3 DEF OpsNext, OpsKept, SameRequest
  <2>2. pc \in {"down", "recover", "commit"}
    BY <1>0, <1>3, <2>1 DEF OneOpen
  <2>3. progress' = progress
    BY <1>0, <2>2, AdvanceOver
  <2>4. DOMAIN ops' = DOMAIN ops
    BY <1>0, <2>2 DEF OpsNext, Asks
  <2>5. /\ progress.table = ops[o].table /\ progress.next = 0 /\ progress.cursor = NoKey
        /\ \A q \in DOMAIN ops : Live(q) /\ RecoverableDataOperation(q) => ops[q].table # ops[o].table
    BY <1>0, <1>3, <2>1 DEF TruncateAlone
  <2> QED
    BY <1>2, <2>1, <2>3, <2>4, <2>5
<1>4. CASE o \notin DOMAIN ops
  <2>1. Asks /\ o = Len(ops') /\ ops'[o] = Current' /\ pc' = "commit" /\ SinkWorks
    BY <1>0, <1>1, <1>4, NewRequest
  <2>2. /\ pc \in {"batch", "spool"} /\ NeedsTruncate /\ emitted = 0
        /\ weak' = weak \cup {w \in {"wiped"} : \E r \in receipts : ops[r].table = table}
    BY <1>0, <1>1, <2>1, Asking
  <2>3. \A r \in receipts : ops[r].table # table
    BY <1>0, <2>2
  <2>4. Reads
    BY <2>2 DEF Reads
  <2>5. /\ progress.table = table /\ progress.next = 0 /\ progress.cursor = NoKey
        /\ \A q \in DOMAIN ops : Live(q) /\ RecoverableDataOperation(q) => ops[q].table # table
    BY <1>0, <2>2, <2>3, <2>4, TruncatesAlone
  <2>6. progress' = progress /\ ops'[o].table = table /\ DOMAIN ops' = DOMAIN ops \cup {o}
    BY <2>1 DEF Asks
  <2>7. ~RecoverableDataOperation(o)'
    BY <1>1 DEF RecoverableDataOperation
  <2> QED
    BY <1>2, <2>5, <2>6, <2>7
<1> QED
  BY <1>3, <1>4

(* Only the catalog lets a request land.                                   *)
LEMMA Accepted ==
  ASSUME CopyInv, [Next]_vars, NEW o \in DOMAIN ops,
         ops[o].catalog = "inflight", ops'[o].catalog = "landed"
  PROVE  CatalogAccepts(o)
<1> USE DEF Goto, sourceVars, durableVars, tableVars, sinkVars
<1>0. OpsTyped
  BY CopyParts
<1>1. ops'[o].catalog # ops[o].catalog
  OBVIOUS
<1>2. ASSUME NEW S, NEW st \in {"none", "PREPARED", "COMMITTED"}, ops' = SetIntents(S, st)
      PROVE  FALSE
  BY <1>0, <1>1, <1>2, SettledTyped
<1>3. ASSUME NEW do, NEW lo, NEW hi, NEW keys, Begin(do, lo, hi, keys)
      PROVE  FALSE
  BY <1>0, <1>1, <1>3 DEF Begin, OpsTyped
<1>4. CASE RunStep
  <2>1. \/ ops' = ops
        \/ \E S, st : st \in {"none", "PREPARED", "COMMITTED"} /\ ops' = SetIntents(S, st)
        \/ \E do, lo, hi, keys : Begin(do, lo, hi, keys)
    <3>1. ASSUME NEW p \in DOMAIN ops, RecoverOne(p)
          PROVE  \E S, st : st \in {"none", "PREPARED", "COMMITTED"} /\ ops' = SetIntents(S, st)
      BY <3>1 DEF RecoverOne
    <3>2. CASE AppendAnswered \/ TruncateAnswered \/ ResetAnswered \/ RollAnswered
      <4>1. PICK do : Answered(do)
        BY <3>2 DEF AppendAnswered, TruncateAnswered, ResetAnswered, RollAnswered
      <4> QED
        BY <4>1 DEF Answered
    <3>3. CASE ResetTarget \/ TableRolled \/ TruncateForBatch \/ TruncateForSpool \/ AppendPiece
      BY <3>3 DEF ResetTarget, TableRolled, TruncateForBatch, TruncateForSpool, TruncateFirst, AppendPiece
    <3>4. CASE OpenTable \/ Acknowledged \/ RolledSaved
      BY <3>4 DEF OpenTable, Acknowledged, RolledSaved, SaveSnapshotProgress
    <3>5. CASE \/ RecoverDone \/ EnsureTables \/ ResetInitialCheckpoint \/ BeginSnapshot \/ ResumeSnapshot
               \/ ResumeConfirmed \/ PlanTables \/ ReadChunk \/ TableRead \/ DeleteKeys
               \/ BatchWritten \/ SpoolChunk \/ ConfirmCompletion \/ ClearProgress
      BY <3>5 DEF RecoverDone, EnsureTables, ResetInitialCheckpoint, BeginSnapshot, ResumeSnapshot,
         ResumeConfirmed, PlanTables, ReadChunk, TableRead, DeleteKeys,
         BatchWritten, SpoolChunk, ConfirmCompletion, ClearProgress
    <3> QED
      BY <1>4, <3>1, <3>2, <3>3, <3>4, <3>5 DEF RunStep
  <2> QED
    BY <1>1, <1>2, <1>3, <2>1
<1>5. ASSUME NEW p \in DOMAIN ops, CatalogAccepts(p)
      PROVE  p = o
  BY <1>0, <1>1, <1>5 DEF CatalogAccepts, OpsTyped
<1>6. ASSUME NEW p \in DOMAIN ops, NEW c \in {"landed", "lost"}, c = "lost",
             \/ ops' = [ops EXCEPT ![p].catalog = c]
             \/ ops' = [ops EXCEPT ![p].catalog = c, ![p].intent = "none"]
      PROVE  FALSE
  <2>1. ops'[p].catalog = "lost" /\ \A q \in DOMAIN ops : q # p => ops'[q] = ops[q]
    BY <1>0, <1>6, RequestTyped
  <2> QED
    BY <1>1, <2>1
<1>7. ASSUME NEW p \in DOMAIN ops, CatalogLoses(p)
      PROVE  FALSE
  BY <1>6, <1>7 DEF CatalogLoses
<1>8. ~CommitRejected
  <2>1. SUFFICES ASSUME CommitRejected PROVE FALSE
    OBVIOUS
  <2>2. Len(ops) \in DOMAIN ops
    <3>1. ops # <<>>
      BY <2>1, CopyParts DEF CommitRejected, CommitPlace
    <3> QED
      BY <1>0, <3>1, EmptySeq DEF OpsTyped
  <2> QED
    BY <1>6, <2>1, <2>2 DEF CommitRejected
<1>9. ~Rebuild
  BY <1>2 DEF Rebuild
<1>10. CASE \/ \E t \in Table, k \in Key : Change(t, k)
            \/ \E initial \in BOOLEAN : StartRun(initial)
            \/ SourceRetry \/ RunRefused \/ RunEnds \/ UNCHANGED vars
  BY <1>1, <1>10 DEF Change, StartRun, SourceRetry, RunRefused, RunEnds, vars
<1> QED
  BY <1>4, <1>5, <1>7, <1>8, <1>9, <1>10 DEF Next

(* What lands is in the target.                                            *)
LEMMA AcceptedHeld ==
  ASSUME CopyInv, NEW o \in DOMAIN ops, CatalogAccepts(o), RecoverableDataOperation(o),
         NEW k \in Range(ops[o].keys)
  PROVE  k \in Key /\ \A t \in Table : t = ops[o].table => Held(t, k)'
<1>1. TypeOK /\ OpsTyped
  BY CopyParts
<1>2. ops[o] \in OpRecord /\ target \in [Table -> [Key -> Nat]]
  BY <1>1 DEF OpsTyped, TypeOK
<1>3. ops[o].table \in Table /\ ops[o].keys \in Seq(Key) /\ ops[o].do \in {"append", "roll"}
  BY <1>2 DEF OpRecord, RecoverableDataOperation
<1>4. k \in Key
  BY <1>3 DEF Range
<1>5. target[ops[o].table] \in [Key -> Nat]
  BY <1>2, <1>3
<1>6. 1 <= Effect(ops[o], target[ops[o].table])[k] /\ Effect(ops[o], target[ops[o].table]) \in [Key -> Nat]
  BY <1>2, <1>3, <1>4, <1>5, EffectTyped
<1>7. target' = [target EXCEPT ![ops[o].table] = Effect(ops[o], @)]
  BY DEF CatalogAccepts
<1>8. target'[ops[o].table] = Effect(ops[o], target[ops[o].table])
  BY <1>2, <1>3, <1>7
<1>9. Effect(ops[o], target[ops[o].table])[k] \in Nat
  BY <1>4, <1>6
<1> QED
  BY <1>4, <1>6, <1>8, <1>9 DEF Held

(* A commit that has landed has its rows in the target.                    *)
LEMMA LandedStep ==
  ASSUME RowsNext
  PROVE  Landed'
<1> USE DEF Goto, sourceVars, durableVars, tableVars, sinkVars
<1>0. /\ CopyInv /\ [Next]_vars /\ PlaceInv /\ OpsTyped /\ Landed /\ Relied /\ SourceKept
      /\ CommitPlace /\ OpsKept /\ TypeOK'
  BY RowsParts, CopyParts
<1>1. SUFFICES ASSUME pc' = "commit", RecoverableDataOperation(Len(ops))', Current'.catalog = "landed",
                      NEW k \in Range(Current'.keys), Good(table, k)'
               PROVE  Held(table, k)'
  BY DEF Landed
<1>2. Current'.do \in {"append", "roll"} /\ Reads'
  BY <1>1 DEF RecoverableDataOperation, Current, Reads
<1>3. ~Leaves /\ ~SourceWorks
  <2>1. ~Leaves
    BY <1>0, <1>2, Kinds DEF AtTables
  <2>2. ~SourceWorks
    BY <1>1 DEF SourceWorks, BeginSnapshot, StartBarrier, ResumeSnapshot, SourceRetry, PlanTables,
       OpenTable, ReadChunk, Acknowledged, TableRead, RolledSaved, NextTable
  <2> QED
    BY <2>1, <2>2
<1>4. ~SinkWorks
  <2>1. SinkWorks => Current'.catalog = "inflight"
    BY <1>0, <1>1, Asking DEF Asks
  <2> QED
    BY <1>1, <2>1
<1>5. Outside
  BY <1>0, <1>3, <1>4, Kinds
<1>6. /\ pc = "commit" /\ table' = table /\ Len(ops') = Len(ops) /\ ops # <<>> /\ DOMAIN ops' = DOMAIN ops
  BY <1>0, <1>1, <1>5 DEF Outside, CommitPlace
<1>7. /\ Len(ops) \in DOMAIN ops /\ Current.do = Current'.do /\ Current.keys = Current'.keys
  BY <1>0, <1>6, SameCurrent
<1>8. RecoverableDataOperation(Len(ops)) /\ Current = ops[Len(ops)] /\ Current' = ops'[Len(ops)]
  BY <1>2, <1>6, <1>7 DEF RecoverableDataOperation, Current
<1>9. k \in Key /\ table \in Table /\ Current.table = table
  <2>1. ops[Len(ops)] \in OpRecord
    BY <1>0, <1>7 DEF OpsTyped
  <2>2. Current.keys \in Seq(Key)
    BY <1>8, <2>1 DEF OpRecord
  <2>3. k \in Range(Current.keys)
    BY <1>1, <1>7
  <2>4. k \in Key
    BY <2>2, <2>3 DEF Range
  <2>5. table \in Table
    BY <1>0, <1>6 DEF TypeOK
  <2> QED
    BY <1>0, <1>6, <2>4, <2>5 DEF CommitPlace
<1>10. Good(table, k)
  BY <1>0, <1>1, <1>6, <1>9, GoodKept
<1>11. CASE Current.catalog = "landed"
  <2>1. Held(table, k)
    BY <1>0, <1>1, <1>6, <1>7, <1>8, <1>10, <1>11 DEF Landed
  <2>2. ~Emptied(table)
    <3>1. Reads /\ Current.do # "truncate"
      BY <1>2, <1>6, <1>7 DEF Reads
    <3> QED
      BY <1>6, <1>9, <3>1, EmptiedAlone
  <2>3. ~DeleteKeys
    BY <1>6 DEF DeleteKeys
  <2>4. \A t \in Table : t = table => Held(t, k)'
    BY <1>9, <2>1, <2>2, <2>3, HeldStep
  <2> QED
    BY <1>6, <1>9, <2>4 DEF Held
<1>12. CASE Current.catalog # "landed"
  <2>1. Current.catalog = "inflight"
    <3>1. OpsNext
      BY <1>0, CopyParts, OpsStep
    <3> QED
      BY <1>1, <1>7, <1>8, <1>12, <3>1 DEF OpsNext
  <2>2. CatalogAccepts(Len(ops))
    BY <1>0, <1>1, <1>7, <1>8, <2>1, Accepted
  <2>3. \A t \in Table : t = ops[Len(ops)].table => Held(t, k)'
    BY <1>0, <1>1, <1>7, <1>8, <2>2, AcceptedHeld
  <2> QED
    BY <1>6, <1>8, <1>9, <2>3 DEF Held
<1> QED
  BY <1>11, <1>12

(* A row of the batch that a receipt covers is in the target.              *)
LEMMA RecoveredHeld ==
  ASSUME RowsNext, Reads, NEW m \in Nat, m >= 1, NEW k \in view, cursor < k, Reached(view, cursor, k) = m,
         Good(table, k),
         NEW o \in receipts, ops[o].table = table, InRange(o, emitted + m - 1)
  PROVE  Held(table, k)
<1>0. /\ CopyInv /\ Relied /\ Written /\ Agree /\ OpsTyped /\ ReceiptsTrue
  BY RowsParts, CopyParts
<1>1. /\ progress.table = table /\ table \in Table
      /\ progress.cursor \in Nat /\ progress.next \in Nat /\ emitted \in Nat /\ cursor \in Nat
      /\ progress.cursor <= cursor /\ progress.next <= emitted
      /\ view \in SUBSET Key /\ k \in Nat
      /\ Reached(view, progress.cursor, k) \in Nat
      /\ progress.next + Reached(view, progress.cursor, k) = emitted + m
  BY <1>0, ReadFacts
<1>2. o \in DOMAIN ops /\ ops[o] \in OpRecord /\ ops[o].catalog = "landed" /\ RecoverableDataOperation(o)
  <2>1. o \in DOMAIN ops
    BY <1>0 DEF ReceiptsTrue
  <2> QED
    BY <1>0, <2>1 DEF ReceiptsTrue, OpsTyped
<1>3. ops[o].lo \in Nat /\ ops[o].hi \in Nat /\ ops[o].seen \in SUBSET Key
  BY <1>2 DEF OpRecord
<1>4. ops[o].lo < emitted + m /\ emitted + m <= ops[o].hi
  BY <1>1, <1>3 DEF InRange
<1>5. ~Over
  BY <1>1 DEF Over
<1>6. Counts(o)
  <2>1. ops[o].hi > progress.next
    BY <1>1, <1>3, <1>4
  <2> QED
    BY <1>1, <1>2, <2>1 DEF Counts, Live
<1> DEFINE n == ops[o].hi - progress.next
           c == progress.cursor
<1>7. n \in Int /\ Reached(view, c, k) <= n /\ c < k
  BY <1>1, <1>3, <1>4
<1>8. FirstRowsOf(ops[o].seen, n) = FirstRowsOf(view, n)
  BY <1>0, <1>5, <1>6 DEF Agree
<1>9. {j \in ops[o].seen : c < j /\ Reached(ops[o].seen, c, j) <= n} = {j \in view : c < j /\ Reached(view, c, j) <= n}
  BY <1>8 DEF FirstRowsOf
<1> HIDE DEF n
<1>10. k \in ops[o].seen /\ Reached(ops[o].seen, c, k) = Reached(view, c, k)
  BY <1>1, <1>3, <1>7, <1>9, ReachedAgrees
<1>11. HasPlace(o, k)
  BY <1>1, <1>4, <1>7, <1>10 DEF HasPlace
<1> QED
  BY <1>0, <1>1, <1>2, <1>5, <1>6, <1>11 DEF Written

(* What is left of the batch keeps its rows, but the piece that has just    *)
(* been committed.                                                         *)
LEMMA InTodoKept ==
  ASSUME CopyInv, SinkWorks \/ Outside, NEW k, InTodo(k)
  PROVE  InTodo(k)' \/ (AppendAnswered /\ k \in Range(Head(todo).keys))
<1> USE DEF Goto, sourceVars, durableVars, tableVars, sinkVars
<1>0. TypeOK /\ CommitPlace
  BY CopyParts
<1>1. PICK n \in DOMAIN todo : k \in Range(todo[n].keys)
  BY DEF InTodo
<1>2. CASE ~AppendAnswered
  <2>1. todo' = todo
    BY <1>2 DEF Outside, SinkWorks, DeleteKeys, BatchWritten, SpoolChunk, TruncateAnswered,
         RollAnswered, CommitRejected, TableRolled, TruncateForBatch, TruncateForSpool,
         AppendPiece
  <2> QED
    BY <1>1, <2>1 DEF InTodo, Range
<1>3. CASE AppendAnswered
  <2>1. todo # <<>> /\ todo' = Tail(todo) /\ todo \in Seq(Piece)
    BY <1>0, <1>3 DEF AppendAnswered, Answered, CommitPlace, TypeOK
  <2>2. CASE n = 1
    BY <1>1, <1>3, <2>1, <2>2
  <2>3. CASE n # 1
    <3>1. n \in 1..Len(todo) /\ Len(todo) \in Nat
      BY <1>1, <2>1
    <3>2. /\ Len(Tail(todo)) = Len(todo) - 1 /\ Tail(todo) \in Seq(Piece)
          /\ \A m \in 1..Len(Tail(todo)) : Tail(todo)[m] = todo[m + 1]
      BY <2>1, HeadTailProperties
    <3>3. n - 1 \in 1..Len(Tail(todo)) /\ (n - 1) + 1 = n
      BY <2>3, <3>1, <3>2
    <3>4. n - 1 \in DOMAIN todo' /\ todo'[n - 1] = todo[n]
      BY <2>1, <3>2, <3>3
    <3>5. k \in Range(todo'[n - 1].keys)
      BY <1>1, <3>4
    <3> QED
      BY <3>4, <3>5 DEF InTodo, Range
  <2> QED
    BY <2>2, <2>3
<1> QED
  BY <1>2, <1>3

(* The rows of a batch that has just been read.                            *)
LEMMA ChunkRowsRead ==
  ASSUME RowsNext, ReadChunk, NEW i \in DOMAIN chunk', Good(table, chunk[i])'
  PROVE  \/ Held(table, chunk[i])' \/ InTodo(chunk[i])'
         \/ Spools' /\ pc' = "spool"
<1> USE DEF Goto, sourceVars, durableVars, tableVars, sinkVars
<1> DEFINE k == chunk'[i]
<1>0. /\ CopyInv /\ [Next]_vars /\ TypeOK /\ SourceKept
  BY RowsParts
<1>1. /\ Reads /\ chunk' = SnapshotQuery /\ Remaining # <<>>
      /\ UNCHANGED <<conf, target, table, safe, rolling, src, touched>>
  BY DEF ReadChunk, Reads
<1>2. view \subseteq Key /\ cursor \in Key \cup {NoKey} /\ table \in Table
  BY <1>0 DEF TypeOK
<1>3. /\ SnapshotQuery \in Seq(Key) /\ Len(SnapshotQuery) \in Nat /\ DOMAIN SnapshotQuery = 1..Len(SnapshotQuery)
      /\ i \in 1..Len(SnapshotQuery)
  BY <1>1, <1>2, BatchPlaces
<1>4. /\ k \in view /\ cursor < k /\ Reached(view, cursor, k) = i /\ i \in Nat /\ i >= 1 /\ k \in Key
  BY <1>1, <1>2, <1>3, BatchPlaces
<1>5. Spools' <=> Spools
  BY <1>1, ModeKept
<1>6. Good(table, k)
  BY <1>1 DEF Good, Untouched
<1>7. ASSUME i \in RecoveredAt(SnapshotQuery)
      PROVE  Held(table, chunk[i])'
  <2>1. PICK o \in receipts : ops[o].table = table /\ InRange(o, emitted + i - 1)
    BY <1>7 DEF RecoveredAt
  <2> HIDE DEF k
  <2>2. Held(table, k)
    BY <1>1, <1>4, <1>6, <2>1, RecoveredHeld
  <2> QED
    BY <1>1, <2>2 DEF Held, k
<1>8. CASE i \notin RecoveredAt(SnapshotQuery) /\ ~Spools
  <2>1. i \in DOMAIN SnapshotQuery
    BY <1>3
  <2> QED
    BY <1>0, <1>8, <2>1, OpenRows
<1>9. CASE i \notin RecoveredAt(SnapshotQuery) /\ Spools
  <2>1. emitted \in Nat /\ conf.split \in Nat \ {0}
    BY <1>0, ConfAssumption DEF TypeOK, Conf
  <2>2. \E n \in DOMAIN Pieces(SnapshotQuery) : TRUE
    <3> HIDE DEF k
    <3>1. i \in Open(SnapshotQuery)
      BY <1>3, <1>9 DEF Open
    <3> QED
      BY <1>3, <2>1, <3>1, PiecesOf
  <2>3. Pieces(SnapshotQuery) # <<>>
    BY <2>2
  <2> QED
    BY <1>5, <1>9, <2>3 DEF ReadChunk
<1> QED
  BY <1>7, <1>8, <1>9

(* The rows of a batch while it is written.                                *)
LEMMA ChunkRowsStep ==
  ASSUME RowsNext
  PROVE  ChunkRows'
<1> USE DEF Goto, sourceVars, durableVars, tableVars, sinkVars
<1>0. /\ CopyInv /\ [Next]_vars /\ PlaceInv /\ TypeOK /\ TypeOK' /\ ChunkRows /\ Relied /\ SourceKept
      /\ Untruncated /\ Landed /\ Asked /\ TodoPlace /\ CommitPlace /\ OneOpen /\ InFlightOpen
  BY RowsParts, CopyParts
<1>1. SUFFICES ASSUME Writing', NEW i \in DOMAIN chunk', Good(table, chunk[i])'
               PROVE  \/ Held(table, chunk[i])' \/ InTodo(chunk[i])'
                      \/ Spools' /\ (pc' \in {"spool", "commit"} \/ chunk'[i] \in Range(spool[table])')
  BY DEF ChunkRows
<1>2. ~Leaves
  <2>1. Reads'
    BY <1>1 DEF Reads, Writing
  <2> QED
    BY <1>0, <2>1, Kinds DEF AtTables
<1>3. CASE SourceWorks
  <2>1. ReadChunk
    BY <1>1, <1>3 DEF Writing, SourceWorks, BeginSnapshot, StartBarrier, ResumeSnapshot, SourceRetry, PlanTables,
     OpenTable, Acknowledged, TableRead, RolledSaved, NextTable
  <2> QED
    BY <1>1, <2>1, ChunkRowsRead
<1>4. CASE SinkWorks \/ Outside
  <2>0. /\ Writing /\ UNCHANGED <<table, safe, rolling, receipts, emitted, chunk>> /\ conf' = conf
    BY <1>0, <1>1, <1>4, RowsParts, Kinds DEF Stays
  <2>1. /\ Writing /\ Reads /\ UNCHANGED <<conf, table, safe, rolling, receipts, emitted, chunk>>
    BY <2>0 DEF Reads, Writing
  <2>2. PICK k \in Key : k = chunk[i] /\ k = chunk'[i] /\ i \in DOMAIN chunk
    <3>1. chunk \in Seq(Key)
      BY <1>0 DEF TypeOK
    <3>2. i \in DOMAIN chunk /\ chunk[i] \in Key /\ chunk'[i] = chunk[i]
      BY <1>1, <2>1, <3>1
    <3> QED
      BY <3>2
  <2>3. table \in Table /\ k \in Range(chunk)
    BY <1>0, <2>2 DEF TypeOK, Range
  <2>4. Good(table, k)
    BY <1>0, <1>1, <2>1, <2>2, <2>3, GoodKept
  <2>5. \/ Held(table, k) \/ InTodo(k)
        \/ Spools /\ (pc \in {"spool", "commit"} \/ k \in Range(spool[table]))
    BY <1>0, <2>1, <2>2, <2>4 DEF ChunkRows
  <2>6. Spools' <=> Spools
    BY <2>1, ModeKept
  <2>7. SUFFICES \/ Held(table, k)' \/ InTodo(k)'
                 \/ Spools' /\ (pc' \in {"spool", "commit"} \/ k \in Range(spool[table])')
    BY <2>2 DEF Held, InTodo, Range
  <2>8. ASSUME InTodo(k)
        PROVE  Held(table, k)' \/ InTodo(k)'
    <3>1. SUFFICES ASSUME AppendAnswered, k \in Range(Head(todo).keys) PROVE Held(table, k)'
      BY <1>0, <1>4, <2>8, InTodoKept
    <3>2. /\ pc = "commit" /\ Current.do = "append" /\ Current.catalog = "landed"
          /\ UNCHANGED <<target, table>>
      BY <3>1 DEF AppendAnswered, Answered
    <3>3. Current.keys = Head(todo).keys /\ RecoverableDataOperation(Len(ops))
      BY <1>0, <3>2 DEF Asked, RecoverableDataOperation, Current
    <3>4. Held(table, k)
      BY <1>0, <2>4, <3>1, <3>2, <3>3 DEF Landed
    <3> QED
      BY <3>2, <3>4 DEF Held
  <2>9. CASE Held(table, k)
    <3>1. CASE Emptied(table)
      <4>1. /\ UNCHANGED <<pc, todo>> /\ NeedsTruncate
            /\ \A q \in DOMAIN ops : Live(q) /\ RecoverableDataOperation(q) => ops[q].table # table
            /\ pc \in {"batch", "spool"} \/ (pc = "commit" /\ Current.do = "truncate")
        BY <2>1, <2>3, <3>1, EmptiedAlone
      <4>2. CASE Spools
        <5>1. pc # "batch"
          <6>1. SUFFICES ASSUME pc = "batch" PROVE FALSE
            OBVIOUS
          <6>2. ~TruncateForBatch /\ ~TruncateForSpool
            BY <1>0, <2>1, <4>2, <6>1 DEF TruncateForBatch, TruncateForSpool, TodoPlace
          <6>3. ~\E o \in DOMAIN ops : CatalogAccepts(o)
            BY <1>0, <6>1 DEF CatalogAccepts, InFlightOpen, OneOpen
          <6> QED
            BY <3>1, <6>2, <6>3 DEF Emptied
        <5> QED
          BY <2>6, <4>1, <4>2, <5>1
      <4>3. CASE ~Spools
        <5>1. i \in RecoveredAt(chunk) \/ InTodo(k)
          BY <1>0, <2>1, <2>2, <4>1, <4>3 DEF Untruncated
        <5>2. i \notin RecoveredAt(chunk)
          <6>1. SUFFICES ASSUME NEW o \in receipts, ops[o].table = table, RecoverableDataOperation(o)
                         PROVE  FALSE
            BY DEF RecoveredAt
          <6>2. o \in DOMAIN ops /\ Live(o)
            BY <1>0, CopyParts DEF ReceiptsTrue, Live
          <6> QED
            BY <4>1, <6>1, <6>2
        <5> QED
          BY <2>8, <5>1, <5>2
      <4> QED
        BY <4>2, <4>3
    <3>2. CASE DeleteKeys /\ k \in Range(Head(todo).keys)
      <4>1. todo' = todo /\ todo # <<>> /\ todo \in Seq(Piece)
        BY <1>0, <3>2 DEF DeleteKeys, TypeOK
      <4>2. 1 \in DOMAIN todo /\ Head(todo) = todo[1]
        BY <4>1, EmptySeq
      <4>3. k \in Range(todo[1].keys)
        BY <3>2, <4>2
      <4> QED
        BY <4>1, <4>2, <4>3 DEF InTodo, Range
    <3>3. CASE ~Emptied(table) /\ ~(DeleteKeys /\ k \in Range(Head(todo).keys))
      <4>1. \A t \in Table : t = table => Held(t, k)'
        BY <2>3, <2>9, <3>3, HeldStep
      <4> QED
        BY <2>1, <2>3, <4>1 DEF Held
    <3> QED
      BY <3>1, <3>2, <3>3
  <2>10. CASE Spools /\ k \in Range(spool[table])
    <3>1. ~RollAnswered
      BY <2>1 DEF RollAnswered, Answered, Writing
    <3> QED
      BY <1>4, <2>3, <2>6, <2>10, <3>1, SpoolStep
  <2>11. CASE Spools /\ pc \in {"spool", "commit"}
    <3>1. todo = <<>>
      BY <1>0, <2>1, <2>11 DEF TodoPlace
    <3>2. CASE SpoolChunk
      BY <1>4, <2>3, <2>6, <2>11, <3>2, SpoolStep
    <3>3. CASE ~SpoolChunk
      <4>1. ~AppendAnswered /\ ~RollAnswered /\ ~CommitRejected
        <5>1. ~AppendAnswered
          BY <1>0, <3>1 DEF AppendAnswered, Answered, CommitPlace
        <5>2. ~RollAnswered
          BY <2>1 DEF RollAnswered, Answered, Writing
        <5>3. ~CommitRejected
          BY <1>0, <2>1, <3>1 DEF CommitRejected, CommitPlace, Writing
        <5> QED
          BY <5>1, <5>2, <5>3
      <4>2. pc' \in {"spool", "commit"}
        BY <1>4, <2>11, <3>1, <3>3, <4>1 DEF Outside, SinkWorks, DeleteKeys, BatchWritten, TruncateAnswered, Answered,
           TableRolled, TruncateForBatch, TruncateForSpool, TruncateFirst, AppendPiece, Begin
      <4> QED
        BY <2>6, <2>11, <4>2
    <3> QED
      BY <3>2, <3>3
  <2> QED
    BY <2>5, <2>8, <2>9, <2>10, <2>11
<1> QED
  BY <1>0, <1>2, <1>3, <1>4, Kinds

(* The first piece that is left.                                           *)
LEMMA FirstPiece ==
  ASSUME TypeOK, todo # <<>>
  PROVE  1 \in DOMAIN todo /\ Head(todo) = todo[1]
<1>1. todo \in Seq(Piece)
  BY DEF TypeOK
<1> QED
  BY <1>1, EmptySeq

(* The receipts that count are of reads that agree with the view.          *)
LEMMA AgreeStep ==
  ASSUME RowsNext
  PROVE  Agree'
<1> USE DEF Goto, sourceVars, durableVars, tableVars, sinkVars
<1>0. /\ CopyInv /\ [Next]_vars /\ PlaceInv /\ Relied /\ SourceKept /\ Agree /\ OpsKept
      /\ weak' \subseteq {"appended"} /\ ~BeginSnapshot /\ TypeOK
  BY RowsParts
<1>1. SUFFICES ASSUME Reads', ~Over', NEW o \in receipts', Counts(o)'
               PROVE  (FirstRowsOf(ops[o].seen, ops[o].hi - progress.next)
                         = FirstRowsOf(view, ops[o].hi - progress.next))'
  BY DEF Agree
<1>2. ~Leaves
  BY <1>0, <1>1, Kinds DEF AtTables
<1>3. receipts' \subseteq receipts
  <2>1. \A q \in DOMAIN ops : ~RecoverOne(q)
    BY <1>2 DEF Leaves
  <2> QED
    BY <1>0, <2>1, ReceiptStep
<1>4. o \in receipts /\ o \in DOMAIN ops
  BY <1>0, <1>1, <1>3, CopyParts DEF ReceiptsTrue
<1>5. ops'[o].seen = ops[o].seen /\ ops'[o].hi = ops[o].hi /\ ops'[o].table = ops[o].table
  BY <1>0, <1>4 DEF OpsKept, SameRequest
<1>6. CASE OpenTable
  <2>1. /\ progress' = Saved(emitted, cursor) /\ view' = src[table]
        /\ weak' = weak \cup {w \in {"shifted"} : \E q \in receipts : Shifts(q)}
    BY <1>6 DEF OpenTable, SaveSnapshotProgress, ConsistentView
  <2>2. progress'.table = table /\ progress'.next = emitted /\ progress'.cursor = cursor
    BY <2>1 DEF Saved
  <2>3. ~Shifts(o)
    BY <1>0, <1>4, <2>1
  <2>4. ops[o].table = table /\ ops[o].hi > emitted
    BY <1>1, <1>5, <2>2 DEF Counts
  <2>5. FirstAfterCursor(ops[o].seen, ops[o].hi - emitted)
          = FirstAfterCursor(src[table], ops[o].hi - emitted)
    BY <2>3, <2>4 DEF Shifts
  <2> QED
    BY <1>5, <2>1, <2>2, <2>5 DEF FirstRowsOf, FirstAfterCursor, Reached
<1>7. CASE SinkWorks \/ Outside \/ ReadChunk \/ Acknowledged
  <2>1. Reads /\ view' = view
    <3>1. CASE SinkWorks \/ Outside
      BY <1>0, <1>1, <3>1, Kinds DEF Stays
    <3>2. CASE ReadChunk \/ Acknowledged
      BY <3>2 DEF ReadChunk, Acknowledged, Reads
    <3> QED
      BY <1>7, <3>1, <3>2
  <2>2. progress' = progress
    <3>1. o \in DOMAIN ops'
      BY <1>0, <1>4 DEF OpsKept
    <3> QED
      BY <1>1, <3>1, NoneCounts
  <2>3. ~Over /\ Counts(o)
    BY <1>0, <1>1, <1>4, <2>2, OverKept, CountsBefore
  <2>4. FirstRowsOf(ops[o].seen, ops[o].hi - progress.next) = FirstRowsOf(view, ops[o].hi - progress.next)
    BY <1>0, <1>4, <2>1, <2>3 DEF Agree
  <2> QED
    BY <1>5, <2>1, <2>2, <2>4 DEF FirstRowsOf, Reached
<1>8. ~(ResumeSnapshot \/ SourceRetry \/ PlanTables \/ TableRead \/ RolledSaved)
  BY <1>1 DEF Reads, StartBarrier, ResumeSnapshot, SourceRetry, PlanTables, TableRead,
     RolledSaved, NextTable
<1> QED
  BY <1>0, <1>2, <1>6, <1>7, <1>8, Kinds DEF SourceWorks

(* The rows a piece deletes are not those of an operation that counts.     *)
LEMMA DeletedApart ==
  ASSUME RowsNext, ~Over, DeleteKeys, NEW k \in Range(Head(todo).keys),
         NEW o \in DOMAIN ops, Counts(o), HasPlace(o, k)
  PROVE  FALSE
<1>0. /\ CopyInv /\ TypeOK /\ Relied /\ Agree /\ OwnApart /\ OpsTyped
  BY RowsParts
<1>1. /\ pc = "batch" /\ todo # <<>> /\ WriteMode = "delete" /\ Reads /\ Writing
  BY DEF DeleteKeys, Reads, Writing
<1>2. 1 \in DOMAIN todo /\ Head(todo) = todo[1]
  BY <1>0, <1>1, FirstPiece
<1>3. /\ todo[1].lo \in Nat /\ emitted \in Nat /\ emitted <= todo[1].lo
      /\ \E m \in 1..Len(chunk) :
              chunk[m] = k /\ m \notin RecoveredAt(chunk) /\ todo[1].lo < emitted + m
  BY <1>0, <1>1, <1>2, TodoRows
<1>4. PICK m \in 1..Len(chunk) : chunk[m] = k /\ m \notin RecoveredAt(chunk) /\ todo[1].lo < emitted + m
  BY <1>3
<1>5. /\ k \in view /\ cursor < k /\ Reached(view, cursor, k) = m /\ chunk \in Seq(Key)
  BY <1>0, <1>1, <1>4, BatchFacts
<1>6. /\ progress.table = table /\ progress.next \in Nat /\ progress.cursor \in Nat /\ view \in SUBSET Key
      /\ progress.next + Reached(view, progress.cursor, k) = emitted + m
      /\ Reached(view, progress.cursor, k) \in Nat
  BY <1>0, <1>1, <1>5, ReadFacts
<1>7. ops[o] \in OpRecord
  BY <1>0 DEF OpsTyped
<1>8. ops[o].lo \in Nat /\ ops[o].hi \in Nat /\ ops[o].seen \in SUBSET Key
  BY <1>7 DEF OpRecord
<1> DEFINE c == progress.cursor
           r == Reached(ops[o].seen, c, k)
<1>9. /\ k \in ops[o].seen /\ c < k /\ ops[o].lo < progress.next + r /\ progress.next + r <= ops[o].hi
      /\ r \in Nat
  BY <1>8, ReachedCounts DEF HasPlace
<1>10. Deletes(progress.table)
  <2>1. conf.mode \in {"append", "auto", "truncate"}
    BY <1>0, ConfAssumption DEF TypeOK, Conf
  <2> QED
    BY <1>1, <1>6, <2>1 DEF WriteMode, Deletes
<1>11. CASE o \in receipts
  <2> DEFINE n == ops[o].hi - progress.next
  <2>1. n \in Int /\ r <= n
    BY <1>6, <1>8, <1>9
  <2>2. FirstRowsOf(ops[o].seen, n) = FirstRowsOf(view, n)
    BY <1>0, <1>1, <1>11 DEF Agree
  <2>3. {j \in view : c < j /\ Reached(view, c, j) <= n}
          = {j \in ops[o].seen : c < j /\ Reached(ops[o].seen, c, j) <= n}
    BY <2>2 DEF FirstRowsOf
  <2> HIDE DEF n
  <2>4. Reached(view, c, k) = r
    <3>1. view \in SUBSET Key /\ ops[o].seen \in SUBSET Key /\ c \in Nat
      BY <1>6, <1>8
    <3>2. k \in ops[o].seen /\ c < k /\ Reached(ops[o].seen, c, k) <= n
      BY <1>9, <2>1
    <3> HIDE DEF c, r
    <3>3. Reached(view, c, k) = Reached(ops[o].seen, c, k)
      BY <2>1, <2>3, <3>1, <3>2, ReachedAgrees
    <3> QED
      BY <3>3 DEF r
  <2>5. InRange(o, emitted + m - 1)
    <3>1. ops[o].lo < emitted + m /\ emitted + m <= ops[o].hi
      BY <1>6, <1>9, <2>4
    <3> HIDE DEF r
    <3> QED
      BY <1>3, <1>4, <1>8, <3>1 DEF InRange
  <2>6. m \in DOMAIN chunk
    BY <1>4, <1>5
  <2>7. m \in RecoveredAt(chunk)
    BY <1>6, <1>11, <2>5, <2>6 DEF RecoveredAt, Counts
  <2> QED
    BY <1>4, <2>7
<1>12. CASE o \notin receipts
  <2>1. ops[o].seen = view /\ ops[o].hi <= todo[1].lo
    BY <1>0, <1>1, <1>2, <1>10, <1>12 DEF OwnApart
  <2>2. r = Reached(view, c, k)
    BY <2>1
  <2> HIDE DEF r
  <2> QED
    <3>1. progress.next + r = emitted + m
      BY <1>6, <2>2
    <3>2. emitted + m <= ops[o].hi /\ ops[o].hi <= todo[1].lo /\ todo[1].lo < emitted + m
      BY <1>4, <1>9, <2>1, <3>1
    <3>3. m \in Int /\ emitted \in Int /\ ops[o].hi \in Int /\ todo[1].lo \in Int
      BY <1>3, <1>8
    <3> QED
      BY <3>2, <3>3
<1> QED
  BY <1>11, <1>12

(* What an operation that is asked for stands for.                         *)
LEMMA NewWritten ==
  ASSUME RowsNext, ~Over, NEW o \in DOMAIN ops', o \notin DOMAIN ops, Counts(o)', progress' = progress
  PROVE  /\ conf.rolling \/ ops'[o].hi <= progress.next + ChunkSize
         /\ \A k \in Key, t \in Table : t = progress.table /\ Good(t, k) /\ HasPlace(o, k)' =>
              Held(t, k)' \/ k \in Range(ops'[o].keys)
<1>0. /\ CopyInv /\ [Next]_vars /\ PlaceInv /\ Relied /\ Copied /\ ReadPlace /\ TypeOK
  BY RowsParts, CopyParts
<1>1. ops'[o].do \in {"append", "roll"}
  BY DEF Counts, RecoverableDataOperation
<1>2. Asks /\ o = Len(ops') /\ ops'[o] = Current' /\ pc' = "commit" /\ SinkWorks
  BY <1>0, <1>1, NewRequest
<1>3. Reads
  BY <1>0, <1>2, Kinds
<1>4. ops'[o].seen = view /\ target' = target
  BY <1>0, <1>2, Asking DEF Asks
<1>5. /\ progress.table = table /\ table \in Table
      /\ progress.cursor \in Nat /\ progress.next \in Nat /\ emitted \in Nat /\ cursor \in Nat
      /\ ~rolling => progress.next = emitted
      /\ rolling => conf.rolling
  BY <1>0, <1>3, ReadFacts DEF ReadPlace
<1>6. SUFFICES /\ conf.rolling \/ ops'[o].hi <= progress.next + ChunkSize
               /\ \A k \in view :
                    /\ k \in Key /\ Good(table, k) /\ progress.cursor < k
                    /\ ops'[o].lo < progress.next + Reached(view, progress.cursor, k)
                    /\ progress.next + Reached(view, progress.cursor, k) <= ops'[o].hi
                    => Held(table, k) \/ k \in Range(ops'[o].keys)
  BY <1>4, <1>5 DEF HasPlace, Reached, Held
<1>7. CASE ops'[o].do = "roll"
  <2>1. rolling /\ ops'[o].hi = emitted /\ ops'[o].keys = spool[table]
    BY <1>0, <1>2, <1>7, Asking
  <2>2. ASSUME NEW k \in view, k \in Key, Good(table, k), progress.cursor < k,
               progress.next + Reached(view, progress.cursor, k) <= emitted
        PROVE  Held(table, k) \/ k \in Range(spool[table])
    <3>1. k <= cursor
      <4>1. SUFFICES ASSUME cursor < k PROVE FALSE
        BY <1>5, <2>2 DEF Key
      <4>2. /\ Reached(view, cursor, k) \in Nat /\ view \in SUBSET Key /\ k \in Nat
            /\ progress.next + Reached(view, progress.cursor, k) = emitted + Reached(view, cursor, k)
        BY <1>0, <1>3, <4>1, ReadFacts
      <4>3. Reached(view, cursor, cursor) < Reached(view, cursor, k)
        BY <1>5, <4>1, <4>2, ReachedGrows
      <4>4. Reached(view, cursor, cursor) = 0
        BY <1>5, <4>2, ReachedNone
      <4> QED
        BY <1>5, <2>2, <4>2, <4>3, <4>4
    <3> QED
      BY <1>0, <1>3, <2>2, <3>1 DEF Copied
  <2> QED
    BY <1>5, <2>1, <2>2
<1>8. CASE ops'[o].do = "append"
  <2>1. /\ todo # <<>> /\ pc \in {"append", "batch"}
        /\ ops'[o].lo = Head(todo).lo /\ ops'[o].hi = PieceEnd(Head(todo)) /\ ops'[o].keys = Head(todo).keys
    BY <1>0, <1>2, <1>8, Asking
  <2>2. Writing /\ 1 \in DOMAIN todo /\ Head(todo) = todo[1]
    BY <1>0, <2>1, FirstPiece DEF Writing
  <2>3. /\ todo[1].lo \in Nat /\ PieceEnd(todo[1]) \in Nat
        /\ emitted <= todo[1].lo /\ PieceEnd(todo[1]) <= emitted + Len(chunk)
        /\ \A m \in 1..Len(chunk) :
              todo[1].lo < emitted + m /\ emitted + m <= PieceEnd(todo[1]) => chunk[m] \in Range(todo[1].keys)
    BY <1>0, <2>2, TodoRows
  <2>4. Len(chunk) \in Nat /\ Len(chunk) <= ChunkSize /\ ChunkSize \in Nat
    BY <1>0, <2>2, BatchFacts
  <2> HIDE DEF PieceEnd
  <2>5. conf.rolling \/ ops'[o].hi <= progress.next + ChunkSize
    BY <1>5, <2>1, <2>2, <2>3, <2>4
  <2>6. ASSUME NEW k \in view,
               ops'[o].lo < progress.next + Reached(view, progress.cursor, k),
               progress.next + Reached(view, progress.cursor, k) <= ops'[o].hi
        PROVE  k \in Range(ops'[o].keys)
    <3>1. k \in Nat /\ Reached(view, progress.cursor, k) \in Nat
      BY <1>0, <1>3, ReadFacts
    <3>2. cursor < k
      <4>1. k <= cursor => progress.next + Reached(view, progress.cursor, k) <= emitted
        BY <1>0, <1>3, ReadFacts
      <4> QED
        BY <1>5, <2>1, <2>2, <2>3, <2>6, <3>1, <4>1
    <3>3. /\ Reached(view, cursor, k) \in Nat
          /\ progress.next + Reached(view, progress.cursor, k) = emitted + Reached(view, cursor, k)
      BY <1>0, <1>3, <3>2, ReadFacts
    <3>4. Reached(view, cursor, k) <= Len(chunk)
      BY <1>5, <2>1, <2>2, <2>3, <2>4, <2>6, <3>3
    <3>5. PICK m \in 1..Len(chunk) : chunk[m] = k
      BY <1>0, <2>2, <2>4, <3>2, <3>3, <3>4, BatchFacts
    <3>6. Reached(view, cursor, k) = m
      BY <1>0, <2>2, <3>5, BatchFacts
    <3> QED
      BY <2>1, <2>2, <2>3, <2>6, <3>3, <3>5, <3>6
  <2> QED
    BY <2>5, <2>6
<1> QED
  BY <1>1, <1>7, <1>8

(* The operations that count have written their rows.                      *)
LEMMA WrittenStep ==
  ASSUME RowsNext
  PROVE  Written'
<1>0. /\ CopyInv /\ [Next]_vars /\ TypeOK /\ OpsTyped /\ Relied /\ SourceKept /\ Written /\ OpsKept
      /\ conf' = conf /\ OpsNext
  BY RowsParts
<1>1. SUFFICES ASSUME ~Over', NEW o \in DOMAIN ops', Counts(o)'
               PROVE  /\ conf'.rolling \/ ops'[o].hi <= progress'.next + ChunkSize
                      /\ \A k \in Key : Good(progress.table, k)' /\ HasPlace(o, k)' =>
                           Held(progress.table, k)'
                           \/ (ops'[o].catalog = "inflight" /\ k \in Range(ops'[o].keys))
  BY DEF Written
<1>2. progress' = progress /\ ~Over
  <2>1. progress' = progress
    BY <1>1, NoneCounts
  <2> QED
    BY <1>0, <1>1, <2>1, OverKept
<1>3. PICK t \in Table : t = progress.table
  <2>1. ops'[o] \in OpRecord
    BY <1>0 DEF OpsKept, OpsTyped
  <2>2. ops'[o].table \in Table
    BY <2>1 DEF OpRecord
  <2> QED
    BY <1>1, <1>2, <2>2 DEF Counts
<1>4. SUFFICES /\ conf.rolling \/ ops'[o].hi <= progress.next + ChunkSize
               /\ \A k \in Key : Good(t, k) /\ HasPlace(o, k)' =>
                    Held(t, k)' \/ (ops'[o].catalog = "inflight" /\ k \in Range(ops'[o].keys))
  <2>1. \A k \in Key : Good(progress.table, k)' => Good(t, k)
    BY <1>0, <1>2, <1>3, GoodKept DEF Good, Untouched
  <2>2. \A k \in Key : Held(t, k)' => Held(progress.table, k)'
    BY <1>2, <1>3 DEF Held
  <2> QED
    BY <1>0, <1>2, <2>1, <2>2
<1>5. CASE o \notin DOMAIN ops
  <2>1. ops'[o].catalog = "inflight"
    <3>1. ops'[o].do # "reset"
      BY <1>1 DEF Counts, RecoverableDataOperation
    <3> QED
      BY <1>0, <1>5, <3>1, NewRequest DEF Asks
  <2> QED
    BY <1>1, <1>2, <1>3, <1>5, <2>1, NewWritten
<1>6. CASE o \in DOMAIN ops
  <2>1. /\ Counts(o) /\ Live(o) /\ RecoverableDataOperation(o)
        /\ \A k \in Key : HasPlace(o, k)' => HasPlace(o, k)
        /\ ops'[o].catalog = ops[o].catalog \/ (ops[o].catalog = "inflight" /\ ops'[o].catalog = "landed")
        /\ ops[o].table = t
    BY <1>1, <1>2, <1>3, <1>6, CountsBefore
  <2>2. ops'[o].hi = ops[o].hi /\ ops'[o].keys = ops[o].keys
    BY <1>0, <1>6 DEF OpsKept, SameRequest
  <2>3. conf.rolling \/ ops[o].hi <= progress.next + ChunkSize
    BY <1>0, <1>2, <1>6, <2>1 DEF Written
  <2>4. ASSUME NEW k \in Key, Good(t, k), HasPlace(o, k)
        PROVE  Held(t, k)' \/ (ops'[o].catalog = "inflight" /\ k \in Range(ops[o].keys))
    <3>1. Held(t, k) \/ (ops[o].catalog = "inflight" /\ k \in Range(ops[o].keys))
      BY <1>0, <1>2, <1>3, <1>6, <2>1, <2>4 DEF Written
    <3>2. CASE Held(t, k)
      <4>1. ~Emptied(t)
        BY <1>6, <2>1, EmptiedAlone
      <4>2. ~(DeleteKeys /\ t = table /\ k \in Range(Head(todo).keys))
        BY <1>2, <1>6, <2>1, <2>4, DeletedApart
      <4> QED
        BY <3>2, <4>1, <4>2, HeldStep
    <3>3. CASE ops[o].catalog = "inflight" /\ k \in Range(ops[o].keys)
      <4>1. CASE ops'[o].catalog = "landed"
        <5>1. CatalogAccepts(o)
          BY <1>0, <1>6, <3>3, <4>1, Accepted
        <5> QED
          BY <1>0, <1>6, <2>1, <3>3, <5>1, AcceptedHeld
      <4>2. CASE ops'[o].catalog # "landed"
        BY <2>1, <3>3, <4>2
      <4> QED
        BY <4>1, <4>2
    <3> QED
      BY <3>1, <3>2, <3>3
  <2> QED
    BY <2>1, <2>2, <2>3, <2>4 DEF Range
<1> QED
  BY <1>5, <1>6

(* A table that has been read is over.                                     *)
LEMMA TableOver ==
  ASSUME CopyInv, TableRead \/ RolledSaved
  PROVE  Over'
<1> USE DEF Goto, sourceVars, durableVars, tableVars, sinkVars
<1>0. TypeOK
  BY CopyParts
<1>1. CASE TableRead
  <2>1. Reads /\ ~rolling /\ Remaining = <<>> /\ UNCHANGED <<src, touched, progress>>
    BY <1>1 DEF TableRead, Reads
  <2>2. progress.table = table /\ progress.cursor = cursor
    BY <2>1, ReadFacts
  <2>3. \A k \in view : k <= cursor
    BY <1>0, <2>1, NothingLeft
  <2> QED
    BY <2>1, <2>2, <2>3, Ended
<1>2. CASE RolledSaved
  <2>1. Reads /\ pc = "rolled" /\ UNCHANGED <<src, touched>> /\ progress' = Saved(emitted, cursor)
    BY <1>2 DEF RolledSaved, SaveSnapshotProgress, Reads
  <2>2. progress'.table = table /\ progress'.cursor = cursor
    BY <2>1 DEF Saved
  <2>3. \A k \in view : k <= cursor
    BY <2>1, CopyParts DEF EndPlace
  <2> QED
    BY <2>1, <2>2, <2>3, Ended
<1> QED
  BY <1>1, <1>2

(* What comes after the first piece.                                       *)
LEMMA NextPiece ==
  ASSUME CopyInv, Writing, todo # <<>>, todo' = Tail(todo), todo' # <<>>
  PROVE  Head(todo') = todo[2] /\ PieceEnd(Head(todo)) <= Head(todo').lo
         /\ Head(todo').lo \in Nat /\ Head(todo).lo < Head(todo').lo /\ Head(todo).lo \in Nat
<1>0. TypeOK /\ TodoPlace
  BY CopyParts
<1>1. todo \in Seq(Piece) /\ Tail(todo) \in Seq(Piece) /\ 1 \in DOMAIN todo /\ Head(todo) = todo[1]
  BY <1>0, FirstPiece DEF TypeOK
<1>2. \A n \in 1..Len(Tail(todo)) : Tail(todo)[n] = todo[n + 1] /\ n + 1 \in DOMAIN todo
  BY <1>1, HeadTailProperties
<1>3. 1 \in 1..Len(Tail(todo)) /\ Head(Tail(todo)) = Tail(todo)[1]
  BY <1>1, EmptySeq
<1>4. 2 \in DOMAIN todo /\ Head(todo') = todo[2]
  BY <1>2, <1>3
<1>5. PieceEnd(todo[1]) <= todo[2].lo
  BY <1>0, <1>1, <1>4 DEF TodoPlace
<1>6. todo[2].lo \in Nat /\ todo[1].lo \in Nat /\ PieceEnd(todo[1]) \in Nat /\ todo[1].lo < PieceEnd(todo[1])
  BY <1>1, <1>4, TodoRows
<1> HIDE DEF PieceEnd
<1>7. todo[1].lo < todo[2].lo
  BY <1>5, <1>6
<1>8. PieceEnd(Head(todo)) <= Head(todo').lo
  BY <1>1, <1>4, <1>5
<1> QED
  BY <1>1, <1>4, <1>6, <1>7, <1>8

(* The run's own operations lie before what it still has to write, where    *)
(* it deletes first.                                                       *)
LEMMA OwnApartStep ==
  ASSUME RowsNext
  PROVE  OwnApart'
<1> USE DEF Goto, sourceVars, durableVars, tableVars, sinkVars
<1>0. /\ CopyInv /\ [Next]_vars /\ TypeOK /\ PlaceInv /\ OpsTyped /\ Relied /\ SourceKept /\ OwnApart
      /\ OpsKept /\ conf' = conf /\ OpsNext /\ weak' \subseteq {"appended"} /\ ~BeginSnapshot
      /\ ChunkPlace /\ Asked /\ ReceiptsTrue /\ CommitPlace /\ TypeOK'
  BY RowsParts, CopyParts
<1>1. SUFFICES ASSUME ~Over', Deletes(progress.table)', NEW o \in DOMAIN ops', o \notin receipts', Counts(o)'
               PROVE  /\ pc' \notin {"plan", "open"}
                      /\ Reads' /\ ~(pc' = "commit" /\ o = Len(ops')) =>
                           /\ ops'[o].seen = view' /\ ops'[o].hi <= emitted' + Len(chunk')
                           /\ todo' # <<>> => ops'[o].hi <= Head(todo').lo
  BY DEF OwnApart
<1>2. CASE Leaves
  BY <1>0, <1>2, Kinds DEF AtTables
<1>3. CASE o \notin DOMAIN ops
  <2>1. ops'[o].do # "reset"
    BY <1>1 DEF Counts, RecoverableDataOperation
  <2>2. pc' = "commit" /\ o = Len(ops')
    BY <1>0, <1>3, <2>1, NewRequest
  <2> QED
    BY <2>2
<1>4. CASE o \in DOMAIN ops /\ ~Leaves
  <2>1. SourceWorks \/ SinkWorks \/ Outside
    BY <1>0, <1>4, Kinds
  <2>2. receipts' = receipts /\ safe' = safe
    <3>1. CASE SinkWorks \/ Outside
      BY <1>0, <3>1, Kinds DEF Stays
    <3>2. CASE SourceWorks
      BY <3>2 DEF SourceWorks, BeginSnapshot, StartBarrier, ResumeSnapshot, SourceRetry, PlanTables,
         OpenTable, ReadChunk, Acknowledged, TableRead, RolledSaved
    <3> QED
      BY <2>1, <3>1, <3>2
  <2>3. progress' = progress /\ ~Over /\ Deletes(progress.table)
    <3>1. progress' = progress
      BY <1>1, NoneCounts
    <3> QED
      BY <1>0, <1>1, <2>2, <3>1, OverKept DEF Deletes
  <2>4. /\ Counts(o) /\ Live(o) /\ RecoverableDataOperation(o) /\ o \notin receipts
        /\ ops'[o].seen = ops[o].seen /\ ops'[o].hi = ops[o].hi
    BY <1>0, <1>1, <1>4, <2>2, <2>3, CountsBefore DEF OpsKept, SameRequest
  <2>5. /\ pc \notin {"plan", "open"}
        /\ Reads /\ ~(pc = "commit" /\ o = Len(ops)) =>
             /\ ops[o].seen = view /\ ops[o].hi <= emitted + Len(chunk)
             /\ todo # <<>> => ops[o].hi <= Head(todo).lo
    BY <1>0, <1>4, <2>3, <2>4 DEF OwnApart
  <2>6. ops[o].hi \in Nat /\ emitted \in Nat /\ o \in Intents \ receipts
    <3>1. ops[o] \in OpRecord /\ emitted \in Nat
      <4>1. ops \in Seq(OpRecord) /\ emitted \in Nat
        BY <1>0 DEF OpsTyped, TypeOK
      <4>2. o \in DOMAIN ops
        BY <1>4
      <4> QED
        BY <4>1, <4>2
    <3> QED
      BY <1>4, <2>4, <3>1 DEF OpRecord, Live, Intents
  <2>7. CASE SourceWorks
    <3>1. ~ResumeSnapshot
      BY <1>0, <2>6 DEF ResumeSnapshot, ReceiptsTrue
    <3>2. ~PlanTables /\ ~OpenTable
      BY <2>5 DEF PlanTables, OpenTable
    <3>3. ~TableRead /\ ~RolledSaved
      BY <1>0, <1>1, TableOver
    <3>4. ~SourceRetry
      <4>1. SUFFICES ASSUME SourceRetry PROVE FALSE
        OBVIOUS
      <4>2. /\ pc \in {"read", "ack", "rolled"}
            /\ weak' = weak \cup {w \in {IF WriteMode = "delete" THEN "deleted"
                                ELSE "appended"} : Unaccounted(progress') # {}}
        BY <2>5, <4>1 DEF SourceRetry
      <4>3. progress.table = table
        BY <1>0, <4>2, ReadFacts DEF Reads
      <4>4. WriteMode = "delete"
        BY <2>3, <4>3 DEF WriteMode, Deletes
      <4>5. o \in Unaccounted(progress')
        BY <2>3, <2>4, <2>6, <4>3 DEF Unaccounted, Counts
      <4>6. "deleted" \in weak'
        BY <4>2, <4>4, <4>5
      <4> QED
        BY <1>0, <4>6
    <3>5. CASE ReadChunk
      <4>1. /\ pc = "read" /\ UNCHANGED <<view, emitted>> /\ pc' # "commit" /\ pc' \notin {"plan", "open"}
        BY <3>5 DEF ReadChunk
      <4>2. chunk = <<>>
        BY <1>0, <4>1 DEF ChunkPlace, Writing
      <4>3. ops[o].seen = view /\ ops[o].hi <= emitted
        <5>1. ops[o].seen = view /\ ops[o].hi <= emitted + Len(chunk)
          BY <2>5, <4>1 DEF Reads
        <5>2. Len(chunk) = 0
          BY <4>2, EmptySeq
        <5> QED
          BY <2>6, <5>1, <5>2
      <4>4. Len(chunk') \in Nat
        BY <1>0 DEF TypeOK
      <4>5. ASSUME todo' # <<>>
            PROVE  ops[o].hi <= Head(todo').lo
        <5>1. todo' \in Seq(Piece)
          BY <1>0 DEF TypeOK
        <5>2. 1 \in DOMAIN todo' /\ Head(todo') = todo'[1]
          BY <4>5, <5>1, EmptySeq
        <5>3. TodoPlace' /\ Writing'
          <6>1. pc' \in {"batch", "spool", "ack"}
            BY <3>5 DEF ReadChunk
          <6> QED
            BY <1>0, <6>1, TodoPlaceStep DEF Writing
        <5>4. PICK i \in 1..Len(chunk'), e \in 1..Len(chunk') : IsPiece(todo[1], chunk, i, e)'
          BY <5>2, <5>3 DEF TodoPlace
        <5>5. todo'[1].lo = emitted' + i - 1 /\ i \in Nat /\ 1 <= i
          BY <4>4, <5>4 DEF IsPiece
        <5> QED
          BY <2>6, <4>1, <4>3, <5>2, <5>5
      <4> QED
        BY <2>4, <2>6, <4>1, <4>3, <4>4, <4>5
    <3>6. CASE Acknowledged
      <4>1. /\ pc = "ack" /\ view' = view /\ emitted' = emitted + Len(chunk) /\ chunk' = <<>> /\ todo' = todo
            /\ pc' = "read"
        BY <3>6 DEF Acknowledged
      <4>2. todo = <<>> /\ Len(chunk) \in Nat
        BY <1>0, <4>1 DEF ChunkPlace, Handing, TypeOK
      <4>3. ops[o].seen = view /\ ops[o].hi <= emitted + Len(chunk)
        BY <2>5, <4>1 DEF Reads
      <4>4. Len(chunk') = 0
        BY <4>1, EmptySeq
      <4> QED
        BY <2>4, <2>6, <4>1, <4>2, <4>3, <4>4
    <3> QED
      BY <1>0, <2>7, <3>1, <3>2, <3>3, <3>4, <3>5, <3>6 DEF SourceWorks
  <2>8. CASE SinkWorks \/ Outside
    <3>1. /\ UNCHANGED <<view, emitted, chunk>>
          /\ Reads' <=> Reads
          /\ ~Reads => pc' = pc
      BY <1>0, <2>8, Kinds DEF Stays
    <3>2. pc' \notin {"plan", "open"}
      <4>1. Reads' => pc' \notin {"plan", "open"}
        BY DEF Reads
      <4> QED
        BY <2>5, <3>1, <4>1
    <3>3. SUFFICES ASSUME Reads, ~(pc' = "commit" /\ o = Len(ops'))
                   PROVE  /\ ops[o].seen = view /\ ops[o].hi <= emitted + Len(chunk)
                          /\ todo' # <<>> => ops[o].hi <= Head(todo').lo
      BY <2>4, <3>1, <3>2
    <3>4. todo' = todo \/ (AppendAnswered /\ todo' = Tail(todo))
      BY <2>8 DEF Outside, SinkWorks, DeleteKeys, BatchWritten, SpoolChunk, TruncateAnswered,
         RollAnswered, CommitRejected, TableRolled, TruncateForBatch, TruncateForSpool,
         AppendPiece, AppendAnswered
    <3>5. AppendAnswered => todo # <<>> /\ Writing /\ pc = "commit" /\ Current.do = "append"
      BY <1>0 DEF AppendAnswered, Answered, CommitPlace, Writing
    <3>6. CASE ~(pc = "commit" /\ o = Len(ops))
      <4>1. /\ ops[o].seen = view /\ ops[o].hi <= emitted + Len(chunk)
            /\ todo # <<>> => ops[o].hi <= Head(todo).lo
        BY <2>5, <3>3, <3>6
      <4>2. ASSUME AppendAnswered, todo' = Tail(todo), todo' # <<>>
            PROVE  ops[o].hi <= Head(todo').lo
        <5>1. Head(todo').lo \in Nat /\ Head(todo).lo < Head(todo').lo /\ Head(todo).lo \in Nat
          BY <1>0, <3>5, <4>2, NextPiece
        <5> QED
          BY <2>6, <3>5, <4>1, <4>2, <5>1
      <4> QED
        BY <3>4, <4>1, <4>2
    <3>7. CASE pc = "commit" /\ o = Len(ops)
      <4>1. Current = ops[o] /\ Current.do \in {"append", "roll"}
        BY <2>4, <3>7 DEF Current, RecoverableDataOperation
      <4>2. ~Outside
        BY <3>3, <3>7 DEF Outside
      <4>3. ~TruncateAnswered
        BY <4>1 DEF TruncateAnswered, Answered
      <4>4. ~CommitRejected
        <5>1. SUFFICES ASSUME CommitRejected PROVE FALSE
          OBVIOUS
        <5>2. ops'[o].catalog = "lost"
          BY <1>0, <1>4, <3>7, <5>1, RequestTyped, "lost" \in {"landed", "lost"} DEF CommitRejected
        <5> QED
          BY <1>1, <5>2 DEF Counts
      <4>5. AppendAnswered \/ RollAnswered
        BY <2>8, <3>7, <4>2, <4>3, <4>4 DEF SinkWorks, DeleteKeys, BatchWritten, SpoolChunk,
           TableRolled, TruncateForBatch, TruncateForSpool, AppendPiece
      <4>6. Current.seen = view
        BY <1>0, <3>7, <4>1 DEF Asked
      <4>7. CASE AppendAnswered
        <5>1. ops[o].hi = PieceEnd(Head(todo))
          BY <1>0, <3>5, <4>1, <4>7 DEF Asked
        <5>2. 1 \in DOMAIN todo /\ Head(todo) = todo[1]
          BY <1>0, <3>5, <4>7, FirstPiece
        <5>3. PieceEnd(todo[1]) <= emitted + Len(chunk)
          BY <1>0, <3>5, <4>7, <5>2, TodoRows
        <5>4. todo' = Tail(todo)
          BY <4>7 DEF AppendAnswered
        <5>5. todo' # <<>> => PieceEnd(Head(todo)) <= Head(todo').lo
          BY <1>0, <3>5, <4>7, <5>4, NextPiece
        <5> QED
          BY <4>1, <4>6, <5>1, <5>2, <5>3, <5>5
      <4>8. CASE RollAnswered
        <5>1. Current.do = "roll" /\ todo' = todo
          BY <4>8 DEF RollAnswered, Answered
        <5>2. todo = <<>> /\ Len(chunk) \in Nat
          BY <1>0, <3>7, <5>1 DEF ChunkPlace, Handing, TypeOK
        <5>3. ops[o].hi = emitted
          BY <1>0, <3>7, <4>1, <5>1 DEF Asked
        <5>4. emitted <= emitted + Len(chunk)
          BY <2>6, <5>2
        <5> QED
          BY <4>1, <4>6, <5>1, <5>2, <5>3, <5>4
      <4> QED
        BY <4>5, <4>7, <4>8
    <3> QED
      BY <3>6, <3>7
  <2> QED
    BY <2>1, <2>7, <2>8
<1> QED
  BY <1>2, <1>3, <1>4

(* When all tables are read their rows are in the target.                  *)
LEMMA FinishedStep ==
  ASSUME RowsNext
  PROVE  Finished'
<1> USE DEF Goto, sourceVars, durableVars, tableVars, sinkVars
<1>0. /\ CopyInv /\ [Next]_vars /\ PlaceInv /\ TypeOK /\ Relied /\ Relied' /\ SourceKept /\ Finished
      /\ snap = "started" /\ ~BeginSnapshot /\ Covers'
  BY RowsParts, CoversStep
<1>1. SUFFICES ASSUME pc' = "complete", NEW t \in Table, NEW k \in Key, Good(t, k)'
               PROVE  Held(t, k)'
  BY DEF Finished
<1>2. ~SinkWorks
  <2>1. SinkWorks => Reads'
    BY <1>0, Kinds DEF Stays
  <2> QED
    BY <1>1, <2>1 DEF Reads
<1>3. CASE Outside
  <2>1. pc = "complete"
    BY <1>1, <1>3 DEF Outside
  <2>2. Held(t, k)
    BY <1>0, <1>1, <2>1, GoodKept DEF Finished
  <2>3. ~Emptied(t) /\ ~DeleteKeys
    BY <2>1, EmptiedAlone DEF DeleteKeys
  <2> QED
    BY <2>2, <2>3, HeldStep
<1>4. CASE TableRead \/ RolledSaved
  <2>1. Over' /\ table = Tables
    BY <1>0, <1>1, <1>4, TableOver DEF TableRead, RolledSaved, NextTable, LastTable
  <2>2. progress'.table = table
    <3>1. TableRead => Reads /\ progress' = progress
      BY DEF TableRead, Reads
    <3>2. RolledSaved => progress' = Saved(emitted, cursor)
      BY DEF RolledSaved, SaveSnapshotProgress
    <3> QED
      BY <1>0, <1>4, <3>1, <3>2, ReadFacts DEF Saved
  <2>3. t \in Nat /\ Tables \in Nat /\ t <= Tables
    BY CopyAssumption DEF Table
  <2>4. t = progress'.table => k <= progress'.cursor
    BY <1>1, <2>1 DEF Over
  <2> QED
    BY <1>0, <1>1, <2>1, <2>2, <2>3, <2>4 DEF Covers
<1>5. ~Leaves
  <2>1. SUFFICES ASSUME Leaves PROVE FALSE
    OBVIOUS
  <2>2. ResumeConfirmed \/ pc' # "complete"
    BY <2>1, <1>0 DEF Leaves, RecoverOne, RecoverDone, EnsureTables, ResetTarget, Begin, ResetInitialCheckpoint,
       ResetAnswered, ConfirmCompletion, ClearProgress, StartRun, Rebuild, RunRefused, RunEnds, EndRun,
       ResetsFirst, PlaceInv
  <2> QED
    BY <1>0, <1>1, <2>2 DEF ResumeConfirmed
<1>6. CASE SourceWorks
  <2>1. TableRead \/ RolledSaved
    BY <1>0, <1>1, <1>6 DEF SourceWorks, ResumeSnapshot, StartBarrier, SourceRetry, PlanTables,
       OpenTable, ReadChunk, Acknowledged
  <2> QED
    BY <1>4, <2>1
<1> QED
  BY <1>0, <1>2, <1>3, <1>5, <1>6, Kinds

(* A snapshot that begins has nothing behind it.                           *)
LEMMA RowsBegin ==
  ASSUME CopyInv, [Next]_vars, BeginSnapshot
  PROVE  RowsInv'
<1>0. /\ pc = "capture" /\ pc' = "plan" /\ UNCHANGED <<progress, ops, receipts>>
  BY DEF BeginSnapshot, StartBarrier, Goto
<1>1. receipts = {} /\ Intents = {} /\ progress = NoProgress
  BY <1>0, CopyParts DEF ReceiptsTrue
<1>2. ~Reads' /\ ~Writing' /\ pc' \notin {"commit", "complete"}
  BY <1>0 DEF Reads, Writing
<1>3. ASSUME NEW o \in DOMAIN ops'
      PROVE  ~Live(o)'
  BY <1>0, <1>1 DEF Live, Intents
<1>4. Covers'
  <2>1. progress'.table = 0
    BY <1>0, <1>1 DEF NoProgress
  <2>2. \A t \in Table : t \in Nat /\ t > 0
    BY CopyAssumption DEF Table
  <2> QED
    BY <2>1, <2>2 DEF Covers
<1>5. Written' /\ OwnApart'
  BY <1>3 DEF Written, OwnApart, Counts
<1>6. TruncateAlone'
  BY <1>3 DEF TruncateAlone, Live
<1>7. Copied' /\ ChunkRows' /\ Landed' /\ Untruncated' /\ Agree' /\ Finished'
  BY <1>2 DEF Copied, ChunkRows, Landed, Untruncated, Agree, Finished
<1> QED
  BY <1>4, <1>5, <1>6, <1>7 DEF RowsInv

(* The rows of a snapshot that is confirmed.                               *)
LEMMA RowsCompleteStep ==
  ASSUME FullInv, [Next]_vars
  PROVE  RowsComplete'
<1> USE DEF Goto, sourceVars, durableVars, tableVars, sinkVars
<1>0. CopyInv /\ RowsComplete /\ Finished /\ ConfirmedQuiet /\ UnderWay /\ TypeOK
  BY CopyParts DEF FullInv, RowsInv
<1>1. SUFFICES ASSUME snap' = "confirmed", weak' \subseteq {"appended"},
                      NEW t \in Table, NEW k \in Key, Good(t, k)'
               PROVE  Held(t, k)'
  BY DEF RowsComplete, Good, Held
<1>2. CASE snap = "confirmed"
  <2>1. pc \in Quiet /\ NothingInFlight
    BY <1>0, <1>2 DEF ConfirmedQuiet
  <2>2. ~BeginSnapshot
    BY <2>1 DEF BeginSnapshot, Quiet
  <2>3. weak \subseteq weak' /\ Good(t, k)
    BY <1>0, <1>1, <2>2, WeakGrows, SourceStep, GoodKept
  <2>4. Held(t, k)
    BY <1>0, <1>1, <1>2, <2>3 DEF RowsComplete, Good, Held
  <2>5. target' = target
    <3>1. \A o \in DOMAIN ops : ~CatalogAccepts(o)
      BY <2>1 DEF NothingInFlight, CatalogAccepts
    <3>2. ~DeleteKeys /\ ~TruncateForBatch /\ ~TruncateForSpool
      BY <2>1 DEF DeleteKeys, TruncateForBatch, TruncateForSpool, Quiet
    <3>3. CASE RunStep
      BY <3>2, <3>3 DEF RunStep, RecoverOne, RecoverDone, EnsureTables, ResetTarget, ResetInitialCheckpoint,
         BeginSnapshot, ResumeSnapshot, ResumeConfirmed, PlanTables, OpenTable, ReadChunk, Acknowledged, TableRead,
         TableRolled, RolledSaved, AppendPiece, SpoolChunk,
         BatchWritten, AppendAnswered, TruncateAnswered, ResetAnswered, RollAnswered,
         Answered, ConfirmCompletion, ClearProgress
    <3>4. CASE \/ \E u \in Table, l \in Key : Change(u, l)
               \/ \E o \in DOMAIN ops : CatalogLoses(o)
               \/ \E initial \in BOOLEAN : StartRun(initial)
               \/ Rebuild \/ SourceRetry \/ CommitRejected \/ RunRefused \/ RunEnds
               \/ UNCHANGED vars
      BY <3>4 DEF Change, CatalogLoses, StartRun, Rebuild, SourceRetry, CommitRejected,
         RunRefused, RunEnds, vars
    <3> QED
      BY <3>1, <3>3, <3>4 DEF Next
  <2> QED
    BY <2>4, <2>5 DEF Held
<1>3. CASE snap # "confirmed"
  <2>1. ConfirmCompletion
    <3>1. CASE RunStep
      BY <1>1, <1>3, <3>1 DEF RunStep, RecoverOne, RecoverDone, EnsureTables, ResetTarget, ResetInitialCheckpoint,
         BeginSnapshot, ResumeSnapshot, ResumeConfirmed, PlanTables, OpenTable, ReadChunk, Acknowledged, TableRead,
         TableRolled, RolledSaved, AppendPiece, SpoolChunk, DeleteKeys, TruncateForBatch, TruncateForSpool,
         BatchWritten, AppendAnswered, TruncateAnswered, ResetAnswered, RollAnswered,
         Answered, ClearProgress
    <3>2. CASE \/ \E u \in Table, l \in Key : Change(u, l)
               \/ \E o \in DOMAIN ops : CatalogAccepts(o) \/ CatalogLoses(o)
               \/ \E initial \in BOOLEAN : StartRun(initial)
               \/ Rebuild \/ SourceRetry \/ CommitRejected \/ RunRefused \/ RunEnds
               \/ UNCHANGED vars
      BY <1>1, <1>3, <3>2 DEF Change, CatalogAccepts, CatalogLoses, StartRun, Rebuild, SourceRetry, CommitRejected,
         RunRefused, RunEnds, vars
    <3> QED
      BY <3>1, <3>2 DEF Next
  <2>2. pc = "complete" /\ UNCHANGED <<src, touched, target, weak>>
    BY <2>1 DEF ConfirmCompletion
  <2>3. snap = "started"
    BY <1>0, <1>3, <2>2 DEF UnderWay, TypeOK
  <2>4. Good(t, k)
    BY <1>1, <2>2 DEF Good, Untouched
  <2>5. Held(t, k)
    BY <1>0, <1>1, <2>2, <2>3, <2>4 DEF Finished, Relied
  <2> QED
    BY <2>2, <2>5 DEF Held
<1> QED
  BY <1>2, <1>3

(* The whole invariant holds after every step.                             *)
LEMMA FullInvStep ==
  ASSUME FullInv, [Next]_vars
  PROVE  FullInv'
<1>0. CopyInv /\ Untruncated
  BY DEF FullInv, RowsInv
<1>1. CopyInv' /\ RowsComplete' /\ Untruncated'
  BY <1>0, CopyInvStep, RowsCompleteStep, UntruncatedStep
<1>2. CASE Relied' /\ ~BeginSnapshot
  <2>1. RowsNext
    BY <1>2 DEF RowsNext
  <2>2. /\ Covers' /\ Written' /\ Copied' /\ ChunkRows' /\ Landed'
        /\ TruncateAlone' /\ Agree' /\ OwnApart' /\ Finished'
    BY <2>1, CoversStep, WrittenStep, CopiedStep, ChunkRowsStep, LandedStep,
       TruncateAloneStep, AgreeStep, OwnApartStep, FinishedStep
  <2> QED
    BY <1>1, <2>2 DEF FullInv, RowsInv
<1>3. CASE BeginSnapshot
  BY <1>0, <1>1, <1>3, RowsBegin DEF FullInv
<1>4. CASE ~Relied'
  <2>1. /\ Covers' /\ Written' /\ Copied' /\ ChunkRows' /\ Landed'
        /\ TruncateAlone' /\ Agree' /\ OwnApart' /\ Finished'
    BY <1>4 DEF Covers, Written, Copied, ChunkRows, Landed, TruncateAlone, Agree, OwnApart, Finished
  <2> QED
    BY <1>1, <2>1 DEF FullInv, RowsInv
<1> QED
  BY <1>2, <1>3, <1>4

(* It holds in the initial states, in which no run relies on anything.     *)
LEMMA FullStarts ==
  ASSUME Init
  PROVE  FullInv
<1>1. snap = "none" /\ pc = "down"
  BY DEF Init
<1>2. ~Relied /\ ~Writing
  BY <1>1 DEF Relied, Writing
<1>3. RowsInv
  BY <1>2 DEF RowsInv, Covers, Written, Copied, ChunkRows, Landed, Untruncated, TruncateAlone, Agree,
     OwnApart, Finished
<1>4. RowsComplete
  BY <1>1 DEF RowsComplete
<1> QED
  BY <1>3, <1>4, CopyStarts DEF FullInv

(* The saved progress never runs ahead of the catalog.                     *)
LEMMA CoversSaved ==
  ASSUME FullInv
  PROVE  ProgressCovers
<1>0. Covers /\ TypeOK
  BY CopyParts DEF FullInv, RowsInv
<1>1. SUFFICES ASSUME snap = "started", progress # NoProgress, weak \subseteq {"appended"},
                      NEW t \in 1..progress.table, NEW k \in Key, Good(t, k),
                      t < progress.table \/ k <= progress.cursor
               PROVE  Held(t, k)
  BY DEF ProgressCovers, Good, Held
<1>2. progress.table \in Table
  BY <1>0, <1>1 DEF TypeOK
<1>3. t \in Table /\ (t < progress.table \/ t = progress.table)
  BY <1>2, CopyAssumption DEF Table
<1> QED
  BY <1>0, <1>1, <1>3 DEF Covers, Relied

(* What the saved progress of a snapshot counts as copied is in the target, *)
(* whatever runs, lost answers, failed saves and late commits there have   *)
(* been (SaveSnapshotProgress comes after the commits of its chunk).       *)
THEOREM ProgressCovered == Spec => []ProgressCovers
<1>1. Init => FullInv
  BY FullStarts
<1>2. FullInv /\ [Next]_vars => FullInv'
  BY FullInvStep
<1>3. FullInv => ProgressCovers
  BY CoversSaved
<1> QED
  BY <1>1, <1>2, <1>3, PTL DEF Spec

(* A confirmed snapshot has lost no row: ConfirmSnapshotCompletion comes    *)
(* only after every chunk, and no receipt, reset or truncate on the way     *)
(* takes a row that is not written again.                                  *)
THEOREM RowsKept == Spec => []RowsComplete
<1>1. Init => FullInv
  BY FullStarts
<1>2. FullInv /\ [Next]_vars => FullInv'
  BY FullInvStep
<1>3. FullInv => RowsComplete
  BY DEF FullInv
<1> QED
  BY <1>1, <1>2, <1>3, PTL DEF Spec
=============================================================================
