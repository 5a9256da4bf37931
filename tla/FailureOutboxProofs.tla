------------------------- MODULE FailureOutboxProofs -------------------------
(***************************************************************************)
(* Proofs about FailureOutbox: for any number of workers, of failures,     *)
(* submissions, refused or unanswered sends and saves, and crashes, in     *)
(* either role, the job going from worker to worker, and with or without   *)
(* the Telegram settings in the processes that do not run it.              *)
(***************************************************************************)
EXTENDS FailureOutbox, TLAPS, FiniteSetTheorems

\* Why a failure may be told twice, and the failures that may not.
Excused(i) ==
  excuse[i] \cap {"unanswered", "restored", "deleted", "rejected"} # {}
Plain == {i \in Raised : ~Excused(i)}

\* The callback, or Submit when it returns, will enqueue this failure.
Due(i) == callback = i \/ (submitting /\ failed /\ i = Latest)

\* Failures are numbered as they happen; before that nothing is known of one.
Unknown(i) ==
  /\ outbox[i] = "absent" /\ received[i] = 0 /\ i \notin recorded
  /\ excuse[i] = {}
  /\ \A p \in Processes : ~Active(p, i)
NumberedOK ==
  /\ Latest \in Nat /\ Raised = 1..Latest
  /\ callback # 0 => callback = Latest
  /\ submitting /\ failed => Latest # 0
  /\ \A i \in Failures \ Raised : Unknown(i)

\* A process that is not part of the deployment does nothing, only the one
\* that runs the pipelines has callbacks, and only in the role "all" does
\* Submit wait for them.
RolesOK ==
  /\ \A p \in Processes \ Running, i \in Failures : ~Active(p, i)
  /\ role = "split" => ~submitting
  /\ Runner \notin up => callback = 0 /\ ~submitting
  /\ ~(deleting /\ submitting)

\* A submission that is being made, or is gone, has no failure of its own that
\* is neither excused nor the one Submit will find.
FreshOK ==
  /\ sub = 0 => Plain = {}
  /\ submitting => Plain \subseteq (IF failed THEN {Latest} ELSE {})

\* One goroutine carries a failure.  Once it is told nobody sends it: the
\* goroutine that has sent it records it, and what is still going to enqueue
\* it finds that goroutine, or its memory of it.
Carried(i) ==
  /\ received[i] <= 1
  /\ \A p, q \in Processes : Active(p, i) /\ Active(q, i) => p = q
  /\ received[i] = 1 => \A p \in Processes : delivery[p][i].at \in {"none", "SENT"}
  /\ received[i] = 1 /\ Due(i) => Active(Runner, i) \/ i \in completed[Runner]
  /\ i \in recorded => outbox[i] = "SENT"
CarriedOK == \A i \in Plain : Carried(i)

\* In split roles the callback is the first to know of a failure.
First(i) ==
  role = "split" /\ callback = i =>
    outbox[i] = "absent" /\ \A p \in Processes : ~Active(p, i)
FirstOK == \A i \in Plain : First(i)

OutboxInv ==
  /\ OutboxTypeOK /\ NumberedOK /\ RolesOK /\ FreshOK /\ CarriedOK /\ FirstOK

-----------------------------------------------------------------------------
(* Goroutines *)

Goroutine == [at : Places, job : 0..MaxSubs]

\* Where every goroutine but p's for i is stays the same.
OthersStay(p, i) ==
  \A q \in Processes, k \in Failures :
    ~(q = p /\ k = i) => delivery'[q][k] = delivery[q][k]

(* A goroutine, its place and its Job.                                     *)
LEMMA GoroutineType ==
  ASSUME OutboxTypeOK, NEW p \in Processes, NEW i \in Failures
  PROVE  /\ delivery \in [Processes -> [Failures -> Goroutine]]
         /\ delivery[p] \in [Failures -> Goroutine] /\ delivery[p][i] \in Goroutine
         /\ delivery[p][i].at \in Places /\ delivery[p][i].job \in 0..MaxSubs
  BY DEF OutboxTypeOK, Goroutine

(* A delivery that is replaced as a whole.                                 *)
LEMMA Replaced ==
  ASSUME OutboxTypeOK, NEW p \in Processes, NEW i \in Failures, NEW g \in Goroutine,
         delivery' = [delivery EXCEPT ![p][i] = g]
  PROVE  /\ delivery' \in [Processes -> [Failures -> Goroutine]]
         /\ delivery'[p][i] = g /\ OthersStay(p, i)
<1>1. delivery \in [Processes -> [Failures -> Goroutine]]
  BY GoroutineType
<1>2. delivery' = [delivery EXCEPT ![p] = [delivery[p] EXCEPT ![i] = g]]
  BY <1>1
<1> QED
  BY <1>1, <1>2 DEF OthersStay

(* The goroutine goes on.                                                  *)
LEMMA GoesOn ==
  ASSUME OutboxTypeOK, NEW p \in Processes, NEW i \in Failures, NEW place \in Places,
         Goes(p, i, place)
  PROVE  /\ delivery' \in [Processes -> [Failures -> Goroutine]]
         /\ delivery'[p][i].at = place /\ OthersStay(p, i)
<1> DEFINE g == [delivery[p][i] EXCEPT !.at = place]
<1>1. g \in Goroutine /\ g.at = place
  BY GoroutineType DEF Goroutine
<1>2. delivery' = [delivery EXCEPT ![p][i] = g]
  BY GoroutineType DEF Goes
<1> HIDE DEF g
<1>3. delivery' \in [Processes -> [Failures -> Goroutine]]
      /\ delivery'[p][i] = g /\ OthersStay(p, i)
  BY <1>1, <1>2, Replaced
<1> QED
  BY <1>1, <1>3

(* The goroutine ends.                                                     *)
LEMMA GoesAway ==
  ASSUME OutboxTypeOK, NEW p \in Processes, NEW i \in Failures, Ends(p, i)
  PROVE  /\ delivery' \in [Processes -> [Failures -> Goroutine]]
         /\ delivery'[p][i].at = "none" /\ OthersStay(p, i)
<1>1. NoDelivery \in Goroutine /\ NoDelivery.at = "none"
  BY OutboxAssumption DEF NoDelivery, Goroutine, Places
<1>2. delivery' = [delivery EXCEPT ![p][i] = NoDelivery]
  BY DEF Ends
<1> QED
  BY <1>1, <1>2, Replaced

(* scheduleFailureNotification starts a goroutine, or finds that there is  *)
(* or was one.                                                             *)
LEMMA GoesOut ==
  ASSUME OutboxTypeOK, NEW p \in Processes, NEW i \in Failures,
         NEW j \in 0..MaxSubs, NEW place \in Places,
         delivery' = Scheduled(p, i, j, place)
  PROVE  /\ delivery' \in [Processes -> [Failures -> Goroutine]] /\ OthersStay(p, i)
         /\ MaySchedule(p, i) => delivery'[p][i].at = place
         /\ ~MaySchedule(p, i) => delivery'[p][i] = delivery[p][i]
<1> DEFINE g == IF MaySchedule(p, i) THEN [at |-> place, job |-> j]
                                      ELSE delivery[p][i]
<1>1. g \in Goroutine
  BY GoroutineType DEF Goroutine
<1>2. delivery' = [delivery EXCEPT ![p][i] = g]
  BY GoroutineType DEF Scheduled
<1>3. /\ MaySchedule(p, i) => g.at = place
      /\ ~MaySchedule(p, i) => g = delivery[p][i]
  OBVIOUS
<1> HIDE DEF g
<1>4. /\ delivery' \in [Processes -> [Failures -> Goroutine]]
      /\ delivery'[p][i] = g /\ OthersStay(p, i)
  BY <1>1, <1>2, Replaced
<1> QED
  BY <1>3, <1>4

-----------------------------------------------------------------------------
(* Rows and ghosts *)

RowState == Outcomes \cup {"absent"}

(* A save of one row leaves the others alone and never changes a row that  *)
(* is settled, whether it succeeds, fails, or is not answered.             *)
LEMMA SaveKeeps ==
  ASSUME OutboxTypeOK, NEW i \in Failures, NEW state \in Outcomes,
         SaveOK(i, state) \/ SaveFails(i, state)
  PROVE  /\ outbox' \in [Failures -> RowState] /\ faults' \in 0..MaxFaults
         /\ \A k \in Failures : k # i => outbox'[k] = outbox[k]
         /\ outbox[i] \in Settled => outbox'[i] = outbox[i]
<1>1. /\ outbox \in [Failures -> RowState] /\ faults \in 0..MaxFaults
      /\ MaxFaults \in Nat
  BY OutboxAssumption DEF OutboxTypeOK, RowState
<1>2. outbox' \in {outbox, Saved(i, state)}
  BY DEF SaveOK, SaveFails
<1>3. faults' \in 0..MaxFaults
  BY <1>1 DEF SaveOK, SaveFails
<1> QED
  BY <1>1, <1>2, <1>3 DEF Saved, RowState

(* Only a row that reads SENT gets recorded.                               *)
LEMMA RecordKeeps ==
  ASSUME OutboxTypeOK, RecordSent
  PROVE  /\ recorded' \subseteq Failures
         /\ \A k \in Failures :
              k \in recorded' <=> k \in recorded \/ outbox'[k] = "SENT"
  BY DEF OutboxTypeOK, RecordSent

(* Excuses accumulate.                                                     *)
LEMMA ExcuseKeeps ==
  ASSUME OutboxTypeOK, NEW is \in SUBSET Failures, NEW why \in Excuses,
         Excuse(is, why)
  PROVE  /\ excuse' \in [Failures -> SUBSET Excuses]
         /\ \A k \in Failures : /\ excuse[k] \subseteq excuse'[k]
                                /\ k \in is => why \in excuse'[k]
                                /\ k \notin is => excuse'[k] = excuse[k]
<1>1. excuse \in [Failures -> SUBSET Excuses]
  BY DEF OutboxTypeOK
<1>2. \A k \in Failures :
        excuse'[k] = IF k \in is THEN excuse[k] \cup {why} ELSE excuse[k]
  BY DEF Excuse
<1>3. excuse' \in [Failures -> SUBSET Excuses]
  BY <1>1 DEF Excuse
<1> QED
  BY <1>2, <1>3

(* An excuse of a kind that lets a failure be told twice.                  *)
LEMMA NowExcused ==
  ASSUME OutboxTypeOK, NEW is \in SUBSET Failures, NEW why \in Excuses,
         Excuse(is, why),
         why \in {"unanswered", "restored", "deleted", "rejected"}
  PROVE  \A k \in is : Excused(k)'
<1>1. \A k \in is : why \in excuse'[k]
  BY ExcuseKeeps
<1> QED
  BY <1>1 DEF Excused

(* Nobody needs less of an excuse than before.                             *)
LEMMA PlainShrinks ==
  ASSUME OutboxTypeOK, Raised' = Raised,
         \A k \in Failures : excuse[k] \subseteq excuse'[k]
  PROVE  Plain' \subseteq Plain
  BY DEF Plain, Excused, Raised

(* The failures that have happened.                                        *)
LEMMA RaisedFacts ==
  ASSUME OutboxTypeOK, NumberedOK
  PROVE  /\ Raised \subseteq Failures /\ Failures \subseteq Nat /\ Latest \in Nat
         /\ Latest <= MaxFailures
         /\ \A i \in Failures : i \in Raised <=> i <= Latest
         /\ Latest # 0 => Latest \in Raised
<1>1. Raised \subseteq Failures /\ Raised = 1..Latest /\ Latest \in Nat
  BY DEF NumberedOK, Raised
<1>2. Failures = 1..MaxFailures /\ MaxFailures \in Nat
  BY OutboxAssumption DEF Failures
<1>3. Latest # 0 => Latest \in Raised
  BY <1>1
<1> QED
  BY <1>1, <1>2, <1>3

(* They change when the job fails again.                                   *)
LEMMA RaisedNext ==
  ASSUME OutboxTypeOK, NumberedOK, JobFails
  PROVE  /\ Latest + 1 \in Failures /\ Latest' = Latest + 1
         /\ Raised' = 1..Latest' /\ Raised' = Raised \cup {Latest + 1}
<1>1. Latest \in Nat /\ Latest < MaxFailures /\ MaxFailures \in Nat
  BY OutboxAssumption DEF NumberedOK, JobFails
<1>2. Latest + 1 \in Failures
  BY <1>1 DEF Failures
<1>3. sub # 0 /\ sub \in 0..MaxSubs
  BY DEF JobFails, OutboxTypeOK
<1>4. \A i \in Failures :
        origin'[i] = IF i = Latest + 1 THEN sub ELSE origin[i]
  BY <1>2 DEF JobFails, OutboxTypeOK
<1>5. Raised' = Raised \cup {Latest + 1}
  BY <1>2, <1>3, <1>4 DEF Raised
<1>6. Raised' = 1..Latest + 1
  BY <1>1, <1>5 DEF NumberedOK
<1>7. Cardinality(1..Latest + 1) = Latest + 1
  BY <1>1, FS_Interval
<1>8. Latest' = Latest + 1
  BY <1>6, <1>7 DEF Latest
<1> QED
  BY <1>2, <1>5, <1>6, <1>8

(* Nothing else makes a failure.                                           *)
LEMMA RaisedSame ==
  ASSUME origin' = origin
  PROVE  Raised' = Raised /\ Latest' = Latest
  BY DEF Raised, Latest

(* The process of the pipelines, and the processes of each role.           *)
LEMMA Roles ==
  ASSUME OutboxTypeOK
  PROVE  /\ Runner \in Running /\ Running \subseteq Processes /\ Master \in Running
         /\ Master \in Processes /\ Workers \subseteq Processes
         /\ worker \in Workers /\ Master \notin Workers
         /\ role = "all" => Runner = Master /\ Running = {Master}
         /\ role = "split" => Runner = worker /\ Running = Processes
         /\ role' = role => Running' = Running
         /\ role' = role /\ worker' = worker => Runner' = Runner
  BY OutboxAssumption DEF OutboxTypeOK, Runner, Running, Processes

-----------------------------------------------------------------------------
(* Types *)

(* enqueueFailureNotification leaves a goroutine behind unless this process *)
(* has or had one, and settles no row.                                     *)
LEMMA EnqueueKeeps ==
  ASSUME OutboxTypeOK, NEW p \in Processes, NEW i \in Failures, Enqueue(p, i)
  PROVE  /\ outbox' \in [Failures -> RowState] /\ faults' \in 0..MaxFaults
         /\ \A k \in Failures : k # i => outbox'[k] = outbox[k]
         /\ outbox[i] \in Settled => outbox'[i] = outbox[i]
         /\ delivery' \in [Processes -> [Failures -> Goroutine]] /\ OthersStay(p, i)
         /\ MaySchedule(p, i) => delivery'[p][i].at \in {"check", "persist"}
         /\ ~MaySchedule(p, i) => delivery'[p][i] = delivery[p][i]
<1>1. /\ "PENDING" \in Outcomes /\ "check" \in Places /\ "persist" \in Places
      /\ origin[i] \in 0..MaxSubs
  BY DEF Outcomes, Places, OutboxTypeOK
<1>2. SaveOK(i, "PENDING") \/ SaveFails(i, "PENDING")
  BY DEF Enqueue
<1>3. PICK place \in {"check", "persist"} :
        delivery' = Scheduled(p, i, origin[i], place)
  BY DEF Enqueue
<1>4. /\ delivery' \in [Processes -> [Failures -> Goroutine]] /\ OthersStay(p, i)
      /\ MaySchedule(p, i) => delivery'[p][i].at = place
      /\ ~MaySchedule(p, i) => delivery'[p][i] = delivery[p][i]
  BY <1>1, <1>3, GoesOut
<1> QED
  BY <1>1, <1>2, <1>4, SaveKeeps

(* Every step keeps the types.                                             *)
LEMMA TypeStep ==
  ASSUME OutboxTypeOK, NumberedOK, RolesOK,
         [OutboxNext]_outboxVars
  PROVE  OutboxTypeOK'
<1>0. /\ callback # 0 => callback \in Failures
      /\ submitting /\ failed => Latest \in Failures
      /\ failed \in BOOLEAN /\ deleting \in BOOLEAN /\ submitting \in BOOLEAN
      /\ Runner \in Processes /\ Raised \subseteq Failures /\ {Latest} \subseteq Nat
  BY Roles, RaisedFacts DEF NumberedOK, OutboxTypeOK
<1>2. ASSUME JobFails
      PROVE  OutboxTypeOK'
  <2>1. /\ role' \in {"all", "split"} /\ worker' \in Workers
        /\ configured' \subseteq Processes
        /\ sub' \in 0..MaxSubs /\ lastSub' \in 0..MaxSubs
        /\ callback' \in 0..MaxFailures /\ crashes' \in 0..MaxCrashes
    BY <1>0, <1>2, OutboxAssumption, RaisedNext
       DEF JobFails, Failures, OutboxTypeOK
  <2>8. {failed', deleting', submitting'} \subseteq BOOLEAN
    BY <1>2 DEF JobFails, OutboxTypeOK
  <2>2. origin' \in [Failures -> 0..MaxSubs]
    BY <1>2 DEF JobFails, OutboxTypeOK
  <2>3. up' \subseteq Processes /\ managed' \in [Processes -> 0..MaxSubs]
    BY <1>2, Roles, OutboxAssumption DEF JobFails, procVars, OutboxTypeOK
  <2>4. outbox' \in [Failures -> RowState] /\ faults' \in 0..MaxFaults
    BY <1>2 DEF JobFails, OutboxTypeOK, RowState, ghosts
  <2>5. delivery' \in [Processes -> [Failures -> Goroutine]]
    BY <1>2 DEF JobFails, procVars, OutboxTypeOK, Goroutine
  <2>6. completed' \in [Processes -> SUBSET Failures]
    BY <1>2 DEF JobFails, procVars, OutboxTypeOK
  <2>7. /\ received' \in [Failures -> Nat] /\ recorded' \subseteq Failures
        /\ excuse' \in [Failures -> SUBSET Excuses]
    BY <1>2 DEF JobFails, ghosts, OutboxTypeOK
  <2> QED
    BY <2>1, <2>2, <2>3, <2>4, <2>5, <2>6, <2>7, <2>8
       DEF OutboxTypeOK, Goroutine, RowState
<1>3. ASSUME Callback
      PROVE  OutboxTypeOK'
  <2>1. /\ role' \in {"all", "split"} /\ worker' \in Workers
        /\ configured' \subseteq Processes
        /\ sub' \in 0..MaxSubs /\ lastSub' \in 0..MaxSubs
        /\ callback' \in 0..MaxFailures /\ crashes' \in 0..MaxCrashes
    BY <1>0, <1>3, OutboxAssumption DEF Callback, OutboxTypeOK
  <2>8. {failed', deleting', submitting'} \subseteq BOOLEAN
    BY <1>3 DEF Callback, OutboxTypeOK
  <2>2. origin' \in [Failures -> 0..MaxSubs]
    BY <1>3 DEF Callback, OutboxTypeOK
  <2>3. up' \subseteq Processes /\ managed' \in [Processes -> 0..MaxSubs]
    BY <1>3, Roles, OutboxAssumption DEF Callback, procVars, OutboxTypeOK
  <2>4. outbox' \in [Failures -> RowState] /\ faults' \in 0..MaxFaults
    <3>1. CASE submitting
      BY <1>3, <3>1 DEF Callback, OutboxTypeOK, RowState
    <3>2. CASE ~submitting
      <4>1. callback \in Failures /\ Enqueue(Runner, callback)
        BY <1>0, <1>3, <3>2 DEF Callback
      <4> QED
        BY <1>0, <4>1, EnqueueKeeps
    <3> QED
      BY <3>1, <3>2
  <2>5. delivery' \in [Processes -> [Failures -> Goroutine]]
    <3>1. CASE submitting
      BY <1>3, <3>1 DEF Callback, OutboxTypeOK, Goroutine
    <3>2. CASE ~submitting
      <4>1. callback \in Failures /\ Enqueue(Runner, callback)
        BY <1>0, <1>3, <3>2 DEF Callback
      <4> QED
        BY <1>0, <4>1, EnqueueKeeps
    <3> QED
      BY <3>1, <3>2
  <2>6. completed' \in [Processes -> SUBSET Failures]
    BY <1>3 DEF Callback, procVars, OutboxTypeOK
  <2>7. /\ received' \in [Failures -> Nat] /\ recorded' \subseteq Failures
        /\ excuse' \in [Failures -> SUBSET Excuses]
    BY <1>3, RecordKeeps DEF Callback, OutboxTypeOK
  <2> QED
    BY <2>1, <2>2, <2>3, <2>4, <2>5, <2>6, <2>7, <2>8
       DEF OutboxTypeOK, Goroutine, RowState
<1>4. ASSUME SubmitReturns
      PROVE  OutboxTypeOK'
  <2>1. /\ role' \in {"all", "split"} /\ worker' \in Workers
        /\ configured' \subseteq Processes
        /\ sub' \in 0..MaxSubs /\ lastSub' \in 0..MaxSubs
        /\ callback' \in 0..MaxFailures /\ crashes' \in 0..MaxCrashes
    BY <1>0, <1>4, OutboxAssumption DEF SubmitReturns, OutboxTypeOK
  <2>8. {failed', deleting', submitting'} \subseteq BOOLEAN
    BY <1>4 DEF SubmitReturns, OutboxTypeOK
  <2>2. origin' \in [Failures -> 0..MaxSubs]
    BY <1>4 DEF SubmitReturns, OutboxTypeOK
  <2>3. up' \subseteq Processes /\ managed' \in [Processes -> 0..MaxSubs]
    BY <1>4, Roles, OutboxAssumption DEF SubmitReturns, procVars, OutboxTypeOK
  <2>4. outbox' \in [Failures -> RowState] /\ faults' \in 0..MaxFaults
    <3>1. CASE ~failed
      BY <1>4, <3>1 DEF SubmitReturns, OutboxTypeOK, RowState
    <3>2. CASE failed
      <4>1. Latest \in Failures /\ Enqueue(Master, Latest) /\ Master \in Processes
        BY <1>0, <1>4, <3>2, Roles DEF SubmitReturns
      <4> QED
        BY <4>1, EnqueueKeeps
    <3> QED
      BY <3>1, <3>2
  <2>5. delivery' \in [Processes -> [Failures -> Goroutine]]
    <3>1. CASE ~failed
      BY <1>4, <3>1 DEF SubmitReturns, OutboxTypeOK, Goroutine
    <3>2. CASE failed
      <4>1. Latest \in Failures /\ Enqueue(Master, Latest) /\ Master \in Processes
        BY <1>0, <1>4, <3>2, Roles DEF SubmitReturns
      <4> QED
        BY <4>1, EnqueueKeeps
    <3> QED
      BY <3>1, <3>2
  <2>6. completed' \in [Processes -> SUBSET Failures]
    BY <1>4 DEF SubmitReturns, procVars, OutboxTypeOK
  <2>7. /\ received' \in [Failures -> Nat] /\ recorded' \subseteq Failures
        /\ excuse' \in [Failures -> SUBSET Excuses]
    BY <1>4, RecordKeeps DEF SubmitReturns, OutboxTypeOK
  <2> QED
    BY <2>1, <2>2, <2>3, <2>4, <2>5, <2>6, <2>7, <2>8
       DEF OutboxTypeOK, Goroutine, RowState
<1>5. ASSUME SubmitRejected
      PROVE  OutboxTypeOK'
  <2>1. /\ role' \in {"all", "split"} /\ worker' \in Workers
        /\ configured' \subseteq Processes
        /\ sub' \in 0..MaxSubs /\ lastSub' \in 0..MaxSubs
        /\ callback' \in 0..MaxFailures /\ crashes' \in 0..MaxCrashes
    BY <1>0, <1>5, OutboxAssumption DEF SubmitRejected, OutboxTypeOK
  <2>8. {failed', deleting', submitting'} \subseteq BOOLEAN
    BY <1>5 DEF SubmitRejected, OutboxTypeOK
  <2>2. origin' \in [Failures -> 0..MaxSubs]
    BY <1>5 DEF SubmitRejected, OutboxTypeOK
  <2>3. up' \subseteq Processes /\ managed' \in [Processes -> 0..MaxSubs]
    BY <1>5, Roles, OutboxAssumption DEF SubmitRejected, procVars, OutboxTypeOK
  <2>4. outbox' \in [Failures -> RowState] /\ faults' \in 0..MaxFaults
    BY <1>5 DEF SubmitRejected, OutboxTypeOK, RowState
  <2>5. delivery' \in [Processes -> [Failures -> Goroutine]]
    BY <1>5 DEF SubmitRejected, procVars, OutboxTypeOK, Goroutine
  <2>6. completed' \in [Processes -> SUBSET Failures]
    BY <1>5 DEF SubmitRejected, procVars, OutboxTypeOK
  <2>7. /\ received' \in [Failures -> Nat] /\ recorded' \subseteq Failures
        /\ excuse' \in [Failures -> SUBSET Excuses]
    BY <1>5, <1>0, ExcuseKeeps DEF SubmitRejected, Excuses, OutboxTypeOK
  <2> QED
    BY <2>1, <2>2, <2>3, <2>4, <2>5, <2>6, <2>7, <2>8
       DEF OutboxTypeOK, Goroutine, RowState
<1>6. ASSUME Resubmit
      PROVE  OutboxTypeOK'
  <2>1. /\ role' \in {"all", "split"} /\ worker' \in Workers
        /\ configured' \subseteq Processes
        /\ sub' \in 0..MaxSubs /\ lastSub' \in 0..MaxSubs
        /\ callback' \in 0..MaxFailures /\ crashes' \in 0..MaxCrashes
    BY <1>0, <1>6, OutboxAssumption DEF Resubmit, OutboxTypeOK
  <2>8. {failed', deleting', submitting'} \subseteq BOOLEAN
    BY <1>6 DEF Resubmit, OutboxTypeOK
  <2>2. origin' \in [Failures -> 0..MaxSubs]
    BY <1>6 DEF Resubmit, OutboxTypeOK
  <2>3. up' \subseteq Processes /\ managed' \in [Processes -> 0..MaxSubs]
    BY <1>6, Roles, OutboxAssumption DEF Resubmit, procVars, OutboxTypeOK
  <2>4. outbox' \in [Failures -> RowState] /\ faults' \in 0..MaxFaults
    BY <1>6 DEF Resubmit, OutboxTypeOK, RowState, ghosts
  <2>5. delivery' \in [Processes -> [Failures -> Goroutine]]
    BY <1>6 DEF Resubmit, procVars, OutboxTypeOK, Goroutine
  <2>6. completed' \in [Processes -> SUBSET Failures]
    BY <1>6 DEF Resubmit, procVars, OutboxTypeOK
  <2>7. /\ received' \in [Failures -> Nat] /\ recorded' \subseteq Failures
        /\ excuse' \in [Failures -> SUBSET Excuses]
    BY <1>6 DEF Resubmit, ghosts, OutboxTypeOK
  <2> QED
    BY <2>1, <2>2, <2>3, <2>4, <2>5, <2>6, <2>7, <2>8
       DEF OutboxTypeOK, Goroutine, RowState
<1>7. ASSUME Delete
      PROVE  OutboxTypeOK'
  <2>1. /\ role' \in {"all", "split"} /\ worker' \in Workers
        /\ configured' \subseteq Processes
        /\ sub' \in 0..MaxSubs /\ lastSub' \in 0..MaxSubs
        /\ callback' \in 0..MaxFailures /\ crashes' \in 0..MaxCrashes
    BY <1>0, <1>7, OutboxAssumption DEF Delete, OutboxTypeOK
  <2>8. {failed', deleting', submitting'} \subseteq BOOLEAN
    BY <1>7 DEF Delete, OutboxTypeOK
  <2>2. origin' \in [Failures -> 0..MaxSubs]
    BY <1>7 DEF Delete, OutboxTypeOK
  <2>3. up' \subseteq Processes /\ managed' \in [Processes -> 0..MaxSubs]
    BY <1>7, Roles, OutboxAssumption DEF Delete, procVars, OutboxTypeOK
  <2>4. outbox' \in [Failures -> RowState] /\ faults' \in 0..MaxFaults
    BY <1>7 DEF Delete, OutboxTypeOK, RowState, ghosts
  <2>5. delivery' \in [Processes -> [Failures -> Goroutine]]
    BY <1>7 DEF Delete, procVars, OutboxTypeOK, Goroutine
  <2>6. completed' \in [Processes -> SUBSET Failures]
    BY <1>7 DEF Delete, procVars, OutboxTypeOK
  <2>7. /\ received' \in [Failures -> Nat] /\ recorded' \subseteq Failures
        /\ excuse' \in [Failures -> SUBSET Excuses]
    BY <1>7, <1>0, ExcuseKeeps DEF Delete, Excuses, OutboxTypeOK
  <2> QED
    BY <2>1, <2>2, <2>3, <2>4, <2>5, <2>6, <2>7, <2>8
       DEF OutboxTypeOK, Goroutine, RowState
<1>8. ASSUME DeleteRows
      PROVE  OutboxTypeOK'
  <2>1. /\ role' \in {"all", "split"} /\ worker' \in Workers
        /\ configured' \subseteq Processes
        /\ sub' \in 0..MaxSubs /\ lastSub' \in 0..MaxSubs
        /\ callback' \in 0..MaxFailures /\ crashes' \in 0..MaxCrashes
    BY <1>0, <1>8, OutboxAssumption DEF DeleteRows, OutboxTypeOK
  <2>8. {failed', deleting', submitting'} \subseteq BOOLEAN
    BY <1>8 DEF DeleteRows, OutboxTypeOK
  <2>2. origin' \in [Failures -> 0..MaxSubs]
    BY <1>8 DEF DeleteRows, OutboxTypeOK
  <2>3. up' \subseteq Processes /\ managed' \in [Processes -> 0..MaxSubs]
    BY <1>8, Roles, OutboxAssumption DEF DeleteRows, procVars, OutboxTypeOK
  <2>4. outbox' \in [Failures -> RowState] /\ faults' \in 0..MaxFaults
    BY <1>8 DEF DeleteRows, OutboxTypeOK, RowState
  <2>5. delivery' \in [Processes -> [Failures -> Goroutine]]
    BY <1>8 DEF DeleteRows, procVars, OutboxTypeOK, Goroutine
  <2>6. completed' \in [Processes -> SUBSET Failures]
    BY <1>8 DEF DeleteRows, procVars, OutboxTypeOK
  <2>7. /\ received' \in [Failures -> Nat] /\ recorded' \subseteq Failures
        /\ excuse' \in [Failures -> SUBSET Excuses]
    BY <1>8, <1>0, ExcuseKeeps DEF DeleteRows, Excuses, OutboxTypeOK
  <2> QED
    BY <2>1, <2>2, <2>3, <2>4, <2>5, <2>6, <2>7, <2>8
       DEF OutboxTypeOK, Goroutine, RowState
<1>9. ASSUME DeleteFails
      PROVE  OutboxTypeOK'
  <2>1. /\ role' \in {"all", "split"} /\ worker' \in Workers
        /\ configured' \subseteq Processes
        /\ sub' \in 0..MaxSubs /\ lastSub' \in 0..MaxSubs
        /\ callback' \in 0..MaxFailures /\ crashes' \in 0..MaxCrashes
    BY <1>0, <1>9, OutboxAssumption DEF DeleteFails, OutboxTypeOK
  <2>8. {failed', deleting', submitting'} \subseteq BOOLEAN
    BY <1>9 DEF DeleteFails, OutboxTypeOK
  <2>2. origin' \in [Failures -> 0..MaxSubs]
    BY <1>9 DEF DeleteFails, OutboxTypeOK
  <2>3. up' \subseteq Processes /\ managed' \in [Processes -> 0..MaxSubs]
    BY <1>9, Roles, OutboxAssumption DEF DeleteFails, procVars, OutboxTypeOK
  <2>4. outbox' \in [Failures -> RowState] /\ faults' \in 0..MaxFaults
    BY <1>9 DEF DeleteFails, OutboxTypeOK, RowState, ghosts
  <2>5. delivery' \in [Processes -> [Failures -> Goroutine]]
    BY <1>9 DEF DeleteFails, procVars, OutboxTypeOK, Goroutine
  <2>6. completed' \in [Processes -> SUBSET Failures]
    BY <1>9 DEF DeleteFails, procVars, OutboxTypeOK
  <2>7. /\ received' \in [Failures -> Nat] /\ recorded' \subseteq Failures
        /\ excuse' \in [Failures -> SUBSET Excuses]
    BY <1>9 DEF DeleteFails, ghosts, OutboxTypeOK
  <2> QED
    BY <2>1, <2>2, <2>3, <2>4, <2>5, <2>6, <2>7, <2>8
       DEF OutboxTypeOK, Goroutine, RowState
<1>10. ASSUME Submit
       PROVE  OutboxTypeOK'
  <2>1. /\ role' \in {"all", "split"} /\ worker' \in Workers
        /\ configured' \subseteq Processes
        /\ sub' \in 0..MaxSubs /\ lastSub' \in 0..MaxSubs
        /\ callback' \in 0..MaxFailures /\ crashes' \in 0..MaxCrashes
    BY <1>0, <1>10, OutboxAssumption DEF Submit, OutboxTypeOK
  <2>8. {failed', deleting', submitting'} \subseteq BOOLEAN
    BY <1>10 DEF Submit, OutboxTypeOK
  <2>2. origin' \in [Failures -> 0..MaxSubs]
    BY <1>10 DEF Submit, OutboxTypeOK
  <2>3. up' \subseteq Processes /\ managed' \in [Processes -> 0..MaxSubs]
    BY <1>10, Roles, OutboxAssumption DEF Submit, procVars, OutboxTypeOK
  <2>4. outbox' \in [Failures -> RowState] /\ faults' \in 0..MaxFaults
    BY <1>10 DEF Submit, OutboxTypeOK, RowState, ghosts
  <2>5. delivery' \in [Processes -> [Failures -> Goroutine]]
    BY <1>10 DEF Submit, procVars, OutboxTypeOK, Goroutine
  <2>6. completed' \in [Processes -> SUBSET Failures]
    BY <1>10 DEF Submit, procVars, OutboxTypeOK
  <2>7. /\ received' \in [Failures -> Nat] /\ recorded' \subseteq Failures
        /\ excuse' \in [Failures -> SUBSET Excuses]
    BY <1>10 DEF Submit, ghosts, OutboxTypeOK
  <2> QED
    BY <2>1, <2>2, <2>3, <2>4, <2>5, <2>6, <2>7, <2>8
       DEF OutboxTypeOK, Goroutine, RowState
<1>11. ASSUME NEW p \in Workers, Claim(p)
       PROVE  OutboxTypeOK'
  <2>1. /\ role' \in {"all", "split"} /\ worker' \in Workers
        /\ configured' \subseteq Processes
        /\ sub' \in 0..MaxSubs /\ lastSub' \in 0..MaxSubs
        /\ callback' \in 0..MaxFailures /\ crashes' \in 0..MaxCrashes
    BY <1>0, <1>11, OutboxAssumption DEF Claim, jobVars, OutboxTypeOK
  <2>8. {failed', deleting', submitting'} \subseteq BOOLEAN
    BY <1>11 DEF Claim, jobVars, OutboxTypeOK
  <2>2. origin' \in [Failures -> 0..MaxSubs]
    BY <1>11 DEF Claim, jobVars, OutboxTypeOK
  <2>3. up' \subseteq Processes /\ managed' \in [Processes -> 0..MaxSubs]
    BY <1>11, Roles, OutboxAssumption
       DEF Claim, jobVars, procVars, OutboxTypeOK
  <2>4. outbox' \in [Failures -> RowState] /\ faults' \in 0..MaxFaults
    BY <1>11 DEF Claim, jobVars, OutboxTypeOK, RowState, ghosts
  <2>5. delivery' \in [Processes -> [Failures -> Goroutine]]
    BY <1>11 DEF Claim, jobVars, procVars, OutboxTypeOK, Goroutine
  <2>6. completed' \in [Processes -> SUBSET Failures]
    BY <1>11 DEF Claim, jobVars, procVars, OutboxTypeOK
  <2>7. /\ received' \in [Failures -> Nat] /\ recorded' \subseteq Failures
        /\ excuse' \in [Failures -> SUBSET Excuses]
    BY <1>11 DEF Claim, jobVars, ghosts, OutboxTypeOK
  <2> QED
    BY <2>1, <2>2, <2>3, <2>4, <2>5, <2>6, <2>7, <2>8
       DEF OutboxTypeOK, Goroutine, RowState
<1>12. ASSUME NEW p \in Processes, NEW i \in Failures, Persist(p, i)
       PROVE  OutboxTypeOK'
  <2>1. /\ role' \in {"all", "split"} /\ worker' \in Workers
        /\ configured' \subseteq Processes
        /\ sub' \in 0..MaxSubs /\ lastSub' \in 0..MaxSubs
        /\ callback' \in 0..MaxFailures /\ crashes' \in 0..MaxCrashes
    BY <1>0, <1>12, OutboxAssumption
       DEF Persist, DeliverUnchanged, jobVars, OutboxTypeOK
  <2>8. {failed', deleting', submitting'} \subseteq BOOLEAN
    BY <1>12 DEF Persist, DeliverUnchanged, jobVars, OutboxTypeOK
  <2>2. origin' \in [Failures -> 0..MaxSubs]
    BY <1>12 DEF Persist, DeliverUnchanged, jobVars, OutboxTypeOK
  <2>3. up' \subseteq Processes /\ managed' \in [Processes -> 0..MaxSubs]
    BY <1>12, Roles, OutboxAssumption
       DEF Persist, DeliverUnchanged, jobVars, procVars, OutboxTypeOK
  <2>4. outbox' \in [Failures -> RowState] /\ faults' \in 0..MaxFaults
    BY <1>12, SaveKeeps DEF Persist, Outcomes, OutboxTypeOK, RowState
  <2>5. delivery' \in [Processes -> [Failures -> Goroutine]]
    BY <1>12, GoesOn, GoesAway
       DEF Persist, Places, Outcomes, OutboxTypeOK, Goroutine
  <2>6. completed' \in [Processes -> SUBSET Failures]
    BY <1>12 DEF Persist, DeliverUnchanged, jobVars, procVars, OutboxTypeOK
  <2>7. /\ received' \in [Failures -> Nat] /\ recorded' \subseteq Failures
        /\ excuse' \in [Failures -> SUBSET Excuses]
    BY <1>12, RecordKeeps DEF Persist, DeliverUnchanged, jobVars, OutboxTypeOK
  <2> QED
    BY <2>1, <2>2, <2>3, <2>4, <2>5, <2>6, <2>7, <2>8
       DEF OutboxTypeOK, Goroutine, RowState
<1>13. ASSUME NEW p \in Processes, NEW i \in Failures, Check(p, i)
       PROVE  OutboxTypeOK'
  <2>1. /\ role' \in {"all", "split"} /\ worker' \in Workers
        /\ configured' \subseteq Processes
        /\ sub' \in 0..MaxSubs /\ lastSub' \in 0..MaxSubs
        /\ callback' \in 0..MaxFailures /\ crashes' \in 0..MaxCrashes
    BY <1>0, <1>13, OutboxAssumption
       DEF Check, DeliverUnchanged, jobVars, OutboxTypeOK
  <2>8. {failed', deleting', submitting'} \subseteq BOOLEAN
    BY <1>13 DEF Check, DeliverUnchanged, jobVars, OutboxTypeOK
  <2>2. origin' \in [Failures -> 0..MaxSubs]
    BY <1>13 DEF Check, DeliverUnchanged, jobVars, OutboxTypeOK
  <2>3. up' \subseteq Processes /\ managed' \in [Processes -> 0..MaxSubs]
    BY <1>13, Roles, OutboxAssumption
       DEF Check, DeliverUnchanged, jobVars, procVars, OutboxTypeOK
  <2>4. outbox' \in [Failures -> RowState] /\ faults' \in 0..MaxFaults
    BY <1>13
       DEF Check, DeliverUnchanged, jobVars, OutboxTypeOK, RowState, ghosts
  <2>5. delivery' \in [Processes -> [Failures -> Goroutine]]
    BY <1>13, GoesOn, GoesAway
       DEF Check, Places, Outcomes, OutboxTypeOK, Goroutine
  <2>6. completed' \in [Processes -> SUBSET Failures]
    BY <1>13 DEF Check, DeliverUnchanged, jobVars, procVars, OutboxTypeOK
  <2>7. /\ received' \in [Failures -> Nat] /\ recorded' \subseteq Failures
        /\ excuse' \in [Failures -> SUBSET Excuses]
    BY <1>13 DEF Check, DeliverUnchanged, jobVars, ghosts, OutboxTypeOK
  <2> QED
    BY <2>1, <2>2, <2>3, <2>4, <2>5, <2>6, <2>7, <2>8
       DEF OutboxTypeOK, Goroutine, RowState
<1>14. ASSUME NEW p \in Processes, NEW i \in Failures, Send(p, i)
       PROVE  OutboxTypeOK'
  <2>1. /\ role' \in {"all", "split"} /\ worker' \in Workers
        /\ configured' \subseteq Processes
        /\ sub' \in 0..MaxSubs /\ lastSub' \in 0..MaxSubs
        /\ callback' \in 0..MaxFailures /\ crashes' \in 0..MaxCrashes
    BY <1>0, <1>14, OutboxAssumption
       DEF Send, DeliverUnchanged, jobVars, OutboxTypeOK
  <2>8. {failed', deleting', submitting'} \subseteq BOOLEAN
    BY <1>14 DEF Send, DeliverUnchanged, jobVars, OutboxTypeOK
  <2>2. origin' \in [Failures -> 0..MaxSubs]
    BY <1>14 DEF Send, DeliverUnchanged, jobVars, OutboxTypeOK
  <2>3. up' \subseteq Processes /\ managed' \in [Processes -> 0..MaxSubs]
    BY <1>14, Roles, OutboxAssumption
       DEF Send, DeliverUnchanged, jobVars, procVars, OutboxTypeOK
  <2>4. outbox' \in [Failures -> RowState] /\ faults' \in 0..MaxFaults
    BY <1>14, OutboxAssumption
       DEF Send, DeliverUnchanged, jobVars, OutboxTypeOK, RowState
  <2>5. delivery' \in [Processes -> [Failures -> Goroutine]]
    BY <1>14, GoesOn, GoesAway
       DEF Send, Places, Outcomes, OutboxTypeOK, Goroutine
  <2>6. completed' \in [Processes -> SUBSET Failures]
    BY <1>14 DEF Send, DeliverUnchanged, jobVars, procVars, OutboxTypeOK
  <2>7. /\ received' \in [Failures -> Nat] /\ recorded' \subseteq Failures
        /\ excuse' \in [Failures -> SUBSET Excuses]
    BY <1>14, ExcuseKeeps
       DEF Send, DeliverUnchanged, jobVars, ghosts, Excuses, OutboxTypeOK
  <2> QED
    BY <2>1, <2>2, <2>3, <2>4, <2>5, <2>6, <2>7, <2>8
       DEF OutboxTypeOK, Goroutine, RowState
<1>15. ASSUME NEW p \in Processes, NEW i \in Failures, Record(p, i)
       PROVE  OutboxTypeOK'
  <2>1. /\ role' \in {"all", "split"} /\ worker' \in Workers
        /\ configured' \subseteq Processes
        /\ sub' \in 0..MaxSubs /\ lastSub' \in 0..MaxSubs
        /\ callback' \in 0..MaxFailures /\ crashes' \in 0..MaxCrashes
    BY <1>0, <1>15, OutboxAssumption
       DEF Record, DeliverUnchanged, jobVars, OutboxTypeOK
  <2>8. {failed', deleting', submitting'} \subseteq BOOLEAN
    BY <1>15 DEF Record, DeliverUnchanged, jobVars, OutboxTypeOK
  <2>2. origin' \in [Failures -> 0..MaxSubs]
    BY <1>15 DEF Record, DeliverUnchanged, jobVars, OutboxTypeOK
  <2>3. up' \subseteq Processes /\ managed' \in [Processes -> 0..MaxSubs]
    BY <1>15, Roles, OutboxAssumption
       DEF Record, DeliverUnchanged, jobVars, procVars, OutboxTypeOK
  <2>4. outbox' \in [Failures -> RowState] /\ faults' \in 0..MaxFaults
    BY <1>15, SaveKeeps DEF Record, OutboxTypeOK, RowState
  <2>5. delivery' \in [Processes -> [Failures -> Goroutine]]
    BY <1>15, GoesOn, GoesAway
       DEF Record, Places, Outcomes, OutboxTypeOK, Goroutine
  <2>6. completed' \in [Processes -> SUBSET Failures]
    BY <1>15 DEF Record, DeliverUnchanged, jobVars, procVars, OutboxTypeOK
  <2>7. /\ received' \in [Failures -> Nat] /\ recorded' \subseteq Failures
        /\ excuse' \in [Failures -> SUBSET Excuses]
    BY <1>15, RecordKeeps DEF Record, DeliverUnchanged, jobVars, OutboxTypeOK
  <2> QED
    BY <2>1, <2>2, <2>3, <2>4, <2>5, <2>6, <2>7, <2>8
       DEF OutboxTypeOK, Goroutine, RowState
<1>16. ASSUME NEW p \in Processes, Crash(p)
       PROVE  OutboxTypeOK'
  <2>1. /\ role' \in {"all", "split"} /\ worker' \in Workers
        /\ configured' \subseteq Processes
        /\ sub' \in 0..MaxSubs /\ lastSub' \in 0..MaxSubs
        /\ callback' \in 0..MaxFailures /\ crashes' \in 0..MaxCrashes
    BY <1>0, <1>16, OutboxAssumption DEF Crash, OutboxTypeOK
  <2>8. {failed', deleting', submitting'} \subseteq BOOLEAN
    BY <1>16 DEF Crash, OutboxTypeOK
  <2>2. origin' \in [Failures -> 0..MaxSubs]
    BY <1>16 DEF Crash, OutboxTypeOK
  <2>3. up' \subseteq Processes /\ managed' \in [Processes -> 0..MaxSubs]
    BY <1>16, Roles, OutboxAssumption DEF Crash, procVars, OutboxTypeOK
  <2>4. outbox' \in [Failures -> RowState] /\ faults' \in 0..MaxFaults
    BY <1>16 DEF Crash, OutboxTypeOK, RowState, ghosts
  <2>5. delivery' \in [Processes -> [Failures -> Goroutine]]
    <3>1. [i \in Failures |-> NoDelivery] \in [Failures -> Goroutine]
      BY OutboxAssumption DEF NoDelivery, Goroutine, Places
    <3> QED
      BY <1>16, <3>1, GoroutineType DEF Crash, OutboxTypeOK, Goroutine
  <2>6. completed' \in [Processes -> SUBSET Failures]
    BY <1>16 DEF Crash, procVars, OutboxTypeOK
  <2>7. /\ received' \in [Failures -> Nat] /\ recorded' \subseteq Failures
        /\ excuse' \in [Failures -> SUBSET Excuses]
    <3>1. {i \in Raised : outbox[i] = "absent"} \subseteq Failures
      BY DEF Raised
    <3> QED
      BY <1>16, <3>1, ExcuseKeeps DEF Crash, Excuses, OutboxTypeOK
  <2> QED
    BY <2>1, <2>2, <2>3, <2>4, <2>5, <2>6, <2>7, <2>8
       DEF OutboxTypeOK, Goroutine, RowState
<1>17. ASSUME NEW p \in Processes, Restart(p)
       PROVE  OutboxTypeOK'
  <2>1. /\ role' \in {"all", "split"} /\ worker' \in Workers
        /\ configured' \subseteq Processes
        /\ sub' \in 0..MaxSubs /\ lastSub' \in 0..MaxSubs
        /\ callback' \in 0..MaxFailures /\ crashes' \in 0..MaxCrashes
    BY <1>0, <1>17, OutboxAssumption DEF Restart, jobVars, OutboxTypeOK
  <2>8. {failed', deleting', submitting'} \subseteq BOOLEAN
    BY <1>17 DEF Restart, jobVars, OutboxTypeOK
  <2>2. origin' \in [Failures -> 0..MaxSubs]
    BY <1>17 DEF Restart, jobVars, OutboxTypeOK
  <2>3. up' \subseteq Processes /\ managed' \in [Processes -> 0..MaxSubs]
    BY <1>17, Roles, OutboxAssumption
       DEF Restart, jobVars, procVars, OutboxTypeOK
  <2>4. outbox' \in [Failures -> RowState] /\ faults' \in 0..MaxFaults
    BY <1>17 DEF Restart, jobVars, OutboxTypeOK, RowState, ghosts
  <2>5. delivery' \in [Processes -> [Failures -> Goroutine]]
    <3>1. /\ [at |-> "check", job |-> sub] \in Goroutine /\ NoDelivery \in Goroutine
      BY OutboxAssumption DEF NoDelivery, Goroutine, Places, OutboxTypeOK
    <3> QED
      BY <1>17, <3>1 DEF Restart, OutboxTypeOK, Goroutine
  <2>6. completed' \in [Processes -> SUBSET Failures]
    BY <1>17 DEF Restart, jobVars, procVars, OutboxTypeOK
  <2>7. /\ received' \in [Failures -> Nat] /\ recorded' \subseteq Failures
        /\ excuse' \in [Failures -> SUBSET Excuses]
    <3>1. PICK shared \in SUBSET Failures : Excuse(shared, "restored")
      BY <1>17 DEF Restart
    <3> QED
      BY <1>17, <3>1, ExcuseKeeps DEF Restart, Excuses, OutboxTypeOK
  <2> QED
    BY <2>1, <2>2, <2>3, <2>4, <2>5, <2>6, <2>7, <2>8
       DEF OutboxTypeOK, Goroutine, RowState
<1>18. ASSUME UNCHANGED outboxVars
      PROVE  OutboxTypeOK'
  BY <1>18 DEF outboxVars, jobVars, procVars, ghosts, OutboxTypeOK
<1> QED
  BY <1>2, <1>3, <1>4, <1>5, <1>6, <1>7, <1>8, <1>9, <1>10,
     <1>11, <1>12, <1>13, <1>14, <1>15, <1>16, <1>17, <1>18 DEF OutboxNext

-----------------------------------------------------------------------------
(* Numbers *)

(* Nothing is known of a failure before it happens.                        *)
LEMMA UnknownStep ==
  ASSUME OutboxTypeOK, NumberedOK, RolesOK, NEW k \in Failures \ Raised',
         [OutboxNext]_outboxVars
  PROVE  Unknown(k)'
<1>0. /\ k \in Failures /\ k \notin Raised /\ Unknown(k) /\ Raised \subseteq Failures
      /\ callback # 0 => callback \in Failures /\ callback # k
      /\ submitting /\ failed => Latest \in Failures /\ Latest # k
      /\ Runner \in Processes /\ Master \in Processes
  <2>1. k \notin Raised
    BY RaisedNext, RaisedSame
       DEF OutboxNext, Callback, SubmitReturns, SubmitRejected,
       Resubmit, Delete, DeleteRows, DeleteFails, Submit, Claim, Persist, Check,
       Send, Record, DeliverUnchanged, jobVars, Crash, Restart, outboxVars
  <2> QED
    BY <2>1, Roles, RaisedFacts DEF NumberedOK
<1>2. ASSUME JobFails
      PROVE  Unknown(k)'
  BY <1>0, <1>2 DEF JobFails, procVars, ghosts, Unknown, Active
<1>3. ASSUME Callback
      PROVE  Unknown(k)'
  <2>1. CASE ~submitting
    <3>1. Enqueue(Runner, callback) /\ callback \in Failures /\ callback # k
      BY <1>0, <1>3, <2>1 DEF Callback
    <3>2. outbox'[k] = "absent" /\ \A q \in Processes : ~Active(q, k)'
      BY <1>0, <3>1, EnqueueKeeps DEF OthersStay, Unknown, Active
    <3> QED
      BY <1>0, <3>2, <1>3, RecordKeeps DEF Callback, Unknown
  <2>2. CASE ~(~submitting)
    BY <1>0, <2>2, <1>3, RecordKeeps DEF Callback, Unknown, Active
  <2> QED
    BY <2>1, <2>2
<1>4. ASSUME SubmitReturns
      PROVE  Unknown(k)'
  <2>1. CASE failed
    <3>1. Enqueue(Master, Latest) /\ Latest \in Failures /\ Latest # k
      BY <1>0, <1>4, <2>1 DEF SubmitReturns
    <3>2. outbox'[k] = "absent" /\ \A q \in Processes : ~Active(q, k)'
      BY <1>0, <3>1, EnqueueKeeps DEF OthersStay, Unknown, Active
    <3> QED
      BY <1>0, <3>2, <1>4, RecordKeeps DEF SubmitReturns, Unknown
  <2>2. CASE ~(failed)
    BY <1>0, <2>2, <1>4, RecordKeeps DEF SubmitReturns, Unknown, Active
  <2> QED
    BY <2>1, <2>2
<1>5. ASSUME SubmitRejected
      PROVE  Unknown(k)'
  <2>1. excuse'[k] = {}
    BY <1>0, <1>5, ExcuseKeeps DEF SubmitRejected, Excuses, Unknown
  <2> QED
    BY <1>0, <2>1, <1>5 DEF SubmitRejected, procVars, Unknown, Active
<1>6. ASSUME Resubmit
      PROVE  Unknown(k)'
  BY <1>0, <1>6 DEF Resubmit, procVars, ghosts, Unknown, Active
<1>7. ASSUME Delete
      PROVE  Unknown(k)'
  <2>1. excuse'[k] = {}
    BY <1>0, <1>7, ExcuseKeeps DEF Delete, Excuses, Unknown
  <2> QED
    BY <1>0, <2>1, <1>7 DEF Delete, procVars, Unknown, Active
<1>8. ASSUME DeleteRows
      PROVE  Unknown(k)'
  <2>1. excuse'[k] = {}
    BY <1>0, <1>8, ExcuseKeeps DEF DeleteRows, Excuses, Unknown
  <2> QED
    BY <1>0, <2>1, <1>8 DEF DeleteRows, procVars, Unknown, Active
<1>9. ASSUME DeleteFails
      PROVE  Unknown(k)'
  BY <1>0, <1>9 DEF DeleteFails, procVars, ghosts, Unknown, Active
<1>10. ASSUME Submit
       PROVE  Unknown(k)'
  BY <1>0, <1>10 DEF Submit, procVars, ghosts, Unknown, Active
<1>11. ASSUME NEW p \in Workers, Claim(p)
       PROVE  Unknown(k)'
  BY <1>0, <1>11 DEF Claim, jobVars, procVars, ghosts, Unknown, Active
<1>12. ASSUME NEW p \in Processes, NEW i \in Failures, Persist(p, i)
       PROVE  Unknown(k)'
  <2>0. i # k
    BY <1>0, <1>12 DEF Persist, Unknown, Active, Outcomes
  <2>1. excuse'[k] = {}
    BY <1>0, <1>12 DEF Persist, ghosts, Unknown
  <2>2. outbox'[k] = "absent"
    BY <1>0, <2>0, <1>12, SaveKeeps DEF Persist, Outcomes, Unknown
  <2>3. received'[k] = 0
    BY <1>0, <2>0, <1>12 DEF Persist, ghosts, Unknown, OutboxTypeOK
  <2>4. k \notin recorded'
    BY <1>0, <2>2, <1>12, RecordKeeps DEF Persist, Unknown
  <2>5. OthersStay(p, i)
    BY <1>12, GoesOn, GoesAway DEF Persist, Outcomes, Places, OthersStay
  <2>6. \A q \in Processes : ~Active(q, k)'
    BY <1>0, <2>0, <2>5 DEF OthersStay, Unknown, Active
  <2> QED
    BY <2>1, <2>2, <2>3, <2>4, <2>6 DEF Unknown
<1>13. ASSUME NEW p \in Processes, NEW i \in Failures, Check(p, i)
       PROVE  Unknown(k)'
  <2>0. i # k
    BY <1>0, <1>13 DEF Check, Unknown, Active, Outcomes
  <2>1. excuse'[k] = {}
    BY <1>0, <1>13 DEF Check, ghosts, Unknown
  <2>2. outbox'[k] = "absent"
    BY <1>0, <1>13 DEF Check, Unknown
  <2>3. received'[k] = 0
    BY <1>0, <2>0, <1>13 DEF Check, ghosts, Unknown, OutboxTypeOK
  <2>4. k \notin recorded'
    BY <1>0, <1>13 DEF Check, ghosts, Unknown
  <2>5. OthersStay(p, i)
    BY <1>13, GoesOn, GoesAway DEF Check, Outcomes, Places, OthersStay
  <2>6. \A q \in Processes : ~Active(q, k)'
    BY <1>0, <2>0, <2>5 DEF OthersStay, Unknown, Active
  <2> QED
    BY <2>1, <2>2, <2>3, <2>4, <2>6 DEF Unknown
<1>14. ASSUME NEW p \in Processes, NEW i \in Failures, Send(p, i)
       PROVE  Unknown(k)'
  <2>0. i # k
    BY <1>0, <1>14 DEF Send, Unknown, Active, Outcomes
  <2>1. excuse'[k] = {}
    BY <1>0, <2>0, <1>14, ExcuseKeeps DEF Send, Excuses, Unknown
  <2>2. outbox'[k] = "absent"
    BY <1>0, <1>14 DEF Send, Unknown
  <2>3. received'[k] = 0
    BY <1>0, <2>0, <1>14 DEF Send, ghosts, Unknown, OutboxTypeOK
  <2>4. k \notin recorded'
    BY <1>0, <1>14 DEF Send, ghosts, Unknown
  <2>5. OthersStay(p, i)
    BY <1>14, GoesOn, GoesAway DEF Send, Outcomes, Places, OthersStay
  <2>6. \A q \in Processes : ~Active(q, k)'
    BY <1>0, <2>0, <2>5 DEF OthersStay, Unknown, Active
  <2> QED
    BY <2>1, <2>2, <2>3, <2>4, <2>6 DEF Unknown
<1>15. ASSUME NEW p \in Processes, NEW i \in Failures, Record(p, i)
       PROVE  Unknown(k)'
  <2>0. i # k
    BY <1>0, <1>15 DEF Record, Unknown, Active, Outcomes
  <2>1. excuse'[k] = {}
    BY <1>0, <1>15 DEF Record, ghosts, Unknown
  <2>2. outbox'[k] = "absent"
    BY <1>0, <2>0, <1>15, SaveKeeps DEF Record, Outcomes, Unknown
  <2>3. received'[k] = 0
    BY <1>0, <2>0, <1>15 DEF Record, ghosts, Unknown, OutboxTypeOK
  <2>4. k \notin recorded'
    BY <1>0, <2>2, <1>15, RecordKeeps DEF Record, Unknown
  <2>5. OthersStay(p, i)
    BY <1>15, GoesOn, GoesAway DEF Record, Outcomes, Places, OthersStay
  <2>6. \A q \in Processes : ~Active(q, k)'
    BY <1>0, <2>0, <2>5 DEF OthersStay, Unknown, Active
  <2> QED
    BY <2>1, <2>2, <2>3, <2>4, <2>6 DEF Unknown
<1>16. ASSUME NEW p \in Processes, Crash(p)
       PROVE  Unknown(k)'
  <2>1. {i \in Raised : outbox[i] = "absent"} \subseteq Failures
    BY <1>0
  <2>2. excuse'[k] = {}
    BY <1>0, <2>1, <1>16, ExcuseKeeps DEF Crash, Excuses, Unknown
  <2>3. \A q \in Processes : ~Active(q, k)'
    BY <1>0, <1>16, GoroutineType DEF Crash, Unknown, Active, NoDelivery
  <2> QED
    BY <1>0, <2>2, <2>3, <1>16 DEF Crash, Unknown
<1>17. ASSUME NEW p \in Processes, Restart(p)
       PROVE  Unknown(k)'
  <2>1. PICK shared \in SUBSET Failures :
           Excuse(shared, "restored") /\ \A j \in shared : outbox[j] = "PENDING"
    BY <1>17 DEF Restart
  <2>2. excuse'[k] = {}
    BY <1>0, <2>1, ExcuseKeeps DEF Excuses, Unknown
  <2>3. \A q \in Processes : ~Active(q, k)'
    BY <1>0, <1>17, GoroutineType DEF Restart, Unknown, Active, NoDelivery
  <2> QED
    BY <1>0, <2>2, <2>3, <1>17 DEF Restart, Unknown
<1>18. ASSUME UNCHANGED outboxVars
      PROVE  Unknown(k)'
  BY <1>0, <1>18 DEF outboxVars, procVars, ghosts, Unknown, Active
<1> QED
  BY <1>2, <1>3, <1>4, <1>5, <1>6, <1>7, <1>8, <1>9, <1>10,
     <1>11, <1>12, <1>13, <1>14, <1>15, <1>16, <1>17, <1>18 DEF OutboxNext

(* Failures are numbered as they happen.                                   *)
LEMMA NumberedStep ==
  ASSUME OutboxTypeOK, NumberedOK, RolesOK,
         [OutboxNext]_outboxVars
  PROVE  NumberedOK'
<1>0. \A k \in Failures \ Raised' : Unknown(k)'
  BY UnknownStep
<1>2. ASSUME JobFails
      PROVE  NumberedOK'
  <2>1. callback' = Latest' /\ Latest' # 0 /\ Latest' \in Nat
    BY <1>2, RaisedNext DEF JobFails, NumberedOK
  <2> QED
    BY <1>0, <2>1, <1>2, RaisedNext DEF NumberedOK
<1>3. ASSUME Callback
      PROVE  NumberedOK'
  <2>1. Raised' = Raised /\ Latest' = Latest
    BY <1>3, RaisedSame DEF Callback
  <2>2. callback' \in {0, callback} /\ (submitting' /\ failed' => submitting /\ failed)
    BY <1>3 DEF Callback, RolesOK
  <2> QED
    BY <1>0, <2>1, <2>2 DEF NumberedOK
<1>4. ASSUME SubmitReturns
      PROVE  NumberedOK'
  <2>1. Raised' = Raised /\ Latest' = Latest
    BY <1>4, RaisedSame DEF SubmitReturns
  <2>2. callback' \in {0, callback} /\ (submitting' /\ failed' => submitting /\ failed)
    BY <1>4 DEF SubmitReturns, RolesOK
  <2> QED
    BY <1>0, <2>1, <2>2 DEF NumberedOK
<1>5. ASSUME SubmitRejected
      PROVE  NumberedOK'
  <2>1. Raised' = Raised /\ Latest' = Latest
    BY <1>5, RaisedSame DEF SubmitRejected
  <2>2. callback' \in {0, callback} /\ (submitting' /\ failed' => submitting /\ failed)
    BY <1>5 DEF SubmitRejected, RolesOK
  <2> QED
    BY <1>0, <2>1, <2>2 DEF NumberedOK
<1>6. ASSUME Resubmit
      PROVE  NumberedOK'
  <2>1. Raised' = Raised /\ Latest' = Latest
    BY <1>6, RaisedSame DEF Resubmit
  <2>2. callback' \in {0, callback} /\ (submitting' /\ failed' => submitting /\ failed)
    BY <1>6 DEF Resubmit, RolesOK
  <2> QED
    BY <1>0, <2>1, <2>2 DEF NumberedOK
<1>7. ASSUME Delete
      PROVE  NumberedOK'
  <2>1. Raised' = Raised /\ Latest' = Latest
    BY <1>7, RaisedSame DEF Delete
  <2>2. callback' \in {0, callback} /\ (submitting' /\ failed' => submitting /\ failed)
    BY <1>7 DEF Delete, RolesOK
  <2> QED
    BY <1>0, <2>1, <2>2 DEF NumberedOK
<1>8. ASSUME DeleteRows
      PROVE  NumberedOK'
  <2>1. Raised' = Raised /\ Latest' = Latest
    BY <1>8, RaisedSame DEF DeleteRows
  <2>2. callback' \in {0, callback} /\ (submitting' /\ failed' => submitting /\ failed)
    BY <1>8 DEF DeleteRows, RolesOK
  <2> QED
    BY <1>0, <2>1, <2>2 DEF NumberedOK
<1>9. ASSUME DeleteFails
      PROVE  NumberedOK'
  <2>1. Raised' = Raised /\ Latest' = Latest
    BY <1>9, RaisedSame DEF DeleteFails
  <2>2. callback' \in {0, callback} /\ (submitting' /\ failed' => submitting /\ failed)
    BY <1>9 DEF DeleteFails, RolesOK
  <2> QED
    BY <1>0, <2>1, <2>2 DEF NumberedOK
<1>10. ASSUME Submit
       PROVE  NumberedOK'
  <2>1. Raised' = Raised /\ Latest' = Latest
    BY <1>10, RaisedSame DEF Submit
  <2>2. callback' \in {0, callback} /\ (submitting' /\ failed' => submitting /\ failed)
    BY <1>10 DEF Submit, RolesOK
  <2> QED
    BY <1>0, <2>1, <2>2 DEF NumberedOK
<1>11. ASSUME NEW p \in Workers, Claim(p)
       PROVE  NumberedOK'
  <2>1. Raised' = Raised /\ Latest' = Latest
    BY <1>11, RaisedSame DEF Claim, jobVars
  <2>2. callback' \in {0, callback} /\ (submitting' /\ failed' => submitting /\ failed)
    BY <1>11 DEF Claim, jobVars, RolesOK
  <2> QED
    BY <1>0, <2>1, <2>2 DEF NumberedOK
<1>12. ASSUME NEW p \in Processes, NEW i \in Failures, Persist(p, i)
       PROVE  NumberedOK'
  <2>1. Raised' = Raised /\ Latest' = Latest
    BY <1>12, RaisedSame DEF Persist, DeliverUnchanged, jobVars
  <2>2. callback' \in {0, callback} /\ (submitting' /\ failed' => submitting /\ failed)
    BY <1>12 DEF Persist, DeliverUnchanged, jobVars, RolesOK
  <2> QED
    BY <1>0, <2>1, <2>2 DEF NumberedOK
<1>13. ASSUME NEW p \in Processes, NEW i \in Failures, Check(p, i)
       PROVE  NumberedOK'
  <2>1. Raised' = Raised /\ Latest' = Latest
    BY <1>13, RaisedSame DEF Check, DeliverUnchanged, jobVars
  <2>2. callback' \in {0, callback} /\ (submitting' /\ failed' => submitting /\ failed)
    BY <1>13 DEF Check, DeliverUnchanged, jobVars, RolesOK
  <2> QED
    BY <1>0, <2>1, <2>2 DEF NumberedOK
<1>14. ASSUME NEW p \in Processes, NEW i \in Failures, Send(p, i)
       PROVE  NumberedOK'
  <2>1. Raised' = Raised /\ Latest' = Latest
    BY <1>14, RaisedSame DEF Send, DeliverUnchanged, jobVars
  <2>2. callback' \in {0, callback} /\ (submitting' /\ failed' => submitting /\ failed)
    BY <1>14 DEF Send, DeliverUnchanged, jobVars, RolesOK
  <2> QED
    BY <1>0, <2>1, <2>2 DEF NumberedOK
<1>15. ASSUME NEW p \in Processes, NEW i \in Failures, Record(p, i)
       PROVE  NumberedOK'
  <2>1. Raised' = Raised /\ Latest' = Latest
    BY <1>15, RaisedSame DEF Record, DeliverUnchanged, jobVars
  <2>2. callback' \in {0, callback} /\ (submitting' /\ failed' => submitting /\ failed)
    BY <1>15 DEF Record, DeliverUnchanged, jobVars, RolesOK
  <2> QED
    BY <1>0, <2>1, <2>2 DEF NumberedOK
<1>16. ASSUME NEW p \in Processes, Crash(p)
       PROVE  NumberedOK'
  <2>1. Raised' = Raised /\ Latest' = Latest
    BY <1>16, RaisedSame DEF Crash
  <2>2. callback' \in {0, callback} /\ (submitting' /\ failed' => submitting /\ failed)
    BY <1>16 DEF Crash, RolesOK
  <2> QED
    BY <1>0, <2>1, <2>2 DEF NumberedOK
<1>17. ASSUME NEW p \in Processes, Restart(p)
       PROVE  NumberedOK'
  <2>1. Raised' = Raised /\ Latest' = Latest
    BY <1>17, RaisedSame DEF Restart, jobVars
  <2>2. callback' \in {0, callback} /\ (submitting' /\ failed' => submitting /\ failed)
    BY <1>17 DEF Restart, jobVars, RolesOK
  <2> QED
    BY <1>0, <2>1, <2>2 DEF NumberedOK
<1>18. ASSUME UNCHANGED outboxVars
      PROVE  NumberedOK'
  <2>1. Raised' = Raised /\ Latest' = Latest
    BY <1>18, RaisedSame DEF outboxVars, jobVars
  <2> QED
    BY <1>0, <1>18, <2>1 DEF NumberedOK, outboxVars, jobVars
<1> QED
  BY <1>2, <1>3, <1>4, <1>5, <1>6, <1>7, <1>8, <1>9, <1>10,
     <1>11, <1>12, <1>13, <1>14, <1>15, <1>16, <1>17, <1>18 DEF OutboxNext

-----------------------------------------------------------------------------
(* Roles and submissions *)

(* No excuse is taken back.                                                *)
LEMMA ExcuseStep ==
  ASSUME OutboxTypeOK, NumberedOK,
         [OutboxNext]_outboxVars
  PROVE  \A k \in Failures : excuse[k] \subseteq excuse'[k]
<1>0. /\ Raised \subseteq Failures /\ (submitting /\ failed => Latest \in Failures)
  BY RaisedFacts DEF NumberedOK
<1>2. ASSUME JobFails
      PROVE  \A k \in Failures : excuse[k] \subseteq excuse'[k]
  BY <1>2 DEF JobFails, ghosts
<1>3. ASSUME Callback
      PROVE  \A k \in Failures : excuse[k] \subseteq excuse'[k]
  BY <1>3 DEF Callback, ghosts
<1>4. ASSUME SubmitReturns
      PROVE  \A k \in Failures : excuse[k] \subseteq excuse'[k]
  BY <1>4 DEF SubmitReturns, ghosts
<1>5. ASSUME SubmitRejected
      PROVE  \A k \in Failures : excuse[k] \subseteq excuse'[k]
  BY <1>0, <1>5, ExcuseKeeps DEF SubmitRejected, Excuses
<1>6. ASSUME Resubmit
      PROVE  \A k \in Failures : excuse[k] \subseteq excuse'[k]
  BY <1>6 DEF Resubmit, ghosts
<1>7. ASSUME Delete
      PROVE  \A k \in Failures : excuse[k] \subseteq excuse'[k]
  BY <1>0, <1>7, ExcuseKeeps DEF Delete, Excuses
<1>8. ASSUME DeleteRows
      PROVE  \A k \in Failures : excuse[k] \subseteq excuse'[k]
  BY <1>0, <1>8, ExcuseKeeps DEF DeleteRows, Excuses
<1>9. ASSUME DeleteFails
      PROVE  \A k \in Failures : excuse[k] \subseteq excuse'[k]
  BY <1>9 DEF DeleteFails, ghosts
<1>10. ASSUME Submit
       PROVE  \A k \in Failures : excuse[k] \subseteq excuse'[k]
  BY <1>10 DEF Submit, ghosts
<1>11. ASSUME NEW p \in Workers, Claim(p)
       PROVE  \A k \in Failures : excuse[k] \subseteq excuse'[k]
  BY <1>11 DEF Claim, ghosts
<1>12. ASSUME NEW p \in Processes, NEW i \in Failures, Persist(p, i)
       PROVE  \A k \in Failures : excuse[k] \subseteq excuse'[k]
  BY <1>12 DEF Persist, ghosts
<1>13. ASSUME NEW p \in Processes, NEW i \in Failures, Check(p, i)
       PROVE  \A k \in Failures : excuse[k] \subseteq excuse'[k]
  BY <1>13 DEF Check, ghosts
<1>14. ASSUME NEW p \in Processes, NEW i \in Failures, Send(p, i)
       PROVE  \A k \in Failures : excuse[k] \subseteq excuse'[k]
  BY <1>14, ExcuseKeeps DEF Send, Excuses
<1>15. ASSUME NEW p \in Processes, NEW i \in Failures, Record(p, i)
       PROVE  \A k \in Failures : excuse[k] \subseteq excuse'[k]
  BY <1>15 DEF Record, ghosts
<1>16. ASSUME NEW p \in Processes, Crash(p)
       PROVE  \A k \in Failures : excuse[k] \subseteq excuse'[k]
  <2>1. {i \in Raised : outbox[i] = "absent"} \subseteq Failures
    BY <1>0
  <2> QED
    BY <2>1, <1>16, ExcuseKeeps DEF Crash, Excuses
<1>17. ASSUME NEW p \in Processes, Restart(p)
       PROVE  \A k \in Failures : excuse[k] \subseteq excuse'[k]
  <2>1. PICK shared \in SUBSET Failures : Excuse(shared, "restored")
    BY <1>17 DEF Restart
  <2> QED
    BY <2>1, ExcuseKeeps DEF Excuses
<1>18. ASSUME UNCHANGED outboxVars
      PROVE  \A k \in Failures : excuse[k] \subseteq excuse'[k]
  BY <1>18 DEF outboxVars, ghosts
<1> QED
  BY <1>2, <1>3, <1>4, <1>5, <1>6, <1>7, <1>8, <1>9, <1>10,
     <1>11, <1>12, <1>13, <1>14, <1>15, <1>16, <1>17, <1>18 DEF OutboxNext

(* No failure becomes plain but the one that happens.                      *)
LEMMA PlainStep ==
  ASSUME OutboxTypeOK, NumberedOK, [OutboxNext]_outboxVars
  PROVE  /\ origin' = origin => Plain' \subseteq Plain
         /\ JobFails => Plain' \subseteq Plain \cup {Latest + 1}
<1>1. origin' = origin => Plain' \subseteq Plain
  BY ExcuseStep, RaisedSame, PlainShrinks
<1>2. JobFails => Plain' \subseteq Plain \cup {Latest + 1}
  BY RaisedNext DEF JobFails, ghosts, Plain, Excused
<1> QED
  BY <1>1, <1>2

(* A rejected submission and a deletion excuse every plain failure, and a  *)
(* new submission finds none.                                              *)
LEMMA PlainGone ==
  ASSUME OutboxTypeOK, NumberedOK, RolesOK, FreshOK,
         SubmitRejected \/ Delete \/ DeleteRows \/ Submit
  PROVE  Plain' = {}
<1>0. /\ Raised \subseteq Failures /\ (submitting /\ failed => Latest \in Failures)
      /\ Plain \subseteq Raised
  BY RaisedFacts DEF NumberedOK, Plain
<1>1. Plain' \subseteq Plain /\ Raised' = Raised
  BY PlainStep, RaisedSame
     DEF SubmitRejected, Delete, DeleteRows, Submit, OutboxNext
<1>2. CASE SubmitRejected
  <2>1. (\A k \in {Latest} : Excused(k)') /\ Plain \subseteq {Latest}
    BY <1>0, <1>2, NowExcused DEF SubmitRejected, Excuses, FreshOK
  <2> QED
    BY <1>1, <2>1 DEF Plain
<1>3. CASE Delete \/ DeleteRows
  <2>1. \A k \in Raised : Excused(k)'
    BY <1>0, <1>3, NowExcused DEF Delete, DeleteRows, Excuses
  <2> QED
    BY <1>1, <2>1 DEF Plain
<1>4. CASE Submit
  BY <1>1, <1>4 DEF Submit, FreshOK
<1> QED
  BY <1>2, <1>3, <1>4

(* Every process keeps to its role.                                        *)
LEMMA RolesStep ==
  ASSUME OutboxTypeOK, NumberedOK, RolesOK,
         [OutboxNext]_outboxVars
  PROVE  RolesOK'
<1>0. /\ Runner \in Running /\ Running \subseteq Processes /\ Master \in Running
      /\ role = "all" => Runner = Master
      /\ role = "split" => Runner = worker
      /\ role' = role => Running' = Running
      /\ role' = role /\ worker' = worker => Runner' = Runner
      /\ role \in {"all", "split"} /\ Runner \in Processes /\ Master # worker
      /\ callback # 0 => callback \in Failures
      /\ submitting /\ failed => Latest \in Failures
  BY Roles, RaisedFacts, OutboxAssumption DEF NumberedOK, OutboxTypeOK
<1>2. ASSUME JobFails
      PROVE  RolesOK'
  <2>1. \A q \in Processes \ Running', k \in Failures : ~Active(q, k)'
    BY <1>0, <1>2 DEF JobFails, procVars, Active, RolesOK
  <2>2. role' = "split" => ~submitting'
    BY <1>2 DEF JobFails, RolesOK
  <2>3. Runner' \notin up' => callback' = 0 /\ ~submitting'
    BY <1>0, <1>2 DEF JobFails, procVars, RolesOK
  <2>4. ~(deleting' /\ submitting')
    BY <1>0, <1>2 DEF JobFails, RolesOK
  <2> QED
    BY <2>1, <2>2, <2>3, <2>4 DEF RolesOK
<1>3. ASSUME Callback
      PROVE  RolesOK'
  <2>1. \A q \in Processes \ Running', k \in Failures : ~Active(q, k)'
    <3>1. CASE ~submitting
      <4>1. Enqueue(Runner, callback) /\ callback \in Failures
        BY <1>0, <1>3, <3>1 DEF Callback
      <4>2. OthersStay(Runner, callback)
        BY <1>0, <4>1, EnqueueKeeps
      <4> QED
        BY <1>0, <4>2, <1>3 DEF OthersStay, Active, RolesOK, Callback
    <3>2. CASE ~(~submitting)
      BY <1>0, <3>2, <1>3 DEF Callback, Active, RolesOK
    <3> QED
      BY <3>1, <3>2
  <2>2. role' = "split" => ~submitting'
    BY <1>3 DEF Callback, RolesOK
  <2>3. Runner' \notin up' => callback' = 0 /\ ~submitting'
    BY <1>0, <1>3 DEF Callback, procVars, RolesOK
  <2>4. ~(deleting' /\ submitting')
    BY <1>0, <1>3 DEF Callback, RolesOK
  <2> QED
    BY <2>1, <2>2, <2>3, <2>4 DEF RolesOK
<1>4. ASSUME SubmitReturns
      PROVE  RolesOK'
  <2>1. \A q \in Processes \ Running', k \in Failures : ~Active(q, k)'
    <3>1. CASE failed
      <4>1. Enqueue(Master, Latest) /\ Latest \in Failures
        BY <1>0, <1>4, <3>1 DEF SubmitReturns
      <4>2. OthersStay(Master, Latest)
        BY <1>0, <4>1, EnqueueKeeps
      <4> QED
        BY <1>0, <4>2, <1>4 DEF OthersStay, Active, RolesOK, SubmitReturns
    <3>2. CASE ~(failed)
      BY <1>0, <3>2, <1>4 DEF SubmitReturns, Active, RolesOK
    <3> QED
      BY <3>1, <3>2
  <2>2. role' = "split" => ~submitting'
    BY <1>4 DEF SubmitReturns, RolesOK
  <2>3. Runner' \notin up' => callback' = 0 /\ ~submitting'
    BY <1>0, <1>4 DEF SubmitReturns, procVars, RolesOK
  <2>4. ~(deleting' /\ submitting')
    BY <1>0, <1>4 DEF SubmitReturns, RolesOK
  <2> QED
    BY <2>1, <2>2, <2>3, <2>4 DEF RolesOK
<1>5. ASSUME SubmitRejected
      PROVE  RolesOK'
  <2>1. \A q \in Processes \ Running', k \in Failures : ~Active(q, k)'
    BY <1>0, <1>5 DEF SubmitRejected, procVars, Active, RolesOK
  <2>2. role' = "split" => ~submitting'
    BY <1>5 DEF SubmitRejected, RolesOK
  <2>3. Runner' \notin up' => callback' = 0 /\ ~submitting'
    BY <1>0, <1>5 DEF SubmitRejected, procVars, RolesOK
  <2>4. ~(deleting' /\ submitting')
    BY <1>0, <1>5 DEF SubmitRejected, RolesOK
  <2> QED
    BY <2>1, <2>2, <2>3, <2>4 DEF RolesOK
<1>6. ASSUME Resubmit
      PROVE  RolesOK'
  <2>1. \A q \in Processes \ Running', k \in Failures : ~Active(q, k)'
    BY <1>0, <1>6 DEF Resubmit, procVars, Active, RolesOK
  <2>2. role' = "split" => ~submitting'
    BY <1>6 DEF Resubmit, RolesOK
  <2>3. Runner' \notin up' => callback' = 0 /\ ~submitting'
    BY <1>0, <1>6 DEF Resubmit, procVars, RolesOK
  <2>4. ~(deleting' /\ submitting')
    BY <1>0, <1>6 DEF Resubmit, RolesOK
  <2> QED
    BY <2>1, <2>2, <2>3, <2>4 DEF RolesOK
<1>7. ASSUME Delete
      PROVE  RolesOK'
  <2>1. \A q \in Processes \ Running', k \in Failures : ~Active(q, k)'
    BY <1>0, <1>7 DEF Delete, procVars, Active, RolesOK
  <2>2. role' = "split" => ~submitting'
    BY <1>7 DEF Delete, RolesOK
  <2>3. Runner' \notin up' => callback' = 0 /\ ~submitting'
    BY <1>0, <1>7 DEF Delete, procVars, RolesOK
  <2>4. ~(deleting' /\ submitting')
    BY <1>0, <1>7 DEF Delete, RolesOK
  <2> QED
    BY <2>1, <2>2, <2>3, <2>4 DEF RolesOK
<1>8. ASSUME DeleteRows
      PROVE  RolesOK'
  <2>1. \A q \in Processes \ Running', k \in Failures : ~Active(q, k)'
    BY <1>0, <1>8 DEF DeleteRows, procVars, Active, RolesOK
  <2>2. role' = "split" => ~submitting'
    BY <1>8 DEF DeleteRows, RolesOK
  <2>3. Runner' \notin up' => callback' = 0 /\ ~submitting'
    BY <1>0, <1>8 DEF DeleteRows, procVars, RolesOK
  <2>4. ~(deleting' /\ submitting')
    BY <1>0, <1>8 DEF DeleteRows, RolesOK
  <2> QED
    BY <2>1, <2>2, <2>3, <2>4 DEF RolesOK
<1>9. ASSUME DeleteFails
      PROVE  RolesOK'
  <2>1. \A q \in Processes \ Running', k \in Failures : ~Active(q, k)'
    BY <1>0, <1>9 DEF DeleteFails, procVars, Active, RolesOK
  <2>2. role' = "split" => ~submitting'
    BY <1>9 DEF DeleteFails, RolesOK
  <2>3. Runner' \notin up' => callback' = 0 /\ ~submitting'
    BY <1>0, <1>9 DEF DeleteFails, procVars, RolesOK
  <2>4. ~(deleting' /\ submitting')
    BY <1>0, <1>9 DEF DeleteFails, RolesOK
  <2> QED
    BY <2>1, <2>2, <2>3, <2>4 DEF RolesOK
<1>10. ASSUME Submit
       PROVE  RolesOK'
  <2>1. \A q \in Processes \ Running', k \in Failures : ~Active(q, k)'
    BY <1>0, <1>10 DEF Submit, procVars, Active, RolesOK
  <2>2. role' = "split" => ~submitting'
    BY <1>10 DEF Submit, RolesOK
  <2>3. Runner' \notin up' => callback' = 0 /\ ~submitting'
    BY <1>0, <1>10 DEF Submit, procVars, RolesOK
  <2>4. ~(deleting' /\ submitting')
    BY <1>0, <1>10 DEF Submit, RolesOK
  <2> QED
    BY <2>1, <2>2, <2>3, <2>4 DEF RolesOK
<1>11. ASSUME NEW p \in Workers, Claim(p)
       PROVE  RolesOK'
  <2>1. \A q \in Processes \ Running', k \in Failures : ~Active(q, k)'
    BY <1>0, <1>11 DEF Claim, jobVars, procVars, Active, RolesOK
  <2>2. role' = "split" => ~submitting'
    BY <1>11 DEF Claim, jobVars, RolesOK
  <2>3. Runner' \notin up' => callback' = 0 /\ ~submitting'
    BY <1>0, <1>11 DEF Claim, jobVars, procVars, RolesOK
  <2>4. ~(deleting' /\ submitting')
    BY <1>0, <1>11 DEF Claim, jobVars, RolesOK
  <2> QED
    BY <2>1, <2>2, <2>3, <2>4 DEF RolesOK
<1>12. ASSUME NEW p \in Processes, NEW i \in Failures, Persist(p, i)
       PROVE  RolesOK'
  <2>1. \A q \in Processes \ Running', k \in Failures : ~Active(q, k)'
    <3>1. OthersStay(p, i) /\ Active(p, i)
      BY <1>12, GoesOn, GoesAway
         DEF Persist, Outcomes, Places, OthersStay, Active
    <3> QED
      BY <1>0, <3>1, <1>12
         DEF OthersStay, Active, RolesOK, Persist, DeliverUnchanged, jobVars
  <2>2. role' = "split" => ~submitting'
    BY <1>12 DEF Persist, DeliverUnchanged, jobVars, RolesOK
  <2>3. Runner' \notin up' => callback' = 0 /\ ~submitting'
    BY <1>0, <1>12 DEF Persist, DeliverUnchanged, jobVars, procVars, RolesOK
  <2>4. ~(deleting' /\ submitting')
    BY <1>0, <1>12 DEF Persist, DeliverUnchanged, jobVars, RolesOK
  <2> QED
    BY <2>1, <2>2, <2>3, <2>4 DEF RolesOK
<1>13. ASSUME NEW p \in Processes, NEW i \in Failures, Check(p, i)
       PROVE  RolesOK'
  <2>1. \A q \in Processes \ Running', k \in Failures : ~Active(q, k)'
    <3>1. OthersStay(p, i) /\ Active(p, i)
      BY <1>13, GoesOn, GoesAway
         DEF Check, Outcomes, Places, OthersStay, Active
    <3> QED
      BY <1>0, <3>1, <1>13
         DEF OthersStay, Active, RolesOK, Check, DeliverUnchanged, jobVars
  <2>2. role' = "split" => ~submitting'
    BY <1>13 DEF Check, DeliverUnchanged, jobVars, RolesOK
  <2>3. Runner' \notin up' => callback' = 0 /\ ~submitting'
    BY <1>0, <1>13 DEF Check, DeliverUnchanged, jobVars, procVars, RolesOK
  <2>4. ~(deleting' /\ submitting')
    BY <1>0, <1>13 DEF Check, DeliverUnchanged, jobVars, RolesOK
  <2> QED
    BY <2>1, <2>2, <2>3, <2>4 DEF RolesOK
<1>14. ASSUME NEW p \in Processes, NEW i \in Failures, Send(p, i)
       PROVE  RolesOK'
  <2>1. \A q \in Processes \ Running', k \in Failures : ~Active(q, k)'
    <3>1. OthersStay(p, i) /\ Active(p, i)
      BY <1>14, GoesOn, GoesAway DEF Send, Outcomes, Places, OthersStay, Active
    <3> QED
      BY <1>0, <3>1, <1>14
         DEF OthersStay, Active, RolesOK, Send, DeliverUnchanged, jobVars
  <2>2. role' = "split" => ~submitting'
    BY <1>14 DEF Send, DeliverUnchanged, jobVars, RolesOK
  <2>3. Runner' \notin up' => callback' = 0 /\ ~submitting'
    BY <1>0, <1>14 DEF Send, DeliverUnchanged, jobVars, procVars, RolesOK
  <2>4. ~(deleting' /\ submitting')
    BY <1>0, <1>14 DEF Send, DeliverUnchanged, jobVars, RolesOK
  <2> QED
    BY <2>1, <2>2, <2>3, <2>4 DEF RolesOK
<1>15. ASSUME NEW p \in Processes, NEW i \in Failures, Record(p, i)
       PROVE  RolesOK'
  <2>1. \A q \in Processes \ Running', k \in Failures : ~Active(q, k)'
    <3>1. OthersStay(p, i) /\ Active(p, i)
      BY <1>15, GoesOn, GoesAway
         DEF Record, Outcomes, Places, OthersStay, Active
    <3> QED
      BY <1>0, <3>1, <1>15
         DEF OthersStay, Active, RolesOK, Record, DeliverUnchanged, jobVars
  <2>2. role' = "split" => ~submitting'
    BY <1>15 DEF Record, DeliverUnchanged, jobVars, RolesOK
  <2>3. Runner' \notin up' => callback' = 0 /\ ~submitting'
    BY <1>0, <1>15 DEF Record, DeliverUnchanged, jobVars, procVars, RolesOK
  <2>4. ~(deleting' /\ submitting')
    BY <1>0, <1>15 DEF Record, DeliverUnchanged, jobVars, RolesOK
  <2> QED
    BY <2>1, <2>2, <2>3, <2>4 DEF RolesOK
<1>16. ASSUME NEW p \in Processes, Crash(p)
       PROVE  RolesOK'
  <2>1. \A q \in Processes \ Running', k \in Failures : ~Active(q, k)'
    BY <1>0, <1>16, GoroutineType DEF Crash, Active, RolesOK, NoDelivery
  <2>2. role' = "split" => ~submitting'
    BY <1>16 DEF Crash, RolesOK
  <2>3. Runner' \notin up' => callback' = 0 /\ ~submitting'
    BY <1>0, <1>16 DEF Crash, procVars, RolesOK
  <2>4. ~(deleting' /\ submitting')
    BY <1>0, <1>16 DEF Crash, RolesOK
  <2> QED
    BY <2>1, <2>2, <2>3, <2>4 DEF RolesOK
<1>17. ASSUME NEW p \in Processes, Restart(p)
       PROVE  RolesOK'
  <2>1. \A q \in Processes \ Running', k \in Failures : ~Active(q, k)'
    BY <1>0, <1>17, GoroutineType DEF Restart, Active, RolesOK, NoDelivery
  <2>2. role' = "split" => ~submitting'
    BY <1>17 DEF Restart, jobVars, RolesOK
  <2>3. Runner' \notin up' => callback' = 0 /\ ~submitting'
    BY <1>0, <1>17 DEF Restart, jobVars, procVars, RolesOK
  <2>4. ~(deleting' /\ submitting')
    BY <1>0, <1>17 DEF Restart, jobVars, RolesOK
  <2> QED
    BY <2>1, <2>2, <2>3, <2>4 DEF RolesOK
<1>18. ASSUME UNCHANGED outboxVars
      PROVE  RolesOK'
  BY <1>0, <1>18 DEF outboxVars, jobVars, procVars, Active, RolesOK
<1> QED
  BY <1>2, <1>3, <1>4, <1>5, <1>6, <1>7, <1>8, <1>9, <1>10,
     <1>11, <1>12, <1>13, <1>14, <1>15, <1>16, <1>17, <1>18 DEF OutboxNext

(* A submission that is made, or is gone, has no failure left to tell.     *)
LEMMA FreshStep ==
  ASSUME OutboxTypeOK, NumberedOK, RolesOK, FreshOK,
         [OutboxNext]_outboxVars
  PROVE  FreshOK'
<1>0. /\ Raised \subseteq Failures /\ (submitting /\ failed => Latest \in Failures)
  BY RaisedFacts DEF NumberedOK
<1>2. ASSUME JobFails
      PROVE  FreshOK'
  BY <1>0, <1>2, PlainStep, RaisedNext DEF JobFails, FreshOK
<1>3. ASSUME Callback
      PROVE  FreshOK'
  <2>1. Plain' \subseteq Plain /\ Latest' = Latest
    BY <1>3, PlainStep, RaisedSame DEF Callback
  <2> QED
    BY <2>1, <1>3 DEF Callback, FreshOK, RolesOK
<1>4. ASSUME SubmitReturns
      PROVE  FreshOK'
  <2>1. Plain' \subseteq Plain /\ Latest' = Latest
    BY <1>4, PlainStep, RaisedSame DEF SubmitReturns
  <2> QED
    BY <2>1, <1>4 DEF SubmitReturns, FreshOK, RolesOK
<1>5. ASSUME SubmitRejected
      PROVE  FreshOK'
  BY <1>0, <1>5, PlainGone DEF FreshOK
<1>6. ASSUME Resubmit
      PROVE  FreshOK'
  <2>1. Plain' \subseteq Plain /\ Latest' = Latest
    BY <1>6, PlainStep, RaisedSame DEF Resubmit
  <2> QED
    BY <2>1, <1>6 DEF Resubmit, FreshOK, RolesOK
<1>7. ASSUME Delete
      PROVE  FreshOK'
  BY <1>0, <1>7, PlainGone DEF FreshOK
<1>8. ASSUME DeleteRows
      PROVE  FreshOK'
  BY <1>0, <1>8, PlainGone DEF FreshOK
<1>9. ASSUME DeleteFails
      PROVE  FreshOK'
  <2>1. Plain' \subseteq Plain /\ Latest' = Latest
    BY <1>9, PlainStep, RaisedSame DEF DeleteFails
  <2> QED
    BY <2>1, <1>9 DEF DeleteFails, FreshOK, RolesOK
<1>10. ASSUME Submit
       PROVE  FreshOK'
  BY <1>0, <1>10, PlainGone DEF FreshOK
<1>11. ASSUME NEW p \in Workers, Claim(p)
       PROVE  FreshOK'
  <2>1. Plain' \subseteq Plain /\ Latest' = Latest
    BY <1>11, PlainStep, RaisedSame DEF Claim, jobVars
  <2> QED
    BY <2>1, <1>11 DEF Claim, jobVars, FreshOK, RolesOK
<1>12. ASSUME NEW p \in Processes, NEW i \in Failures, Persist(p, i)
       PROVE  FreshOK'
  <2>1. Plain' \subseteq Plain /\ Latest' = Latest
    BY <1>12, PlainStep, RaisedSame DEF Persist, DeliverUnchanged, jobVars
  <2> QED
    BY <2>1, <1>12 DEF Persist, DeliverUnchanged, jobVars, FreshOK, RolesOK
<1>13. ASSUME NEW p \in Processes, NEW i \in Failures, Check(p, i)
       PROVE  FreshOK'
  <2>1. Plain' \subseteq Plain /\ Latest' = Latest
    BY <1>13, PlainStep, RaisedSame DEF Check, DeliverUnchanged, jobVars
  <2> QED
    BY <2>1, <1>13 DEF Check, DeliverUnchanged, jobVars, FreshOK, RolesOK
<1>14. ASSUME NEW p \in Processes, NEW i \in Failures, Send(p, i)
       PROVE  FreshOK'
  <2>1. Plain' \subseteq Plain /\ Latest' = Latest
    BY <1>14, PlainStep, RaisedSame DEF Send, DeliverUnchanged, jobVars
  <2> QED
    BY <2>1, <1>14 DEF Send, DeliverUnchanged, jobVars, FreshOK, RolesOK
<1>15. ASSUME NEW p \in Processes, NEW i \in Failures, Record(p, i)
       PROVE  FreshOK'
  <2>1. Plain' \subseteq Plain /\ Latest' = Latest
    BY <1>15, PlainStep, RaisedSame DEF Record, DeliverUnchanged, jobVars
  <2> QED
    BY <2>1, <1>15 DEF Record, DeliverUnchanged, jobVars, FreshOK, RolesOK
<1>16. ASSUME NEW p \in Processes, Crash(p)
       PROVE  FreshOK'
  <2>1. Plain' \subseteq Plain /\ Latest' = Latest
    BY <1>16, PlainStep, RaisedSame DEF Crash
  <2> QED
    BY <2>1, <1>16 DEF Crash, FreshOK, RolesOK
<1>17. ASSUME NEW p \in Processes, Restart(p)
       PROVE  FreshOK'
  <2>1. Plain' \subseteq Plain /\ Latest' = Latest
    BY <1>17, PlainStep, RaisedSame DEF Restart, jobVars
  <2> QED
    BY <2>1, <1>17 DEF Restart, jobVars, FreshOK, RolesOK
<1>18. ASSUME UNCHANGED outboxVars
      PROVE  FreshOK'
  <2>1. Plain' \subseteq Plain /\ Latest' = Latest
    BY <1>18, PlainStep, RaisedSame DEF outboxVars, jobVars
  <2> QED
    BY <2>1, <1>18 DEF outboxVars, jobVars, FreshOK
<1> QED
  BY <1>2, <1>3, <1>4, <1>5, <1>6, <1>7, <1>8, <1>9, <1>10,
     <1>11, <1>12, <1>13, <1>14, <1>15, <1>16, <1>17, <1>18 DEF OutboxNext

-----------------------------------------------------------------------------
(* Records *)

(* A row that was SENT stays SENT.                                         *)
LEMMA RecordedStep ==
  ASSUME OutboxTypeOK, NumberedOK, RolesOK, FreshOK, CarriedOK,
         NEW k \in Plain',
         [OutboxNext]_outboxVars
  PROVE  k \in recorded' => outbox'[k] = "SENT"
<1>0. /\ k \in Failures /\ k \in Plain'
      /\ Runner \in Processes /\ Master \in Processes /\ Workers \subseteq Processes
      /\ callback # 0 => callback \in Failures
      /\ submitting /\ failed => Latest \in Failures
  BY Roles, RaisedFacts DEF NumberedOK, Plain, Raised
<1>2. ASSUME JobFails
      PROVE  k \in recorded' => outbox'[k] = "SENT"
  <2>1. CASE k = Latest + 1
    <3>1. Unknown(k)
      BY <1>0, <1>2, <2>1, RaisedNext, RaisedFacts DEF NumberedOK
    <3> QED
      BY <1>2, <3>1 DEF JobFails, ghosts, Unknown
  <2>2. CASE k # Latest + 1
    BY <1>0, <1>2, <2>2, PlainStep DEF JobFails, ghosts, CarriedOK, Carried
  <2> QED
    BY <2>1, <2>2
<1>3. ASSUME Callback
      PROVE  k \in recorded' => outbox'[k] = "SENT"
  <2>1. k \in recorded => outbox[k] = "SENT"
    BY <1>0, <1>3, PlainStep DEF Callback, CarriedOK, Carried
  <2>2. outbox[k] = "SENT" => outbox'[k] = "SENT"
    <3>1. CASE ~submitting
      <4>1. Enqueue(Runner, callback) /\ callback \in Failures
        BY <1>0, <1>3, <3>1 DEF Callback
      <4> QED
        BY <1>0, <4>1, EnqueueKeeps DEF Settled
    <3>2. CASE ~(~submitting)
      BY <1>3, <3>2 DEF Callback
    <3> QED
      BY <3>1, <3>2
  <2> QED
    BY <1>0, <2>1, <2>2, <1>3, RecordKeeps DEF Callback
<1>4. ASSUME SubmitReturns
      PROVE  k \in recorded' => outbox'[k] = "SENT"
  <2>1. k \in recorded => outbox[k] = "SENT"
    BY <1>0, <1>4, PlainStep DEF SubmitReturns, CarriedOK, Carried
  <2>2. outbox[k] = "SENT" => outbox'[k] = "SENT"
    <3>1. CASE failed
      <4>1. Enqueue(Master, Latest) /\ Latest \in Failures
        BY <1>0, <1>4, <3>1 DEF SubmitReturns
      <4> QED
        BY <1>0, <4>1, EnqueueKeeps DEF Settled
    <3>2. CASE ~(failed)
      BY <1>4, <3>2 DEF SubmitReturns
    <3> QED
      BY <3>1, <3>2
  <2> QED
    BY <1>0, <2>1, <2>2, <1>4, RecordKeeps DEF SubmitReturns
<1>5. ASSUME SubmitRejected
      PROVE  k \in recorded' => outbox'[k] = "SENT"
  BY <1>0, <1>5, PlainGone
<1>6. ASSUME Resubmit
      PROVE  k \in recorded' => outbox'[k] = "SENT"
  <2>1. k \in recorded => outbox[k] = "SENT"
    BY <1>0, <1>6, PlainStep DEF Resubmit, CarriedOK, Carried
  <2> QED
    BY <2>1, <1>6 DEF Resubmit, ghosts
<1>7. ASSUME Delete
      PROVE  k \in recorded' => outbox'[k] = "SENT"
  BY <1>0, <1>7, PlainGone
<1>8. ASSUME DeleteRows
      PROVE  k \in recorded' => outbox'[k] = "SENT"
  BY <1>0, <1>8, PlainGone
<1>9. ASSUME DeleteFails
      PROVE  k \in recorded' => outbox'[k] = "SENT"
  <2>1. k \in recorded => outbox[k] = "SENT"
    BY <1>0, <1>9, PlainStep DEF DeleteFails, CarriedOK, Carried
  <2> QED
    BY <2>1, <1>9 DEF DeleteFails, ghosts
<1>10. ASSUME Submit
       PROVE  k \in recorded' => outbox'[k] = "SENT"
  BY <1>0, <1>10, PlainGone
<1>11. ASSUME NEW p \in Workers, Claim(p)
       PROVE  k \in recorded' => outbox'[k] = "SENT"
  <2>1. k \in recorded => outbox[k] = "SENT"
    BY <1>0, <1>11, PlainStep DEF Claim, jobVars, CarriedOK, Carried
  <2> QED
    BY <2>1, <1>11 DEF Claim, jobVars, ghosts
<1>12. ASSUME NEW p \in Processes, NEW i \in Failures, Persist(p, i)
       PROVE  k \in recorded' => outbox'[k] = "SENT"
  <2>1. k \in recorded => outbox[k] = "SENT"
    BY <1>0, <1>12, PlainStep
       DEF Persist, DeliverUnchanged, jobVars, CarriedOK, Carried
  <2>2. outbox[k] = "SENT" => outbox'[k] = "SENT"
    BY <1>0, <1>12, SaveKeeps DEF Persist, Outcomes, Settled
  <2> QED
    BY <1>0, <2>1, <2>2, <1>12, RecordKeeps DEF Persist
<1>13. ASSUME NEW p \in Processes, NEW i \in Failures, Check(p, i)
       PROVE  k \in recorded' => outbox'[k] = "SENT"
  <2>1. k \in recorded => outbox[k] = "SENT"
    BY <1>0, <1>13, PlainStep
       DEF Check, DeliverUnchanged, jobVars, CarriedOK, Carried
  <2> QED
    BY <2>1, <1>13 DEF Check, DeliverUnchanged, jobVars, ghosts
<1>14. ASSUME NEW p \in Processes, NEW i \in Failures, Send(p, i)
       PROVE  k \in recorded' => outbox'[k] = "SENT"
  <2>1. k \in recorded => outbox[k] = "SENT"
    BY <1>0, <1>14, PlainStep
       DEF Send, DeliverUnchanged, jobVars, CarriedOK, Carried
  <2> QED
    BY <2>1, <1>14 DEF Send, DeliverUnchanged, jobVars, ghosts
<1>15. ASSUME NEW p \in Processes, NEW i \in Failures, Record(p, i)
       PROVE  k \in recorded' => outbox'[k] = "SENT"
  <2>1. k \in recorded => outbox[k] = "SENT"
    BY <1>0, <1>15, PlainStep
       DEF Record, DeliverUnchanged, jobVars, CarriedOK, Carried
  <2>2. outbox[k] = "SENT" => outbox'[k] = "SENT"
    BY <1>0, <1>15, SaveKeeps DEF Record, Outcomes, Settled
  <2> QED
    BY <1>0, <2>1, <2>2, <1>15, RecordKeeps DEF Record
<1>16. ASSUME NEW p \in Processes, Crash(p)
       PROVE  k \in recorded' => outbox'[k] = "SENT"
  <2>1. k \in recorded => outbox[k] = "SENT"
    BY <1>0, <1>16, PlainStep DEF Crash, CarriedOK, Carried
  <2> QED
    BY <2>1, <1>16 DEF Crash, ghosts
<1>17. ASSUME NEW p \in Processes, Restart(p)
       PROVE  k \in recorded' => outbox'[k] = "SENT"
  <2>1. k \in recorded => outbox[k] = "SENT"
    BY <1>0, <1>17, PlainStep DEF Restart, jobVars, CarriedOK, Carried
  <2> QED
    BY <2>1, <1>17 DEF Restart, jobVars, ghosts
<1>18. ASSUME UNCHANGED outboxVars
      PROVE  k \in recorded' => outbox'[k] = "SENT"
  <2>1. k \in recorded => outbox[k] = "SENT"
    BY <1>0, <1>18, PlainStep DEF outboxVars, jobVars, CarriedOK, Carried
  <2> QED
    BY <2>1, <1>18 DEF outboxVars, ghosts
<1> QED
  BY <1>2, <1>3, <1>4, <1>5, <1>6, <1>7, <1>8, <1>9, <1>10,
     <1>11, <1>12, <1>13, <1>14, <1>15, <1>16, <1>17, <1>18 DEF OutboxNext

(* In split roles nobody knows of a failure before its callback.           *)
LEMMA FirstStep ==
  ASSUME OutboxTypeOK, NumberedOK, RolesOK, FreshOK, FirstOK,
         NEW k \in Plain',
         [OutboxNext]_outboxVars
  PROVE  First(k)'
<1>0. k \in Failures /\ k \in Plain' /\ k # 0
  BY RaisedFacts, OutboxAssumption DEF Plain, Raised, Failures
<1>2. ASSUME JobFails
      PROVE  First(k)'
  <2>1. CASE k = Latest + 1
    <3>1. Unknown(k)
      BY <1>0, <1>2, <2>1, RaisedNext, RaisedFacts DEF NumberedOK
    <3> QED
      BY <1>2, <3>1 DEF JobFails, procVars, Unknown, Active, First
  <2>2. CASE k # Latest + 1
    BY <1>2, <2>2 DEF JobFails, First
  <2> QED
    BY <2>1, <2>2
<1>3. ASSUME Callback
      PROVE  First(k)'
  BY <1>0, <1>3 DEF Callback, First
<1>4. ASSUME SubmitReturns
      PROVE  First(k)'
  BY <1>4 DEF SubmitReturns, RolesOK, First
<1>5. ASSUME SubmitRejected
      PROVE  First(k)'
  BY <1>0, <1>5, PlainGone
<1>6. ASSUME Resubmit
      PROVE  First(k)'
  <2>1. First(k)
    BY <1>0, <1>6, PlainStep DEF Resubmit, FirstOK
  <2> QED
    BY <2>1, <1>6 DEF Resubmit, procVars, First, Active
<1>7. ASSUME Delete
      PROVE  First(k)'
  BY <1>0, <1>7, PlainGone
<1>8. ASSUME DeleteRows
      PROVE  First(k)'
  BY <1>0, <1>8, PlainGone
<1>9. ASSUME DeleteFails
      PROVE  First(k)'
  <2>1. First(k)
    BY <1>0, <1>9, PlainStep DEF DeleteFails, FirstOK
  <2> QED
    BY <2>1, <1>9 DEF DeleteFails, procVars, First, Active
<1>10. ASSUME Submit
       PROVE  First(k)'
  BY <1>0, <1>10, PlainGone
<1>11. ASSUME NEW p \in Workers, Claim(p)
       PROVE  First(k)'
  <2>1. First(k)
    BY <1>0, <1>11, PlainStep DEF Claim, jobVars, FirstOK
  <2> QED
    BY <2>1, <1>11 DEF Claim, jobVars, procVars, First, Active
<1>12. ASSUME NEW p \in Processes, NEW i \in Failures, Persist(p, i)
       PROVE  First(k)'
  <2>1. First(k)
    BY <1>0, <1>12, PlainStep DEF Persist, DeliverUnchanged, jobVars, FirstOK
  <2>2. i = k \/ (outbox'[k] = outbox[k] /\ OthersStay(p, i))
    <3>1. OthersStay(p, i)
      BY <1>12, GoesOn, GoesAway DEF Persist, Outcomes, Places, OthersStay
    <3>2. i # k => outbox'[k] = outbox[k]
      BY <1>0, <1>12, SaveKeeps DEF Persist, Outcomes
    <3> QED
      BY <3>1, <3>2
  <2>3. Active(p, i) /\ callback' = callback /\ role' = role
    BY <1>12 DEF Persist, DeliverUnchanged, jobVars, Active, Outcomes
  <2> QED
    BY <1>0, <2>1, <2>2, <2>3 DEF First, OthersStay, Active
<1>13. ASSUME NEW p \in Processes, NEW i \in Failures, Check(p, i)
       PROVE  First(k)'
  <2>1. First(k)
    BY <1>0, <1>13, PlainStep DEF Check, DeliverUnchanged, jobVars, FirstOK
  <2>2. i = k \/ (outbox'[k] = outbox[k] /\ OthersStay(p, i))
    <3>1. OthersStay(p, i)
      BY <1>13, GoesOn, GoesAway DEF Check, Outcomes, Places, OthersStay
    <3>2. i # k => outbox'[k] = outbox[k]
      BY <1>13 DEF Check
    <3> QED
      BY <3>1, <3>2
  <2>3. Active(p, i) /\ callback' = callback /\ role' = role
    BY <1>13 DEF Check, DeliverUnchanged, jobVars, Active, Outcomes
  <2> QED
    BY <1>0, <2>1, <2>2, <2>3 DEF First, OthersStay, Active
<1>14. ASSUME NEW p \in Processes, NEW i \in Failures, Send(p, i)
       PROVE  First(k)'
  <2>1. First(k)
    BY <1>0, <1>14, PlainStep DEF Send, DeliverUnchanged, jobVars, FirstOK
  <2>2. i = k \/ (outbox'[k] = outbox[k] /\ OthersStay(p, i))
    <3>1. OthersStay(p, i)
      BY <1>14, GoesOn, GoesAway DEF Send, Outcomes, Places, OthersStay
    <3>2. i # k => outbox'[k] = outbox[k]
      BY <1>14 DEF Send
    <3> QED
      BY <3>1, <3>2
  <2>3. Active(p, i) /\ callback' = callback /\ role' = role
    BY <1>14 DEF Send, DeliverUnchanged, jobVars, Active, Outcomes
  <2> QED
    BY <1>0, <2>1, <2>2, <2>3 DEF First, OthersStay, Active
<1>15. ASSUME NEW p \in Processes, NEW i \in Failures, Record(p, i)
       PROVE  First(k)'
  <2>1. First(k)
    BY <1>0, <1>15, PlainStep DEF Record, DeliverUnchanged, jobVars, FirstOK
  <2>2. i = k \/ (outbox'[k] = outbox[k] /\ OthersStay(p, i))
    <3>1. OthersStay(p, i)
      BY <1>15, GoesOn, GoesAway DEF Record, Outcomes, Places, OthersStay
    <3>2. i # k => outbox'[k] = outbox[k]
      BY <1>0, <1>15, SaveKeeps DEF Record
    <3> QED
      BY <3>1, <3>2
  <2>3. Active(p, i) /\ callback' = callback /\ role' = role
    BY <1>15 DEF Record, DeliverUnchanged, jobVars, Active, Outcomes
  <2> QED
    BY <1>0, <2>1, <2>2, <2>3 DEF First, OthersStay, Active
<1>16. ASSUME NEW p \in Processes, Crash(p)
       PROVE  First(k)'
  <2>1. First(k)
    BY <1>0, <1>16, PlainStep DEF Crash, FirstOK
  <2> QED
    BY <1>0, <2>1, <1>16, GoroutineType DEF Crash, First, Active, NoDelivery
<1>17. ASSUME NEW p \in Processes, Restart(p)
       PROVE  First(k)'
  <2>1. First(k)
    BY <1>0, <1>17, PlainStep DEF Restart, jobVars, FirstOK
  <2> QED
    BY <1>0, <2>1, <1>17, GoroutineType
       DEF Restart, jobVars, First, Active, NoDelivery
<1>18. ASSUME UNCHANGED outboxVars
      PROVE  First(k)'
  <2>1. First(k)
    BY <1>0, <1>18, PlainStep DEF outboxVars, jobVars, FirstOK
  <2> QED
    BY <2>1, <1>18 DEF outboxVars, jobVars, procVars, First, Active
<1> QED
  BY <1>2, <1>3, <1>4, <1>5, <1>6, <1>7, <1>8, <1>9, <1>10,
     <1>11, <1>12, <1>13, <1>14, <1>15, <1>16, <1>17, <1>18 DEF OutboxNext

-----------------------------------------------------------------------------
(* Who carries a failure *)

(* What is carried stays carried when nobody begins to carry it, and what  *)
(* will still enqueue it finds in its process what it would have found.    *)
LEMMA CarriedSame ==
  ASSUME OutboxTypeOK, NEW k \in Failures, Carried(k), role' = role,
         Due(k)' => worker' = worker,
         received'[k] = received[k],
         \A q \in Processes : delivery'[q][k] = delivery[q][k] \/ ~Active(q, k)',
         Due(k)' => /\ Due(k) /\ delivery'[Runner][k] = delivery[Runner][k]
                    /\ k \in completed[Runner] => k \in completed'[Runner],
         k \in recorded' => outbox'[k] = "SENT"
  PROVE  Carried(k)'
<1>1. Runner \in Processes /\ (Due(k)' => Runner' = Runner)
  BY Roles
<1>2. received'[k] <= 1
  BY DEF Carried
<1>3. \A p, q \in Processes : Active(p, k)' /\ Active(q, k)' => p = q
  BY DEF Carried, Active
<1>4. received'[k] = 1 => \A q \in Processes : delivery'[q][k].at \in {"none", "SENT"}
  BY DEF Carried, Active
<1>5. received'[k] = 1 /\ Due(k)' => Active(Runner, k)' \/ k \in completed'[Runner]
  BY <1>1 DEF Carried, Active
<1> QED
  BY <1>1, <1>2, <1>3, <1>4, <1>5 DEF Carried, Active

(* A failure that is not told yet may be moved by the goroutine that       *)
(* carries it.                                                             *)
LEMMA CarriedUntold ==
  ASSUME OutboxTypeOK, NEW k \in Failures, Carried(k),
         NEW p \in Processes, Active(p, k), OthersStay(p, k),
         received[k] # 1, received'[k] = received[k],
         k \in recorded' => outbox'[k] = "SENT"
  PROVE  Carried(k)'
<1>1. \A q \in Processes : Active(q, k)' => q = p
  BY DEF Carried, Active, OthersStay
<1> QED
  BY <1>1 DEF Carried, Active

(* A failure that is told is not taken up again, and one that is not told  *)
(* has one goroutine when it is enqueued.                                  *)
LEMMA CarriedEnqueue ==
  ASSUME OutboxTypeOK, NEW k \in Failures, Carried(k), Due(k),
         Enqueue(Runner, k), role' = role, worker' = worker, completed' = completed,
         received' = received,
         \A q \in Processes : Active(q, k) => q = Runner,
         k \in recorded' => outbox'[k] = "SENT"
  PROVE  Carried(k)'
<1>1. Runner' = Runner /\ Runner \in Processes
  BY Roles
<1>2. OthersStay(Runner, k)
  BY <1>1, EnqueueKeeps
<1>3. CASE received[k] = 1
  <2>1. delivery'[Runner][k] = delivery[Runner][k]
    BY <1>1, <1>3, EnqueueKeeps DEF Carried, MaySchedule
  <2>2. \A q \in Processes : delivery'[q][k] = delivery[q][k]
    BY <1>2, <2>1 DEF OthersStay
  <2> QED
    BY <2>2, CarriedSame, <1>1
<1>4. CASE received[k] # 1
  <2>1. \A q \in Processes : Active(q, k)' => q = Runner
    BY <1>2 DEF OthersStay, Active
  <2> QED
    BY <1>4, <2>1 DEF Carried, Active
<1> QED
  BY <1>3, <1>4

(* A failure that needs no excuse is told at most once.                    *)
LEMMA CarriedStep ==
  ASSUME OutboxTypeOK, NumberedOK, RolesOK, FreshOK, CarriedOK, FirstOK,
         NEW k \in Plain',
         [OutboxNext]_outboxVars
  PROVE  Carried(k)'
<1>0. /\ k \in Failures /\ k \in Plain' /\ k # 0
      /\ Runner \in Processes /\ Master \in Processes /\ Workers \subseteq Processes
      /\ Master # worker /\ role \in {"all", "split"}
      /\ role = "all" => Runner = Master /\ Running = {Master}
      /\ role = "split" => Runner = worker /\ Running = Processes
      /\ callback # 0 => callback \in Failures
      /\ submitting /\ failed => Latest \in Failures
  <2>1. k \in Failures /\ k \in Plain' /\ k # 0
    BY RaisedFacts, OutboxAssumption DEF Plain, Raised, Failures
  <2>2. callback # 0 => callback \in Failures
    BY RaisedFacts DEF NumberedOK
  <2>3. submitting /\ failed => Latest \in Failures
    BY RaisedFacts DEF NumberedOK
  <2> QED
    BY <2>1, <2>2, <2>3, Roles, OutboxAssumption DEF OutboxTypeOK
<1>1. k \in recorded' => outbox'[k] = "SENT"
  BY RecordedStep
<1>2. ASSUME JobFails
      PROVE  Carried(k)'
  <2>1. CASE k = Latest + 1
    <3>1. Unknown(k)
      BY <1>0, <1>2, <2>1, RaisedNext, RaisedFacts DEF NumberedOK
    <3> QED
      BY <1>0, <1>1, <1>2, <3>1
         DEF JobFails, procVars, ghosts, Unknown, Active, Carried
  <2>2. CASE k # Latest + 1
    <3>1. ~Due(k)'
      BY <2>2, <1>2, RaisedNext DEF JobFails, Due
    <3>2. Carried(k)
      BY <1>0, <1>2, <2>2, PlainStep DEF CarriedOK
    <3> QED
      BY <1>0, <1>1, <1>2, <3>1, <3>2, CarriedSame
         DEF JobFails, procVars, ghosts
  <2> QED
    BY <2>1, <2>2
<1>3. ASSUME Callback
      PROVE  Carried(k)'
  <2>1. Carried(k) /\ First(k)
    BY <1>0, <1>3, PlainStep DEF Callback, CarriedOK, FirstOK
  <2>2. Latest' = Latest
    BY <1>3, RaisedSame DEF Callback
  <2>3. CASE submitting
    <3>1. Due(k)' => Due(k)
      BY <1>0, <2>2, <2>3, <1>3 DEF Callback, Due
    <3> QED
      BY <1>0, <1>1, <2>1, <2>3, <3>1, <1>3, CarriedSame DEF Callback
  <2>4. CASE ~submitting
    <3>1. Enqueue(Runner, callback) /\ callback \in Failures
      BY <1>0, <2>4, <1>3 DEF Callback
    <3>2. CASE callback = k
      <4>1. \A q \in Processes : Active(q, k) => q = Runner
        BY <1>0, <2>1, <3>2 DEF First, RolesOK
      <4> QED
        BY <1>0, <1>1, <2>1, <3>1, <3>2, <4>1, <1>3, CarriedEnqueue
           DEF Callback, Due
    <3>3. CASE callback # k
      <4>1. ~Due(k)'
        BY <1>0, <2>4, <1>3 DEF Callback, Due
      <4>2. \A q \in Processes : delivery'[q][k] = delivery[q][k]
        BY <1>0, <3>1, <3>3, EnqueueKeeps DEF OthersStay
      <4> QED
        BY <1>0, <1>1, <2>1, <4>1, <4>2, <1>3, CarriedSame DEF Callback
    <3> QED
      BY <3>2, <3>3
  <2> QED
    BY <2>3, <2>4
<1>4. ASSUME SubmitReturns
      PROVE  Carried(k)'
  <2>1. Carried(k) /\ First(k)
    BY <1>0, <1>4, PlainStep DEF SubmitReturns, CarriedOK, FirstOK
  <2>2. Latest' = Latest
    BY <1>4, RaisedSame DEF SubmitReturns
  <2>3. Runner = Master /\ Running = {Master}
    BY <1>0, <1>4 DEF SubmitReturns, RolesOK
  <2>4. CASE failed /\ Latest = k
    <3>1. \A q \in Processes : Active(q, k) => q = Runner
      BY <1>0, <2>3 DEF RolesOK
    <3>2. Enqueue(Runner, k) /\ Due(k)
      BY <2>3, <2>4, <1>4 DEF SubmitReturns, Due
    <3> QED
      BY <1>0, <1>1, <2>1, <3>1, <3>2, <1>4, CarriedEnqueue DEF SubmitReturns
  <2>5. CASE failed /\ Latest # k
    <3>1. Due(k)' => Due(k)
      BY <2>2, <1>4 DEF SubmitReturns, Due
    <3>2. Enqueue(Master, Latest) /\ Latest \in Failures
      BY <1>0, <2>5, <1>4 DEF SubmitReturns
    <3>3. \A q \in Processes : delivery'[q][k] = delivery[q][k]
      BY <1>0, <2>5, <3>2, EnqueueKeeps DEF OthersStay
    <3> QED
      BY <1>0, <1>1, <2>1, <3>1, <3>3, <1>4, CarriedSame DEF SubmitReturns
  <2>6. CASE ~failed
    <3>1. Due(k)' => Due(k)
      BY <2>2, <1>4 DEF SubmitReturns, Due
    <3> QED
      BY <1>0, <1>1, <2>1, <2>6, <3>1, <1>4, CarriedSame DEF SubmitReturns
  <2> QED
    BY <2>4, <2>5, <2>6
<1>5. ASSUME SubmitRejected
      PROVE  Carried(k)'
  BY <1>0, <1>5, PlainGone
<1>6. ASSUME Resubmit
      PROVE  Carried(k)'
  <2>1. Carried(k) /\ First(k)
    BY <1>0, <1>6, PlainStep DEF Resubmit, CarriedOK, FirstOK
  <2>2. Latest' = Latest
    BY <1>6, RaisedSame DEF Resubmit
  <2>3. Due(k)' => Due(k)
    BY <1>0, <2>2, <1>6 DEF Resubmit, Due, RolesOK
  <2> QED
    BY <1>0, <1>1, <2>1, <2>3, <1>6, CarriedSame DEF Resubmit, procVars, ghosts
<1>7. ASSUME Delete
      PROVE  Carried(k)'
  BY <1>0, <1>7, PlainGone
<1>8. ASSUME DeleteRows
      PROVE  Carried(k)'
  BY <1>0, <1>8, PlainGone
<1>9. ASSUME DeleteFails
      PROVE  Carried(k)'
  <2>1. Carried(k) /\ First(k)
    BY <1>0, <1>9, PlainStep DEF DeleteFails, CarriedOK, FirstOK
  <2>2. Latest' = Latest
    BY <1>9, RaisedSame DEF DeleteFails
  <2>3. Due(k)' => Due(k)
    BY <1>0, <2>2, <1>9 DEF DeleteFails, Due, RolesOK
  <2> QED
    BY <1>0, <1>1, <2>1, <2>3, <1>9, CarriedSame
       DEF DeleteFails, procVars, ghosts
<1>10. ASSUME Submit
       PROVE  Carried(k)'
  BY <1>0, <1>10, PlainGone
<1>11. ASSUME NEW p \in Workers, Claim(p)
       PROVE  Carried(k)'
  <2>1. Carried(k) /\ First(k)
    BY <1>0, <1>11, PlainStep DEF Claim, jobVars, CarriedOK, FirstOK
  <2>3. ~Due(k)'
    BY <1>0, <1>11 DEF Claim, jobVars, Due, RolesOK
  <2> QED
    BY <1>0, <1>1, <2>1, <2>3, <1>11, CarriedSame
       DEF Claim, jobVars, procVars, ghosts
<1>12. ASSUME NEW p \in Processes, NEW i \in Failures, Persist(p, i)
       PROVE  Carried(k)'
  <2>1. Carried(k) /\ First(k)
    BY <1>0, <1>12, PlainStep
       DEF Persist, DeliverUnchanged, jobVars, CarriedOK, FirstOK
  <2>2. Latest' = Latest
    BY <1>12, RaisedSame DEF Persist, DeliverUnchanged, jobVars
  <2>3. Due(k)' <=> Due(k)
    BY <2>2, <1>12 DEF Persist, DeliverUnchanged, jobVars, Due
  <2>4. OthersStay(p, i) /\ Active(p, i) /\ role' = role /\ worker' = worker
    <3>1. OthersStay(p, i)
      BY <1>12, GoesOn, GoesAway DEF Persist, Outcomes, Places, OthersStay
    <3> QED
      BY <3>1, <1>12 DEF Persist, DeliverUnchanged, jobVars, Outcomes, Active
  <2>5. received' = received
        /\ \A q \in Processes : completed[q] \subseteq completed'[q]
    BY <1>12 DEF Persist, DeliverUnchanged, jobVars, ghosts, OutboxTypeOK
  <2>6. CASE i # k
    <3>1. \A q \in Processes : delivery'[q][k] = delivery[q][k]
      BY <1>0, <2>4, <2>6 DEF OthersStay
    <3> QED
      BY <1>0, <1>1, <2>1, <2>3, <2>4, <2>5, <3>1, CarriedSame
  <2>7. CASE i = k
    <3>1. received[k] # 1
      BY <1>0, <2>1, <2>7, <1>12 DEF Persist, Carried
    <3> QED
      BY <1>0, <1>1, <2>1, <2>4, <2>5, <2>7, <3>1, CarriedUntold
  <2> QED
    BY <2>6, <2>7
<1>13. ASSUME NEW p \in Processes, NEW i \in Failures, Check(p, i)
       PROVE  Carried(k)'
  <2>1. Carried(k) /\ First(k)
    BY <1>0, <1>13, PlainStep
       DEF Check, DeliverUnchanged, jobVars, CarriedOK, FirstOK
  <2>2. Latest' = Latest
    BY <1>13, RaisedSame DEF Check, DeliverUnchanged, jobVars
  <2>3. Due(k)' <=> Due(k)
    BY <2>2, <1>13 DEF Check, DeliverUnchanged, jobVars, Due
  <2>4. OthersStay(p, i) /\ Active(p, i) /\ role' = role /\ worker' = worker
    <3>1. OthersStay(p, i)
      BY <1>13, GoesOn, GoesAway DEF Check, Outcomes, Places, OthersStay
    <3> QED
      BY <3>1, <1>13 DEF Check, DeliverUnchanged, jobVars, Outcomes, Active
  <2>5. received' = received
        /\ \A q \in Processes : completed[q] \subseteq completed'[q]
    BY <1>13 DEF Check, DeliverUnchanged, jobVars, ghosts, OutboxTypeOK
  <2>6. CASE i # k
    <3>1. \A q \in Processes : delivery'[q][k] = delivery[q][k]
      BY <1>0, <2>4, <2>6 DEF OthersStay
    <3> QED
      BY <1>0, <1>1, <2>1, <2>3, <2>4, <2>5, <3>1, CarriedSame
  <2>7. CASE i = k
    <3>1. received[k] # 1
      BY <1>0, <2>1, <2>7, <1>13 DEF Check, Carried
    <3> QED
      BY <1>0, <1>1, <2>1, <2>4, <2>5, <2>7, <3>1, CarriedUntold
  <2> QED
    BY <2>6, <2>7
<1>14. ASSUME NEW p \in Processes, NEW i \in Failures, Send(p, i)
       PROVE  Carried(k)'
  <2>1. Carried(k) /\ First(k)
    BY <1>0, <1>14, PlainStep
       DEF Send, DeliverUnchanged, jobVars, CarriedOK, FirstOK
  <2>2. Latest' = Latest
    BY <1>14, RaisedSame DEF Send, DeliverUnchanged, jobVars
  <2>3. Due(k)' <=> Due(k)
    BY <2>2, <1>14 DEF Send, DeliverUnchanged, jobVars, Due
  <2>4. OthersStay(p, i) /\ Active(p, i) /\ role' = role /\ worker' = worker
    <3>1. OthersStay(p, i)
      BY <1>14, GoesOn, GoesAway DEF Send, Outcomes, Places, OthersStay
    <3> QED
      BY <3>1, <1>14 DEF Send, DeliverUnchanged, jobVars, Outcomes, Active
  <2>5. CASE i # k
    <3>1. received'[k] = received[k] /\ completed' = completed
      BY <1>0, <2>5, <1>14 DEF Send, OutboxTypeOK
    <3>2. \A q \in Processes : delivery'[q][k] = delivery[q][k]
      BY <1>0, <2>4, <2>5 DEF OthersStay
    <3> QED
      BY <1>0, <1>1, <2>1, <2>3, <2>4, <3>1, <3>2, CarriedSame
  <2>6. CASE i = k /\ received' = received
    <3>1. received[k] # 1
      BY <1>0, <2>1, <2>6, <1>14 DEF Send, Carried
    <3> QED
      BY <1>0, <1>1, <2>1, <2>4, <2>6, <3>1, CarriedUntold
  <2>7. CASE i = k /\ received' # received
    <3>1. received' = [received EXCEPT ![k] = @ + 1]
      BY <2>7, <1>14 DEF Send
    <3>2. ~Excuse({i}, "unanswered")
      BY <1>0, <2>7, NowExcused DEF Plain, Excuses
    <3>3. Goes(p, k, "SENT")
      BY <2>7, <3>2, <1>14 DEF Send
    <3>4. delivery'[p][k].at = "SENT"
      BY <1>0, <3>3, GoesOn DEF Places, Outcomes
    <3>5. received[k] = 0
      <4>1. delivery[p][k].at = "send" /\ p \in Processes
        BY <2>7, <1>14 DEF Send
      <4>2. received[k] <= 1 /\ received[k] # 1
        BY <4>1, <2>1 DEF Carried
      <4>3. received[k] \in Nat
        BY <1>0 DEF OutboxTypeOK
      <4> QED
        BY <4>2, <4>3
    <3>6. received'[k] = 1
      BY <1>0, <3>1, <3>5 DEF OutboxTypeOK
    <3>7. \A q \in Processes : q # p => delivery'[q][k].at = "none"
      BY <1>0, <2>1, <2>4, <2>7 DEF OthersStay, Carried, Active
    <3>8. Due(k) => p = Runner
      BY <1>0, <2>1, <2>4, <2>7 DEF Due, First, RolesOK
    <3>9. Runner' = Runner
      BY <2>4, Roles
    <3> QED
      BY <1>0, <1>1, <2>3, <3>4, <3>6, <3>7, <3>8, <3>9 DEF Carried, Active
  <2> QED
    BY <2>5, <2>6, <2>7
<1>15. ASSUME NEW p \in Processes, NEW i \in Failures, Record(p, i)
       PROVE  Carried(k)'
  <2>1. Carried(k) /\ First(k)
    BY <1>0, <1>15, PlainStep
       DEF Record, DeliverUnchanged, jobVars, CarriedOK, FirstOK
  <2>2. Latest' = Latest
    BY <1>15, RaisedSame DEF Record, DeliverUnchanged, jobVars
  <2>3. Due(k)' <=> Due(k)
    BY <2>2, <1>15 DEF Record, DeliverUnchanged, jobVars, Due
  <2>4. OthersStay(p, i) /\ Active(p, i) /\ role' = role /\ worker' = worker
    <3>1. OthersStay(p, i)
      BY <1>15, GoesOn, GoesAway DEF Record, Outcomes, Places, OthersStay
    <3> QED
      BY <3>1, <1>15 DEF Record, DeliverUnchanged, jobVars, Outcomes, Active
  <2>5. received' = received
        /\ \A q \in Processes : completed[q] \subseteq completed'[q]
    BY <1>15 DEF Record, DeliverUnchanged, jobVars, ghosts, OutboxTypeOK
  <2>6. CASE i # k
    <3>1. \A q \in Processes : delivery'[q][k] = delivery[q][k]
      BY <1>0, <2>4, <2>6 DEF OthersStay
    <3> QED
      BY <1>0, <1>1, <2>1, <2>3, <2>4, <2>5, <3>1, CarriedSame
  <2>7. CASE i = k /\ delivery[p][i].at # "SENT"
    <3>1. received[k] # 1
      BY <1>0, <2>1, <2>4, <2>7 DEF Carried, Active
    <3> QED
      BY <1>0, <1>1, <2>1, <2>4, <2>5, <2>7, <3>1, CarriedUntold
  <2>8. CASE i = k /\ delivery[p][i].at = "SENT"
    <3>1. k \in completed'[p] /\ Ends(p, k)
      BY <1>0, <2>8, <1>15 DEF Record, OutboxTypeOK
    <3>2. ~Active(p, k)'
      BY <1>0, <3>1, GoesAway DEF Active
    <3>3. \A q \in Processes : q # p => delivery'[q][k] = delivery[q][k]
      BY <1>0, <2>4, <2>8 DEF OthersStay
    <3>4. received'[k] <= 1
      BY <2>1, <2>5 DEF Carried
    <3>5. \A q, r \in Processes : Active(q, k)' /\ Active(r, k)' => q = r
      BY <2>1, <3>2, <3>3 DEF Carried, Active
    <3>6. received'[k] = 1 => \A q \in Processes : delivery'[q][k].at \in {"none", "SENT"}
      BY <2>1, <2>5, <3>2, <3>3 DEF Carried, Active
    <3>7. Runner' = Runner
      BY <2>4, Roles
    <3>8. received'[k] = 1 /\ Due(k)' =>
            Active(Runner, k)' \/ k \in completed'[Runner]
      BY <1>0, <2>1, <2>3, <2>5, <3>1, <3>3, <3>7 DEF Carried, Active
    <3> QED
      BY <1>1, <3>4, <3>5, <3>6, <3>7, <3>8 DEF Carried, Active
  <2> QED
    BY <2>6, <2>7, <2>8
<1>16. ASSUME NEW p \in Processes, Crash(p)
       PROVE  Carried(k)'
  <2>1. Carried(k) /\ First(k)
    BY <1>0, <1>16, PlainStep DEF Crash, CarriedOK, FirstOK
  <2>2. Latest' = Latest
    BY <1>16, RaisedSame DEF Crash
  <2>3. \A q \in Processes :
          IF q = p THEN ~Active(q, k)'
          ELSE delivery'[q][k] = delivery[q][k] /\ completed'[q] = completed[q]
    BY <1>0, <1>16, GoroutineType DEF Crash, Active, NoDelivery, OutboxTypeOK
  <2>4. Due(k)' => Due(k) /\ p # Runner
    BY <1>0, <2>2, <1>16 DEF Crash, Due
  <2> QED
    BY <1>0, <1>1, <2>1, <2>3, <2>4, <1>16, CarriedSame DEF Crash
<1>17. ASSUME NEW p \in Processes, Restart(p)
       PROVE  Carried(k)'
  <2>1. Carried(k) /\ First(k)
    BY <1>0, <1>17, PlainStep DEF Restart, jobVars, CarriedOK, FirstOK
  <2>2. Latest' = Latest
    BY <1>17, RaisedSame DEF Restart, jobVars
  <2> DEFINE restored == {i \in Failures : outbox[i] = "PENDING" /\ sub # 0}
             shared == {i \in restored \ recorded :
                          \/ received[i] > 0
                          \/ \E q \in Processes \ {p} : Active(q, i)}
  <2>3. \A q \in Processes :
          delivery'[q][k] = IF q # p THEN delivery[q][k]
                            ELSE IF k \in restored
                                 THEN [at |-> "check", job |-> sub]
                                 ELSE NoDelivery
    BY <1>0, <1>17, GoroutineType DEF Restart
  <2>4. Due(k)' => Due(k) /\ p # Runner
    BY <1>0, <2>2, <1>17 DEF Restart, jobVars, Due, RolesOK
  <2>5. CASE k \in restored
    <3>1. k \notin shared
      BY <1>0, <1>17, NowExcused DEF Restart, Plain, Excuses
    <3>2. k \notin recorded
      BY <2>1, <2>5 DEF Carried
    <3>3. received[k] = 0 /\ \A q \in Processes \ {p} : ~Active(q, k)
      BY <1>0, <2>5, <3>1, <3>2 DEF OutboxTypeOK
    <3>4. \A q \in Processes : Active(q, k)' => q = p
      BY <2>3, <3>3 DEF Active
    <3> QED
      BY <1>0, <1>1, <3>3, <3>4, <1>17 DEF Restart, Carried, Active
  <2>6. CASE k \notin restored
    <3>1. \A q \in Processes :
            IF q = p THEN ~Active(q, k)' ELSE delivery'[q][k] = delivery[q][k]
      BY <2>3, <2>6 DEF Active, NoDelivery
    <3> QED
      BY <1>0, <1>1, <2>1, <2>4, <3>1, <1>17, CarriedSame DEF Restart
  <2> QED
    BY <2>5, <2>6
<1>18. ASSUME UNCHANGED outboxVars
      PROVE  Carried(k)'
  <2>1. Carried(k)
    BY <1>0, <1>18, PlainStep DEF outboxVars, jobVars, CarriedOK
  <2>2. Due(k)' => Due(k)
    BY <1>18, RaisedSame DEF outboxVars, jobVars, Due
  <2> QED
    BY <1>0, <1>1, <2>1, <2>2, <1>18, CarriedSame
       DEF outboxVars, procVars, ghosts
<1> QED
  BY <1>2, <1>3, <1>4, <1>5, <1>6, <1>7, <1>8, <1>9, <1>10,
     <1>11, <1>12, <1>13, <1>14, <1>15, <1>16, <1>17, <1>18 DEF OutboxNext

-----------------------------------------------------------------------------
(* The invariant *)

(* Nothing has failed when the first submission has been made.             *)
LEMMA OutboxStarts ==
  ASSUME OutboxInit
  PROVE  OutboxInv
<1>1. Raised = {} /\ Latest = 0 /\ Raised = 1..0
  <2>1. Raised = {}
    BY DEF OutboxInit, Raised
  <2> QED
    BY <2>1, FS_EmptySet DEF Latest
<1>2. \A p \in Processes, i \in Failures : delivery[p][i] = NoDelivery
  BY DEF OutboxInit
<1>3. Plain = {}
  BY <1>1 DEF Plain
<1>4. OutboxTypeOK
  <2>1. NoDelivery \in [at : Places, job : 0..MaxSubs]
    BY OutboxAssumption DEF NoDelivery, Places
  <2>2. Running \subseteq Processes /\ Runner \in Processes /\ worker \in Workers
    BY DEF OutboxInit, Running, Runner, Processes
  <2>3. delivery \in [Processes -> [Failures -> [at : Places, job : 0..MaxSubs]]]
    BY <2>1 DEF OutboxInit
  <2>4. configured \subseteq Processes
    BY DEF OutboxInit, Processes
  <2>5. /\ role \in {"all", "split"}
        /\ failed \in BOOLEAN /\ deleting \in BOOLEAN
    BY DEF OutboxInit
  <2>6. /\ sub \in 0..MaxSubs /\ lastSub \in 0..MaxSubs
         /\ callback \in 0..MaxFailures
    BY OutboxAssumption DEF OutboxInit
  <2>7. submitting \in BOOLEAN
    BY DEF OutboxInit
  <2>8. /\ origin \in [Failures -> 0..MaxSubs]
        /\ outbox \in [Failures -> Outcomes \cup {"absent"}]
        /\ up \subseteq Processes /\ managed \in [Processes -> 0..MaxSubs]
    BY <2>2, OutboxAssumption DEF OutboxInit
  <2>9. completed \in [Processes -> SUBSET Failures]
    BY DEF OutboxInit
  <2>10. /\ received \in [Failures -> Nat] /\ recorded \subseteq Failures
        /\ faults \in 0..MaxFaults /\ crashes \in 0..MaxCrashes
    BY OutboxAssumption DEF OutboxInit
  <2>11. excuse \in [Failures -> SUBSET Excuses]
    BY DEF OutboxInit
  <2> QED
    BY <2>2, <2>3, <2>4, <2>5, <2>6, <2>7, <2>8, <2>9, <2>10, <2>11 DEF OutboxTypeOK
<1>5. NumberedOK
  BY <1>1, <1>2 DEF OutboxInit, NumberedOK, Unknown, Active, NoDelivery
<1>6. RolesOK
  <2>1. Runner \in Running
    BY DEF OutboxInit, Running, Runner, Processes
  <2> QED
    BY <1>2, <2>1 DEF OutboxInit, RolesOK, Active, NoDelivery
<1>7. FreshOK /\ CarriedOK /\ FirstOK
  BY <1>3 DEF FreshOK, CarriedOK, FirstOK
<1> QED
  BY <1>4, <1>5, <1>6, <1>7 DEF OutboxInv

(* Every step keeps the invariant.                                         *)
LEMMA OutboxStep ==
  ASSUME OutboxInv, [OutboxNext]_outboxVars
  PROVE  OutboxInv'
<1>1. /\ OutboxTypeOK /\ NumberedOK /\ RolesOK /\ FreshOK /\ CarriedOK /\ FirstOK
      /\ [OutboxNext]_outboxVars
  BY DEF OutboxInv
<1>2. OutboxTypeOK' /\ NumberedOK' /\ RolesOK' /\ FreshOK'
  BY <1>1, TypeStep, NumberedStep, RolesStep, FreshStep
<1>3. CarriedOK'
  <2>1. \A k \in Plain' : Carried(k)'
    BY <1>1, CarriedStep
  <2> QED
    BY <2>1 DEF CarriedOK
<1>4. FirstOK'
  <2>1. \A k \in Plain' : First(k)'
    BY <1>1, FirstStep
  <2> QED
    BY <2>1 DEF FirstOK
<1> QED
  BY <1>2, <1>3, <1>4 DEF OutboxInv

(* A failure that nothing excuses is told at most once, and one that has   *)
(* not happened is not told.                                               *)
LEMMA ToldAtMostOnce ==
  ASSUME OutboxInv
  PROVE  ToldOnce
<1> SUFFICES ASSUME NEW i \in Failures, received[i] > 1
             PROVE  Excused(i)
  BY DEF ToldOnce, Excused
<1>1. CASE i \in Plain
  <2>1. received[i] \in Nat /\ received[i] <= 1
    BY <1>1 DEF OutboxInv, OutboxTypeOK, CarriedOK, Carried
  <2> QED
    BY <2>1
<1>2. CASE i \in Raised /\ i \notin Plain
  BY <1>2 DEF Plain
<1>3. CASE i \notin Raised
  <2>1. received[i] = 0
    BY <1>3 DEF OutboxInv, NumberedOK, Unknown
  <2> QED
    BY <2>1
<1> QED
  BY <1>1, <1>2, <1>3

(* The invariant holds in every state: whatever the processes, Telegram    *)
(* and the database do, and however the goroutines interleave, a failure   *)
(* without an excuse has one goroutine, and its row that was SENT stays so.*)
THEOREM OutboxInductive == OutboxSpec => []OutboxInv
<1>1. OutboxInit => OutboxInv
  BY OutboxStarts
<1>2. OutboxInv /\ [OutboxNext]_outboxVars => OutboxInv'
  BY OutboxStep
<1> QED
  BY <1>1, <1>2, PTL DEF OutboxSpec

(* A failure is told once: the FAILED that the callback reports and Submit *)
(* finds as well, failed saves, refusals and restarts send no second       *)
(* message, unless an answer of Telegram was lost, a process that started  *)
(* found the row PENDING while another was about to send it, or the rows   *)
(* were deleted.                                                           *)
THEOREM OneMessage == OutboxSpec => []ToldOnce
<1>1. OutboxInv => ToldOnce
  BY ToldAtMostOnce
<1> QED
  BY <1>1, OutboxInductive, PTL
=============================================================================
