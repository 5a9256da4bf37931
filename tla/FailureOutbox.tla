--------------------------- MODULE FailureOutbox ---------------------------
(***************************************************************************)
(* The notifications of failed jobs (pkg/core/manager.go,                  *)
(* job_failure_notifier.go, pkg/meta/job_store.go): an outbox row for each *)
(* failure, written when the FAILED status is reported, and a goroutine    *)
(* that sends it to Telegram and records the outcome.                      *)
(*                                                                         *)
(* Every process with a job manager restores the PENDING rows when it      *)
(* starts, the API server as well as the workers.  The processes share     *)
(* only the rows: each keeps in memory what it delivers and what it has    *)
(* delivered.  One job is followed through its submissions and from worker *)
(* to worker.                                                              *)
(***************************************************************************)
EXTENDS Naturals, FiniteSets

CONSTANTS
  Master,       \* the process that takes the requests
  Workers,      \* the processes that run the pipelines in split roles
  MaxFailures,  \* bound on the failures of the job
  MaxSubs,      \* bound on its submissions
  MaxFaults,    \* bound on the sends and saves that fail or are not answered
  MaxCrashes    \* bound on the crashes

ASSUME OutboxAssumption ==
  /\ Master \notin Workers /\ Workers # {}
  /\ MaxFailures \in Nat /\ MaxSubs \in Nat \ {0}
  /\ MaxFaults \in Nat /\ MaxCrashes \in Nat

VARIABLES
  role,        \* "all": Master runs the pipelines; "split": the workers do
  worker,      \* the worker that has claimed the job
  configured,  \* processes whose environment holds the Telegram settings
  sub,         \* the submission in job_registry, 0 for no row
  lastSub,     \* the last submission made
  failed,      \* the pipeline of sub has failed
  deleting,    \* Delete still waits to remove the rows
  submitting,  \* Submit still runs: FAILED callbacks are deferred
  callback,    \* the failure whose FAILED callback has not run, 0 for none
  origin,      \* origin[i]: the submission that failure i belongs to, 0 before it
  outbox,      \* outbox[i]: the state of the row
  up,          \* processes that run
  managed,     \* managed[p]: the submission whose Job p holds, 0 for none
  delivery,    \* delivery[p][i]: the goroutine of p that delivers i
  completed,   \* completed[p]: completedFailureDelivery
  received,    \* ghost: messages of i that Telegram accepted
  recorded,    \* ghost: failures whose row has been SENT
  excuse,      \* ghost: excuse[i], why i may be told never or twice
  faults, crashes  \* fault budgets used

jobVars == <<sub, lastSub, failed, deleting, submitting, callback, origin>>
procVars == <<up, managed, delivery, completed>>
ghosts == <<received, recorded, excuse>>
outboxVars == <<role, worker, configured, jobVars, outbox, procVars, ghosts,
                faults, crashes>>

Failures == 1..MaxFailures
Processes == {Master} \cup Workers
Runner == IF role = "all" THEN Master ELSE worker
Running == IF role = "all" THEN {Master} ELSE Processes

(* A goroutine: where it is, and the Job it was started for.               *)
(*   "none"     no goroutine (activeFailureDeliveries lacks the incident)   *)
(*   "persist"  the row is not known to be written                         *)
(*   "check"    before jobIsManaged                                        *)
(*   "send"     past it, waiting for next_attempt_at or sending            *)
(*   "PENDING", "SENT", "FAILED"   the outcome to record                   *)
NoDelivery == [at |-> "none", job |-> 0]
Outcomes == {"PENDING", "SENT", "FAILED"}
Places == {"none", "persist", "check", "send"} \cup Outcomes
Excuses == {"crash", "rejected", "unset", "refused", "deleted",
            "unanswered", "restored"}

OutboxTypeOK ==
  /\ role \in {"all", "split"} /\ worker \in Workers
  /\ configured \subseteq Processes
  /\ sub \in 0..MaxSubs /\ lastSub \in 0..MaxSubs
  /\ {failed, deleting, submitting} \subseteq BOOLEAN
  /\ callback \in 0..MaxFailures
  /\ origin \in [Failures -> 0..MaxSubs]
  /\ outbox \in [Failures -> Outcomes \cup {"absent"}]
  /\ up \subseteq Processes /\ managed \in [Processes -> 0..MaxSubs]
  /\ delivery \in [Processes -> [Failures -> [at : Places, job : 0..MaxSubs]]]
  /\ completed \in [Processes -> SUBSET Failures]
  /\ received \in [Failures -> Nat] /\ recorded \subseteq Failures
  /\ excuse \in [Failures -> SUBSET Excuses]
  /\ faults \in 0..MaxFaults /\ crashes \in 0..MaxCrashes

(* The first submission has been made, and its pipeline runs.  The workers *)
(* have the same settings.                                                 *)
OutboxInit ==
  /\ role \in {"all", "split"} /\ worker \in Workers
  /\ configured \in {IF role = "all" THEN {Master} ELSE Workers, Processes}
  /\ sub = 1 /\ lastSub = 1 /\ failed = FALSE /\ deleting = FALSE /\ callback = 0
  /\ submitting = (role = "all")
  /\ origin = [i \in Failures |-> 0]
  /\ outbox = [i \in Failures |-> "absent"]
  /\ up = Running
  /\ managed = [p \in Processes |-> IF p = Runner \/ p = Master THEN 1 ELSE 0]
  /\ delivery = [p \in Processes |-> [i \in Failures |-> NoDelivery]]
  /\ completed = [p \in Processes |-> {}]
  /\ received = [i \in Failures |-> 0] /\ recorded = {}
  /\ excuse = [i \in Failures |-> {}]
  /\ faults = 0 /\ crashes = 0

Raised == {i \in Failures : origin[i] # 0}
Latest == Cardinality(Raised)
Active(p, i) == delivery[p][i].at # "none"

-----------------------------------------------------------------------------
(* The outbox table.                                                       *)

(* SaveFailureNotification: INSERT ... ON DUPLICATE KEY UPDATE, which      *)
(* leaves a row that is SENT or FAILED as it is, and writes again a row    *)
(* that was deleted.                                                       *)
Settled == {"SENT", "FAILED"}
(* Overwrites a row that is settled.                                       *)
Overwritten(i, state) == [outbox EXCEPT ![i] = state]
Saved(i, state) ==
  [outbox EXCEPT ![i] = IF @ \in Settled THEN @ ELSE state]

(* A save succeeds, fails, or is carried out without an answer.            *)
SaveOK(i, state) == outbox' = Saved(i, state) /\ UNCHANGED faults
SaveFails(i, state) ==
  /\ faults < MaxFaults /\ faults' = faults + 1
  /\ outbox' \in {outbox, Saved(i, state)}

(* Ghosts: rows that reach SENT, reasons that accumulate.                  *)
RecordSent == recorded' = recorded \cup {i \in Failures : outbox'[i] = "SENT"}
Excuse(is, why) ==
  excuse' = [i \in Failures |-> IF i \in is THEN excuse[i] \cup {why} ELSE excuse[i]]

-----------------------------------------------------------------------------
(* The job fails.                                                          *)

(* scheduleFailureNotification: one goroutine per incident and process,    *)
(* none for an incident that this process has delivered.                   *)
(* Without completedFailureDelivery.                                       *)
NotActive(p, i) == ~Active(p, i)
MaySchedule(p, i) == i \notin completed[p] /\ ~Active(p, i)
Scheduled(p, i, j, place) ==
  [delivery EXCEPT ![p][i] =
     IF MaySchedule(p, i) THEN [at |-> place, job |-> j] ELSE @]

(* enqueueFailureNotification: without Telegram settings nothing is kept;  *)
(* a save that fails leaves the goroutine to write the row.                *)
Enqueue(p, i) ==
  \/ /\ SaveOK(i, "PENDING")
     /\ delivery' = Scheduled(p, i, origin[i], "check")
  \/ /\ SaveFails(i, "PENDING")
     /\ delivery' = Scheduled(p, i, origin[i], "persist")

(* addError and setStatus(FAILED) of the running pipeline; the listener is *)
(* called after the status has changed.                                    *)
JobFails ==
  /\ Runner \in up /\ sub # 0 /\ managed[Runner] = sub
  /\ ~failed /\ callback = 0 /\ Latest < MaxFailures
  /\ failed' = TRUE /\ callback' = Latest + 1
  /\ origin' = [origin EXCEPT ![Latest + 1] = sub]
  /\ UNCHANGED <<role, worker, configured, sub, lastSub, deleting, submitting, outbox,
                 procVars, ghosts, faults, crashes>>

(* The status listener on FAILED: deferred while Submit runs.              *)
Callback ==
  /\ callback # 0 /\ callback' = 0
  /\ IF submitting
     THEN UNCHANGED <<outbox, delivery, faults>>
     ELSE Enqueue(Runner, callback)
  /\ RecordSent
  /\ UNCHANGED <<role, worker, configured, sub, lastSub, failed, deleting, submitting,
                 origin, up, managed, completed, received, excuse, crashes>>

(* Submit returns: finishDeferredFailureNotification with accepted, which  *)
(* enqueues the failure of a pipeline that has failed in the meantime.     *)
SubmitReturns ==
  /\ submitting /\ submitting' = FALSE
  /\ IF failed
     THEN Enqueue(Master, Latest)
     ELSE UNCHANGED <<outbox, delivery, faults>>
  /\ RecordSent
  /\ UNCHANGED <<role, worker, configured, sub, lastSub, failed, deleting, callback,
                 origin, up, managed, completed, received, excuse, crashes>>

(* startJob returns an error: the job is removed and nobody is notified,   *)
(* the caller of Submit has the error.                                     *)
SubmitRejected ==
  /\ submitting /\ failed /\ callback = 0
  /\ submitting' = FALSE /\ sub' = 0 /\ failed' = FALSE
  /\ managed' = [managed EXCEPT ![Master] = 0]
  /\ outbox' = [i \in Failures |-> "absent"]
  /\ Excuse({Latest}, "rejected")
  /\ UNCHANGED <<role, worker, configured, lastSub, deleting, callback, origin, up,
                 delivery, completed, received, recorded, faults, crashes>>

(* Resubmit after the failure: the same submission runs again.             *)
Resubmit ==
  /\ Master \in up /\ managed[Master] = sub /\ sub # 0 /\ failed
  /\ ~submitting /\ ~deleting /\ callback = 0 /\ Latest < MaxFailures
  /\ failed' = FALSE
  /\ UNCHANGED <<role, worker, configured, sub, lastSub, deleting, submitting, callback,
                 origin, outbox, procVars, ghosts, faults, crashes>>

-----------------------------------------------------------------------------
(* deliverFailureNotification.                                             *)

(* Only while the job is still the one that failed and is not resubmitted. *)
JobStillFailed(p, i) == managed[p] = delivery[p][i].job /\ failed
JobIsManaged(p, i) == managed[p] = delivery[p][i].job /\ managed[p] # 0
Goes(p, i, place) == delivery' = [delivery EXCEPT ![p][i].at = place]
Ends(p, i) == delivery' = [delivery EXCEPT ![p][i] = NoDelivery]
DeliverUnchanged ==
  UNCHANGED <<role, worker, configured, jobVars, up, managed, crashes>>

(* The row is written first, as long as the job is managed.                *)
Persist(p, i) ==
  /\ delivery[p][i].at = "persist"
  /\ \/ ~JobIsManaged(p, i) /\ Ends(p, i) /\ UNCHANGED <<outbox, faults>>
     \/ JobIsManaged(p, i) /\ SaveOK(i, "PENDING") /\ Goes(p, i, "check")
     \/ JobIsManaged(p, i) /\ SaveFails(i, "PENDING") /\ UNCHANGED delivery
  /\ RecordSent
  /\ DeliverUnchanged /\ UNCHANGED <<completed, received, excuse>>

(* jobIsManaged, before the wait for next_attempt_at.                      *)
Check(p, i) ==
  /\ delivery[p][i].at = "check"
  /\ IF JobIsManaged(p, i) THEN Goes(p, i, "send") ELSE Ends(p, i)
  /\ DeliverUnchanged /\ UNCHANGED <<outbox, completed, ghosts, faults>>

(* NotifyJobFailed: Telegram accepts the message; it refuses it for now or *)
(* the request fails; it accepts it and the answer is lost; or it refuses  *)
(* it for good.  A process without the settings gives the message up.      *)
Send(p, i) ==
  /\ delivery[p][i].at = "send"
  /\ \/ /\ p \notin configured
        /\ Goes(p, i, "FAILED") /\ Excuse({i}, "unset")
        /\ UNCHANGED <<received, faults>>
     \/ /\ p \in configured
        /\ received' = [received EXCEPT ![i] = @ + 1]
        /\ Goes(p, i, "SENT") /\ UNCHANGED <<excuse, faults>>
     \/ /\ p \in configured /\ faults < MaxFaults /\ faults' = faults + 1
        /\ \/ Goes(p, i, "PENDING") /\ UNCHANGED <<received, excuse>>
           \/ /\ received' = [received EXCEPT ![i] = @ + 1]
              /\ Goes(p, i, "PENDING") /\ Excuse({i}, "unanswered")
           \/ Goes(p, i, "FAILED") /\ Excuse({i}, "refused") /\ UNCHANGED received
  /\ DeliverUnchanged /\ UNCHANGED <<outbox, completed, recorded>>

(* saveFailureNotificationState, whose error is only logged, and what the  *)
(* goroutine does next.                                                    *)
Record(p, i) ==
  LET state == delivery[p][i].at IN
  /\ state \in Outcomes
  /\ SaveOK(i, state) \/ SaveFails(i, state)
  /\ IF state = "PENDING" THEN Goes(p, i, "check") ELSE Ends(p, i)
  /\ completed' = IF state = "SENT"
                  THEN [completed EXCEPT ![p] = @ \cup {i}]
                  ELSE completed
  /\ RecordSent
  /\ DeliverUnchanged /\ UNCHANGED <<received, excuse>>

-----------------------------------------------------------------------------
(* Deletion, new submissions, crashes.                                     *)

(* Delete takes the job out of the front's memory at once ...              *)
Delete ==
  /\ Master \in up /\ sub # 0 /\ managed[Master] = sub
  /\ ~submitting /\ ~deleting
  /\ deleting' = TRUE
  /\ managed' = [managed EXCEPT ![Master] = 0]
  /\ Excuse(Raised, "deleted")
  /\ UNCHANGED <<role, worker, configured, sub, lastSub, failed, submitting, callback,
                 origin, outbox, up, delivery, completed, received, recorded,
                 faults, crashes>>

(* ... and removes the rows when the pipeline has drained: the             *)
(* notifications and the registry row in one transaction.                  *)
DeleteRows ==
  /\ deleting /\ Master \in up /\ (role = "all" => callback = 0)
  /\ deleting' = FALSE /\ sub' = 0 /\ failed' = FALSE
  /\ outbox' = [i \in Failures |-> "absent"]
  /\ Excuse(Raised, "deleted")
  /\ UNCHANGED <<role, worker, configured, lastSub, submitting, callback, origin,
                 procVars, received, recorded, faults, crashes>>

(* CleanupMeta fails: the job is back, FAILED; its listener is attached    *)
(* after the status has changed, so this failure notifies nobody.          *)
DeleteFails ==
  /\ deleting /\ Master \in up /\ (role = "all" => callback = 0)
  /\ deleting' = FALSE /\ failed' = TRUE
  /\ managed' = [managed EXCEPT ![Master] = sub]
  /\ UNCHANGED <<role, worker, configured, sub, lastSub, submitting, callback, origin,
                 outbox, up, delivery, completed, ghosts, faults, crashes>>

(* Submit of the same ID after the deletion.                               *)
Submit ==
  /\ Master \in up /\ sub = 0 /\ ~deleting /\ managed[Master] = 0
  /\ callback = 0 /\ lastSub < MaxSubs
  /\ lastSub' = lastSub + 1 /\ sub' = lastSub + 1
  /\ managed' = [managed EXCEPT ![Master] = lastSub + 1]
  /\ submitting' = (role = "all") /\ failed' = FALSE
  /\ UNCHANGED <<role, worker, configured, deleting, callback, origin, outbox, up,
                 delivery, completed, ghosts, faults, crashes>>

(* A worker claims the job, which has not failed: a submission it does not *)
(* hold, whose Job replaces the one it held before, or one that another    *)
(* worker has run.  A deletion alone leaves the Job in a worker's memory.  *)
Claim(p) ==
  /\ role = "split" /\ p \in up /\ sub # 0 /\ ~failed /\ callback = 0
  /\ p # worker \/ managed[p] # sub
  /\ worker' = p
  /\ managed' = [managed EXCEPT ![p] = sub]
  /\ UNCHANGED <<role, configured, jobVars, outbox, up, delivery, completed,
                 ghosts, faults, crashes>>

(* Memory is lost.  A failure whose status was not saved yet is not one:   *)
(* the pipeline starts again.                                              *)
Crash(p) ==
  /\ p \in up /\ crashes < MaxCrashes /\ crashes' = crashes + 1
  /\ up' = up \ {p}
  /\ managed' = [managed EXCEPT ![p] = 0]
  /\ delivery' = [delivery EXCEPT ![p] = [i \in Failures |-> NoDelivery]]
  /\ completed' = [completed EXCEPT ![p] = {}]
  /\ Excuse({i \in Raised : outbox[i] = "absent"}, "crash")
  /\ IF p = Runner
     THEN callback' = 0 /\ failed' = (failed /\ callback = 0) /\ submitting' = FALSE
     ELSE UNCHANGED <<callback, failed, submitting>>
  /\ deleting' = (deleting /\ p # Master)
  /\ UNCHANGED <<role, worker, configured, sub, lastSub, origin, outbox, received,
                 recorded, faults>>

(* restorePendingFailureNotifications, after the registry is loaded: the   *)
(* rows of a job that is not loaded are skipped.                           *)
Restart(p) ==
  LET restored == {i \in Failures : outbox[i] = "PENDING" /\ sub # 0}
      shared == {i \in restored \ recorded :
                   received[i] > 0 \/ \E q \in Processes \ {p} : Active(q, i)}
  IN
  /\ p \in Running \ up
  /\ up' = up \cup {p}
  /\ managed' = [managed EXCEPT ![p] = sub]
  /\ delivery' = [delivery EXCEPT ![p] =
                    [i \in Failures |-> IF i \in restored
                                        THEN [at |-> "check", job |-> sub]
                                        ELSE NoDelivery]]
  /\ Excuse(shared, "restored")
  /\ UNCHANGED <<role, worker, configured, jobVars, outbox, completed, received,
                 recorded, faults, crashes>>

OutboxNext ==
  \/ JobFails \/ Callback \/ SubmitReturns \/ SubmitRejected \/ Resubmit
  \/ Delete \/ DeleteRows \/ DeleteFails \/ Submit
  \/ \E p \in Workers : Claim(p)
  \/ \E p \in Processes, i \in Failures :
       Persist(p, i) \/ Check(p, i) \/ Send(p, i) \/ Record(p, i)
  \/ \E p \in Processes : Crash(p) \/ Restart(p)

(* The goroutines of a live process run, requests that have begun end, and *)
(* a process that crashed is started again.  Requests, failures of the job *)
(* and crashes need not happen.                                            *)
OutboxFairness ==
  /\ WF_outboxVars(Callback)
  /\ WF_outboxVars(SubmitReturns) /\ WF_outboxVars(DeleteRows \/ DeleteFails)
  /\ \A p \in Processes : WF_outboxVars(Restart(p))
  /\ \A p \in Processes, i \in Failures :
       /\ WF_outboxVars(Persist(p, i)) /\ WF_outboxVars(Check(p, i))
       /\ WF_outboxVars(Send(p, i)) /\ WF_outboxVars(Record(p, i))

OutboxSpec == OutboxInit /\ [][OutboxNext]_outboxVars /\ OutboxFairness

-----------------------------------------------------------------------------
(* What the outbox promises.                                               *)

(* A failure is told once: the FAILED that the callback reports and Submit *)
(* finds as well, the goroutines of several processes, failed saves and    *)
(* restarts send no second message, and a row that was SENT is never sent  *)
(* again.  Excused are an answer of Telegram that was lost, a process that *)
(* started while the row was PENDING and another had sent it or was about  *)
(* to, and rows that were deleted.                                         *)
ToldOnce ==
  \A i \in Failures :
    received[i] > 1 =>
      excuse[i] \cap {"unanswered", "restored", "deleted", "rejected"} # {}

(* Every failure is told in the end, across lost saves, refusals, crashes  *)
(* and restarts, unless the process died before the row was written, the   *)
(* submission was rejected to its caller, the job was deleted, Telegram    *)
(* refused for good, or a process without the settings gave up the row.    *)
FailureTold ==
  \A i \in Failures :
    <>[](i \in Raised => \/ received[i] > 0
                         \/ excuse[i] \cap {"crash", "rejected", "unset",
                                             "refused", "deleted"} # {})
=============================================================================
