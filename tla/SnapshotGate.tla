---------------------------- MODULE SnapshotGate ----------------------------
(***************************************************************************)
(* The snapshot slots of a process (pkg/core/manager.go): with             *)
(* max_concurrent_snapshot_jobs set, a job that needs a slot starts or     *)
(* waits in snapshotQueue, and a goroutine started whenever a slot may     *)
(* have become free takes jobs out of the queue and starts them.           *)
(*                                                                         *)
(* The slots in use are not a counter: they are counted, under the         *)
(* manager's lock, from startingSnapshotJobs and the status of the jobs.   *)
(* The status changes outside that lock, so a request, a drain goroutine,  *)
(* a status callback and a stop of the same job interleave.                *)
(*                                                                         *)
(* gateRole "all" serves requests; "snapshot" is the snapshot worker,      *)
(* whose jobs come from claims and whose slots count leased jobs only.     *)
(***************************************************************************)
EXTENDS Naturals, Sequences, FiniteSets

CONSTANTS
  GateJobs,     \* jobs that need a slot
  Limit,        \* maxConcurrentSnapshotJobs, not 0
  MaxRequests,  \* bound on submissions, resubmissions and claims
  MaxEndings      \* bound on cancellations, deletions and lost leases

ASSUME GateAssumption ==
  /\ IsFiniteSet(GateJobs)
  /\ Limit \in Nat \ {0}
  /\ MaxRequests \in Nat /\ MaxEndings \in Nat

VARIABLES
  gateRole,
  held,       \* jobs in m.jobs
  leased,     \* workerLeases
  status,     \* the Job's status, see Statuses
  listening,  \* jobs whose status listener is attached
  queue,      \* snapshotQueue
  starting,   \* startingSnapshotJobs
  request,    \* request[j]: where the request that starts j is
  taken,      \* taken[j]: where the drain goroutine that starts j is
  callbacks,  \* jobs whose callback has yet to start a drain goroutine
  drains,     \* drain goroutines that have yet to look at the queue
  silent,     \* ghost: a slot was freed since without anyone being told
  dropped,    \* ghost: jobs taken from the queue before they were QUEUED
  crowded,    \* ghost: a slot was given away while it was promised
  stopped,    \* ghost: jobs cancelled or deleted since their last request
  requests, endings  \* budgets used

gateVars == <<gateRole, held, leased, status, listening, queue, starting,
              request, taken, callbacks, drains, silent, dropped, crowded,
              stopped, requests, endings>>

(* RUNNING is PENDING, RUNNING and PAUSING; STREAMING a run whose progress *)
(* releases the slot; STOPPED every state of a job that does not run.      *)
Statuses == {"CREATED", "QUEUED", "RUNNING", "STREAMING", "STOPPED"}
(* enqueued: before setStatus(QUEUED); admitted: before startJob marks it; *)
(* starting: before startWithMode; started: before startJob returns.       *)
RequestPlaces == {"none", "enqueued", "admitted", "starting", "started"}
TakenPlaces == {"none", "starting", "started"}
Queued == {queue[i] : i \in DOMAIN queue}

GateTypeOK ==
  /\ gateRole \in {"all", "snapshot"}
  /\ {held, leased, listening, starting, callbacks} \subseteq SUBSET GateJobs
  /\ {dropped, stopped} \subseteq SUBSET GateJobs
  /\ status \in [GateJobs -> Statuses]
  /\ queue \in Seq(GateJobs)
  /\ \A i, k \in DOMAIN queue : queue[i] = queue[k] => i = k
  /\ request \in [GateJobs -> RequestPlaces]
  /\ taken \in [GateJobs -> TakenPlaces]
  /\ drains \in Nat /\ {silent, crowded} \subseteq BOOLEAN
  /\ requests \in 0..MaxRequests /\ endings \in 0..MaxEndings

GateInit ==
  /\ gateRole \in {"all", "snapshot"}
  /\ held = {} /\ leased = {} /\ listening = {} /\ queue = <<>> /\ starting = {}
  /\ status = [j \in GateJobs |-> "STOPPED"]
  /\ request = [j \in GateJobs |-> "none"] /\ taken = [j \in GateJobs |-> "none"]
  /\ callbacks = {} /\ drains = 0
  /\ silent = FALSE /\ dropped = {} /\ crowded = FALSE
  /\ stopped = {}
  /\ requests = 0 /\ endings = 0

-----------------------------------------------------------------------------
(* The slots, as every decision counts them under the manager's lock.      *)

(* activeSnapshotJobsLocked: a job that is starting and runs already       *)
(* counts twice.                                                           *)
Occupies(j) ==
  /\ j \in held /\ status[j] = "RUNNING"
  /\ gateRole = "all" \/ j \in leased
ActiveSnapshotJobs ==
  Cardinality(starting) + Cardinality({j \in GateJobs : Occupies(j)})
(* Without the marks of the jobs that are starting.                        *)
CountedByStatus == Cardinality({j \in GateJobs : Occupies(j)}) < Limit
HasSlot == ActiveSnapshotJobs < Limit

(* removeSnapshotQueueLocked; a job is in the queue once.                  *)
Without(q, j) ==
  IF \E i \in DOMAIN q : q[i] = j
  THEN LET i == CHOOSE i \in DOMAIN q : q[i] = j
       IN SubSeq(q, 1, i - 1) \o SubSeq(q, i + 1, Len(q))
  ELSE q
Promised == {k \in GateJobs : request[k] = "admitted"}

(* One shared step of Submit, Resubmit and the worker's claim: decide      *)
(* between the queue and a start.                                          *)
Decide(j, bypass) ==
  IF ~bypass /\ ~HasSlot
  THEN /\ queue' = IF j \in Queued THEN queue ELSE Append(queue, j)
       /\ request' = [request EXCEPT ![j] = "enqueued"]
       /\ UNCHANGED crowded
  ELSE /\ request' = [request EXCEPT ![j] = "admitted"]
       /\ crowded' = (crowded \/ bypass \/ Promised # {})
       /\ UNCHANGED queue

Requested(j) ==
  /\ requests < MaxRequests /\ requests' = requests + 1
  /\ request[j] = "none" /\ taken[j] = "none"
  /\ dropped' = dropped \ {j}
  /\ stopped' = stopped \ {j}
  /\ UNCHANGED <<gateRole, starting, taken, callbacks, drains, silent, endings>>

-----------------------------------------------------------------------------
(* Requests of a process with role "all".                                  *)

(* Submit of a new id, once a deleted job of this id has drained.          *)
GateSubmit(j) ==
  /\ gateRole = "all" /\ j \notin held /\ status[j] = "STOPPED"
  /\ Requested(j) /\ Decide(j, FALSE)
  /\ held' = held \cup {j} /\ listening' = listening \cup {j}
  /\ status' = [status EXCEPT ![j] = "CREATED"]
  /\ UNCHANGED leased

(* Resubmit: a job that resumes after its snapshot needs no slot.          *)
GateResubmit(j) ==
  /\ gateRole = "all" /\ j \in held /\ status[j] = "STOPPED"
  /\ Requested(j) /\ \E bypass \in BOOLEAN : Decide(j, bypass)
  /\ UNCHANGED <<held, leased, status, listening>>

(* The worker's claim of a job, one at a time: the listener is attached    *)
(* again and the status restored from the record.                          *)
GateClaim(j) ==
  /\ gateRole = "snapshot" /\ j \notin leased /\ status[j] # "RUNNING"
  /\ \A k \in GateJobs : request[k] = "none"
  /\ Requested(j) /\ \E bypass \in BOOLEAN : Decide(j, bypass)
  /\ held' = held \cup {j} /\ leased' = leased \cup {j}
  /\ listening' = listening \cup {j}
  /\ status' = [status EXCEPT ![j] = "STOPPED"]

-----------------------------------------------------------------------------
(* What follows the decision.                                              *)

(* setStatus(QUEUED), after the lock was released.                         *)
SetQueued(j) ==
  /\ request[j] = "enqueued"
  /\ request' = [request EXCEPT ![j] = "none"]
  /\ status' = [status EXCEPT ![j] = "QUEUED"]
  /\ UNCHANGED <<gateRole, held, leased, listening, queue, starting, taken,
                 callbacks, drains, silent, dropped, crowded, stopped,
                  requests, endings>>

(* startJob marks the job.                                                 *)
MarkStarting(j) ==
  /\ request[j] = "admitted"
  /\ request' = [request EXCEPT ![j] = "starting"]
  /\ starting' = starting \cup {j}
  /\ UNCHANGED <<gateRole, held, leased, status, listening, queue, taken,
                 callbacks, drains, silent, dropped, crowded, stopped,
                  requests, endings>>

(* startWithMode, which does not ask whether the job was stopped since: it *)
(* runs, or it fails and reports FAILED; a Submit that fails removes the   *)
(* job again.                                                              *)
Runs(j) == status[j] \in {"RUNNING", "STREAMING"}
(* Nobody is told that the slot is free.                                   *)
FreedUntold(j) == callbacks
Freed(j) == IF j \in listening THEN callbacks \cup {j} ELSE callbacks

Launch(j) ==
  /\ status' = [status EXCEPT ![j] = IF Runs(j) THEN @ ELSE "RUNNING"]
  /\ UNCHANGED callbacks
StartFails(j) ==
  /\ ~Runs(j)
  /\ status' = [status EXCEPT ![j] = "STOPPED"]
  /\ callbacks' = IF status[j] = "STOPPED" THEN callbacks ELSE Freed(j)

StartRequested(j) ==
  /\ request[j] = "starting"
  /\ request' = [request EXCEPT ![j] = "started"]
  /\ \/ Launch(j) /\ UNCHANGED <<held, listening, queue, starting>>
     \/ /\ StartFails(j)
        /\ \/ UNCHANGED <<held, listening, queue, starting>>
           \/ /\ status[j] = "CREATED"
              /\ held' = held \ {j} /\ listening' = listening \ {j}
              /\ queue' = Without(queue, j) /\ starting' = starting \ {j}
  /\ UNCHANGED <<gateRole, leased, taken, drains, silent, dropped, crowded,
                 stopped, requests, endings>>

(* startJob returns: the mark is removed and a drain goroutine started.    *)
StartReturns(j) ==
  /\ request[j] = "started"
  /\ request' = [request EXCEPT ![j] = "none"]
  /\ starting' = starting \ {j}
  /\ drains' = drains + 1
  /\ UNCHANGED <<gateRole, held, leased, status, listening, queue, taken,
                 callbacks, silent, dropped, crowded, stopped,
                 requests, endings>>

-----------------------------------------------------------------------------
(* startQueuedSnapshotJobs.                                                *)

(* A goroutine that finds no slot or no job ends ...                       *)
DrainEnds ==
  /\ drains > 0 /\ (~HasSlot \/ queue = <<>>)
  /\ drains' = drains - 1 /\ silent' = FALSE
  /\ UNCHANGED <<gateRole, held, leased, status, listening, queue, starting,
                 request, taken, callbacks, dropped, crowded, stopped,
                  requests, endings>>

(* ... and one that finds both takes the first job: one that is not in     *)
(* m.jobs or not QUEUED is forgotten.                                      *)
Startable(j) == j \in held /\ status[j] = "QUEUED"

DrainTakes ==
  LET j == Head(queue) IN
  /\ drains > 0 /\ HasSlot /\ queue # <<>>
  /\ queue' = Tail(queue)
  /\ silent' = FALSE
  /\ IF Startable(j)
     THEN /\ drains' = drains - 1
          /\ starting' = starting \cup {j}
          /\ taken' = [taken EXCEPT ![j] = "starting"]
          /\ crowded' = (crowded \/ Promised # {})
          /\ UNCHANGED dropped
     ELSE /\ dropped' = IF request[j] = "enqueued" THEN dropped \cup {j} ELSE dropped
          /\ UNCHANGED <<drains, starting, taken, crowded>>
  /\ UNCHANGED <<gateRole, held, leased, status, listening, request, callbacks,
                 stopped, requests, endings>>

(* The job it has taken is started, whatever has become of it.             *)
StartTaken(j) ==
  /\ taken[j] = "starting"
  /\ taken' = [taken EXCEPT ![j] = "started"]
  /\ Launch(j) \/ StartFails(j)
  /\ UNCHANGED <<gateRole, held, leased, listening, queue, starting, request,
                 drains, silent, dropped, crowded, stopped,
                 requests, endings>>

(* The mark is removed, and the goroutine looks at the queue again.        *)
TakenReturns(j) ==
  /\ taken[j] = "started"
  /\ taken' = [taken EXCEPT ![j] = "none"]
  /\ starting' = starting \ {j}
  /\ drains' = drains + 1
  /\ UNCHANGED <<gateRole, held, leased, status, listening, queue, request,
                 callbacks, silent, dropped, crowded, stopped,
                 requests, endings>>

-----------------------------------------------------------------------------
(* The run, its callbacks, and the ways to stop it.                        *)

(* Progress past the snapshot: the progress listener is told.              *)
SnapshotCompletes(j) ==
  /\ status[j] = "RUNNING"
  /\ status' = [status EXCEPT ![j] = "STREAMING"]
  /\ callbacks' = Freed(j)
  /\ UNCHANGED <<gateRole, held, leased, listening, queue, starting, request,
                 taken, drains, silent, dropped, crowded, stopped,
                 requests, endings>>

(* The run ends by itself: DONE, FAILED or PAUSED.                         *)
JobEnds(j) ==
  /\ Runs(j)
  /\ status' = [status EXCEPT ![j] = "STOPPED"]
  /\ callbacks' = Freed(j)
  /\ UNCHANGED <<gateRole, held, leased, listening, queue, starting, request,
                 taken, drains, silent, dropped, crowded, stopped,
                 requests, endings>>

(* The callback: the state is saved, in the worker the lease released, and *)
(* a drain goroutine started.  A job that is STREAMING keeps its lease.    *)
GateCallback(j) ==
  /\ j \in callbacks /\ callbacks' = callbacks \ {j}
  /\ drains' = drains + 1
  /\ leased' = IF status[j] = "STOPPED" THEN leased \ {j} ELSE leased
  /\ UNCHANGED <<gateRole, held, status, listening, queue, starting, request,
                 taken, silent, dropped, crowded, stopped, requests,
                 endings>>

(* requestStop: STOPPED at once, whatever the status was.                  *)
StopJob(j, asked) ==
  /\ endings < MaxEndings /\ endings' = endings + 1
  /\ status' = [status EXCEPT ![j] = "STOPPED"]
  /\ stopped' = IF asked THEN stopped \cup {j} ELSE stopped

(* Cancel: a QUEUED job leaves the queue.                                  *)
GateCancel(j) ==
  /\ gateRole = "all" /\ j \in held /\ status[j] # "STOPPED"
  /\ StopJob(j, TRUE)
  /\ queue' = IF status[j] = "QUEUED" THEN Without(queue, j) ELSE queue
  /\ callbacks' = Freed(j)
  /\ UNCHANGED <<gateRole, held, leased, listening, starting, request, taken,
                 drains, silent, dropped, crowded, requests>>

(* Delete: the job leaves the manager, its queue and its marks, and its    *)
(* listeners are detached, so that nobody hears of the slot it frees.      *)
GateDelete(j) ==
  /\ gateRole = "all" /\ j \in held
  /\ StopJob(j, TRUE)
  /\ held' = held \ {j} /\ listening' = listening \ {j}
  /\ queue' = Without(queue, j) /\ starting' = starting \ {j}
  /\ silent' = (silent \/ Occupies(j) \/ j \in starting)
  /\ UNCHANGED <<gateRole, leased, request, taken, callbacks, drains, dropped,
                 crowded, requests>>

(* The worker finds the lease lost: a run is stopped with its listeners    *)
(* detached, a QUEUED job loses the lease alone and stays in the queue.    *)
LoseLease(j) ==
  /\ j \in leased /\ request[j] = "none" /\ taken[j] = "none"
  /\ leased' = leased \ {j}
  /\ IF Runs(j)
     THEN /\ StopJob(j, FALSE) /\ listening' = listening \ {j}
          /\ silent' = (silent \/ Occupies(j))
     ELSE /\ endings < MaxEndings /\ endings' = endings + 1
          /\ UNCHANGED <<status, stopped, listening, silent>>
  /\ UNCHANGED <<gateRole, held, queue, starting, request, taken, callbacks,
                 drains, dropped, crowded, requests>>

GateNext ==
  \/ DrainEnds \/ DrainTakes
  \/ \E j \in GateJobs :
       \/ GateSubmit(j) \/ GateResubmit(j) \/ GateClaim(j)
       \/ SetQueued(j) \/ MarkStarting(j) \/ StartRequested(j) \/ StartReturns(j)
       \/ StartTaken(j) \/ TakenReturns(j)
       \/ SnapshotCompletes(j) \/ JobEnds(j) \/ GateCallback(j)
       \/ GateCancel(j) \/ GateDelete(j) \/ LoseLease(j)

GateSpec == GateInit /\ [][GateNext]_gateVars

-----------------------------------------------------------------------------
(* What the gate promises.                                                 *)

(* No slot stays free while a job waits for it: whenever the queue and a   *)
(* slot could meet, somebody is on the way to look, and a QUEUED job is in *)
(* the queue.  Excused are the two lost wake-ups of the code: a slot freed *)
(* by a deletion or a lost lease, which detach the listener, and a job     *)
(* taken from the queue before its request had made it QUEUED.             *)
SomebodyLooks ==
  \/ drains > 0 \/ callbacks # {}
  \/ \E j \in GateJobs : \/ request[j] \in {"admitted", "starting", "started"}
                         \/ taken[j] # "none"
QueueServed ==
  /\ queue # <<>> /\ HasSlot /\ ~silent => SomebodyLooks
  /\ \A j \in held :
       status[j] = "QUEUED" /\ taken[j] = "none" /\ j \notin dropped => j \in Queued

(* No more snapshots run than the limit says, unless a slot was decided on *)
(* while a request that had been given it had not marked itself yet, or a  *)
(* resumed job needed none.                                                *)
WithinLimit ==
  ~crowded => Cardinality({j \in GateJobs : Occupies(j)}) <= Limit

(* A cancelled or deleted job does not run until it is requested again.    *)
(* The code does not keep this: a stop between the moment a drain          *)
(* goroutine takes the job out of the queue, or a request is admitted, and *)
(* startWithMode sets STOPPED, which startWithMode does not look at.       *)
StopHeld == \A j \in stopped : ~Runs(j)
=============================================================================
