---------------------------- MODULE MCComponents ----------------------------
(***************************************************************************)
(* Small components that share no state, side by side in one instance for  *)
(* TLC.  The initial state chooses the component that runs; the others     *)
(* stay in an initial state in which nothing is due: the job of the health *)
(* alerts does not run, the submission of the outbox has returned, the     *)
(* runs of the Doris sink are used up.  Fairness asks nothing of them, and *)
(* the states explored are the sum of the components' states.              *)
(***************************************************************************)
EXTENDS MCDorisSink, FailureOutbox, HealthAlerts

CONSTANT FirstWorker  \* a worker: the others are like it

VARIABLE focus

allVars == <<focus, vars, outboxVars, healthVars>>

ComponentsInit ==
  /\ focus \in {"doris", "outbox", "health"}
  /\ OutboxInit /\ HealthInit
  /\ worker = FirstWorker
  /\ IF focus = "doris" THEN Init ELSE Unstarted(MaxRuns) /\ log = TwoTables
  /\ focus # "outbox" => role = "split" /\ configured = Workers
  /\ focus # "health" => ~running

ComponentsNext ==
  \/ /\ focus = "doris" /\ Next
     /\ UNCHANGED <<focus, outboxVars, healthVars>>
  \/ /\ focus = "outbox" /\ OutboxNext
     /\ UNCHANGED <<focus, vars, healthVars>>
  \/ /\ focus = "health" /\ HealthNext
     /\ UNCHANGED <<focus, vars, outboxVars>>

ComponentsSpec ==
  /\ ComponentsInit /\ [][ComponentsNext]_allVars
  /\ Fairness /\ OutboxFairness /\ HealthFairness
=============================================================================
