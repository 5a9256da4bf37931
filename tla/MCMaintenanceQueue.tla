------------------------ MODULE MCMaintenanceQueue ------------------------
(***************************************************************************)
(* The pools: one executor of compactions and one of expirations, or the   *)
(* first alone.                                                            *)
(***************************************************************************)
EXTENDS MaintenanceQueue

CONSTANTS c1, x1

MCExecutor == {c1, x1}
MCOpOf ==
  [e \in MCExecutor |-> IF e = c1 THEN "compact" ELSE "expire_snapshots"]

MCCompactor == {c1}
MCCompactorOp == [e \in MCCompactor |-> "compact"]
\* The second request of a user meets no commit of the table and no exit of
\* the worker: each pair is covered, their product is not.
FewEvents == requests <= 1 \/ (head = 1 /\ exits = 0)
=============================================================================
