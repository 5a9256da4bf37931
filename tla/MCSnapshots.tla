---------------------------- MODULE MCSnapshots ----------------------------
(***************************************************************************)
(* The slots of the snapshots and the copy of a snapshot, side by side in  *)
(* one instance for TLC.  They share no state: the initial state chooses   *)
(* the one that runs, and the other stays where it begins.                 *)
(***************************************************************************)
EXTENDS MCSnapshotCopy, SnapshotGate

VARIABLE focus

SnapshotsInit ==
  /\ focus \in {"copy", "gate"}
  /\ Init /\ GateInit
  /\ focus # "copy" => conf = [Plain("append") EXCEPT !.split = 1]
  /\ focus # "gate" => gateRole = "all"

SnapshotsNext ==
  \/ /\ focus = "copy" /\ Next
     /\ UNCHANGED <<focus, gateVars>>
  \/ /\ focus = "gate" /\ GateNext
     /\ UNCHANGED <<focus, vars>>

SnapshotsSpec == SnapshotsInit /\ [][SnapshotsNext]_<<focus, vars, gateVars>>
=============================================================================
