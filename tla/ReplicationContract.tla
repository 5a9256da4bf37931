------------------------- MODULE ReplicationContract -------------------------
(***************************************************************************)
(* What the CDC part of a job promises its Iceberg tables, without saying  *)
(* how: every change of the source is written once, each table sees its    *)
(* changes in the order of the binlog, and the saved checkpoint moves      *)
(* forward and only over changes that have been written.                   *)
(***************************************************************************)
EXTENDS SourceLog

VARIABLES
  written,    \* the changes that are in the Iceberg tables
  saved       \* the durable checkpoint

contractVars == <<written, saved>>

CInit == written = {} /\ saved = NoOffset

\* One Iceberg commit adds changes that were not there and that leave no
\* earlier change of their table behind.
Write(B) ==
  /\ B # {}
  /\ B \cap written = {}
  /\ \A e \in B : Before(e) \subseteq written \cup B
  /\ written' = written \cup B
  /\ UNCHANGED saved

Save(c) ==
  /\ saved < c
  /\ Prefix(c) \cap Change \subseteq written
  /\ saved' = c
  /\ UNCHANGED written

CNext ==
  \/ \E B \in SUBSET Change : Write(B)
  \/ \E c \in Offset : Save(c)

Contract == CInit /\ [][CNext]_contractVars
==============================================================================
