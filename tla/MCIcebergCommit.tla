--------------------------- MODULE MCIcebergCommit ---------------------------
(***************************************************************************)
(* Binlogs for TLC.  Offsets are positions in one binlog file.             *)
(***************************************************************************)
EXTENDS IcebergCommit

RowAt(s, o) == [kind |-> "row", src |-> s, off |-> o]
DdlAt(s, o) == [kind |-> "ddl", src |-> s, off |-> o]
CheckpointAt(o) == [kind |-> "checkpoint", src |-> 1, off |-> o]

\* Source tables 1 and 2 share an Iceberg table.
SharedTarget == <<"a", "a">>

\* A rows event with two rows, a batch that a checkpoint cuts in two, and a
\* schema change behind the rows of a table.
SharedLog ==
  <<RowAt(1, 1), RowAt(1, 1), CheckpointAt(2), RowAt(1, 3), RowAt(2, 4),
    DdlAt(2, 5), CheckpointAt(5)>>

TwoTargets == <<"a", "b">>

\* Batches of two tables held back by one checkpoint.
BarrierLog ==
  <<RowAt(1, 1), RowAt(2, 2), CheckpointAt(3), RowAt(1, 4), CheckpointAt(5)>>
==============================================================================
