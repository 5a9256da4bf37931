----------------------------- MODULE MCDorisSink -----------------------------
(***************************************************************************)
(* Logs of a job that writes to Doris, for TLC.                            *)
(***************************************************************************)
EXTENDS DorisSink

Chunk(t, keys) == [kind |-> "chunk", target |-> t, keys |-> keys]
Complete == [kind |-> "complete"]
Checkpoint == [kind |-> "checkpoint"]
Put(t, k, old) == [kind |-> "put", target |-> t, key |-> k, old |-> old]
Drop(t, k) == [kind |-> "delete", target |-> t, key |-> k]
DDL(kind, t) == [kind |-> kind, target |-> t, key |-> 1]

\* Two tables behind one checkpoint, a row whose key changes, a batch that is
\* full while the other table has rows from before the checkpoint, and a table
\* that is emptied.
TwoTables ==
  <<Complete, Put(2, 1, NoKey), Put(1, 2, 1), Checkpoint, Put(2, 2, NoKey),
    DDL("truncate", 2), Checkpoint>>

\* A snapshot in two pieces, and a column that is added.
NewColumn ==
  <<Chunk(1, <<1, 2, 3>>), Complete, Checkpoint, DDL("add", 1), Put(1, 2, 2),
    Drop(1, 1), Put(1, 1, NoKey), Checkpoint>>

AllLogs == {TwoTables, NewColumn}
==============================================================================
