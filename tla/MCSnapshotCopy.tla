--------------------------- MODULE MCSnapshotCopy ---------------------------
(***************************************************************************)
(* Configurations of a snapshot for TLC.                                   *)
(***************************************************************************)
EXTENDS SnapshotCopy

Plain(mode) == [mode |-> mode, trino |-> FALSE, rolling |-> FALSE,
                split |-> 2, stale |-> FALSE]

AllConfs ==
  {[Plain("append") EXCEPT !.split = 1],
   [Plain("append") EXCEPT !.rolling = TRUE],
   [Plain("auto") EXCEPT !.stale = TRUE],
   [Plain("auto") EXCEPT !.trino = TRUE, !.stale = TRUE],
   [Plain("auto") EXCEPT !.trino = TRUE, !.rolling = TRUE],
   [Plain("truncate") EXCEPT !.trino = TRUE, !.stale = TRUE],
   [Plain("truncate") EXCEPT !.rolling = TRUE, !.stale = TRUE],
   [Plain("truncate") EXCEPT !.stale = TRUE]}

TruncatedByTrino ==
  {[Plain("truncate") EXCEPT !.trino = TRUE, !.rolling = TRUE]}

\* Three rows, read as two chunks, and a table of one row.
TwoTables == <<{1, 2, 3}, {1}>>

\* One row, to which another one is added and removed again.
OneRow == <<{1}>>
==============================================================================
