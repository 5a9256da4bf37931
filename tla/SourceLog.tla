------------------------------ MODULE SourceLog ------------------------------
(***************************************************************************)
(* The replicated part of a MySQL binlog, as the source hands it to a      *)
(* sink: row events and DDL events of the selected tables, and the         *)
(* checkpoint events the source emits at transaction boundaries.           *)
(*                                                                         *)
(* An entry is named by its place in the log.  All the rows of one rows    *)
(* event carry the same offset; a checkpoint carries the end position of   *)
(* its transaction.  Offsets are numbers here: binlogOffsetCovers orders   *)
(* (file sequence, position) pairs of one server the same way.             *)
(***************************************************************************)
EXTENDS Integers, Sequences, FiniteSets

CONSTANTS
  Log,        \* the entries, records with fields kind, src and off
  Source,     \* the source tables, numbered in the order of their keys
  TargetOf    \* the Iceberg table each source table is written to

Entry == DOMAIN Log
Row == {e \in Entry : Log[e].kind = "row"}
Ddl == {e \in Entry : Log[e].kind = "ddl"}
Checkpoint == {e \in Entry : Log[e].kind = "checkpoint"}
Change == Row \cup Ddl

Off(e) == Log[e].off
Target(e) == TargetOf[Log[e].src]

\* No checkpoint is saved yet: the stream starts at the beginning of the log.
NoOffset == 0
Offset == {Off(e) : e \in Checkpoint} \cup {NoOffset}

ASSUME SourceAssumption == Source \subseteq Nat /\ IsFiniteSet(Source)

\* Offsets never decrease along the log.  A checkpoint is emitted after all
\* of its transaction, and what follows it lies strictly beyond it.
ASSUME LogAssumption ==
  /\ Log \in Seq([kind : {"row", "ddl", "checkpoint"},
                  src : Source, off : Nat \ {0}])
  /\ \A e, f \in Entry : e < f => Off(e) <= Off(f)
  /\ \A e, f \in Entry : e < f /\ e \in Checkpoint => Off(e) < Off(f)
  /\ DOMAIN TargetOf = Source

\* The entries a stream that starts at offset c never delivers.
Prefix(c) == {e \in Entry : Off(e) <= c}

\* The changes of e's Iceberg table that precede e.
Before(e) == {f \in Change : f < e /\ Target(f) = Target(e)}
==============================================================================
