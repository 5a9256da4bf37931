--------------------------- MODULE MCScopedRebuild ---------------------------
(***************************************************************************)
(* A job with a filtered and an unfiltered table for TLC.                  *)
(***************************************************************************)
EXTENDS ScopedRebuild

\* The second table is filtered.  Its first key is in the target outside of
\* the scope, because the row has moved across the cutoff; of the keys the
\* source query does not return, one is inside of the scope and one outside.
Rows == <<<<"a">>, <<"a", "b">>>>

Found == <<[k \in Keys |-> IF k = "a" THEN "inside" ELSE "absent"],
           [k \in Keys |-> CASE k \in {"a", "d"} -> "outside"
                             [] k = "c" -> "inside"
                             [] OTHER -> "absent"]>>

Updated == {<<2, "a">>}
==============================================================================
