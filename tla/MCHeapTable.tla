---------------------------- MODULE MCHeapTable ----------------------------
(***************************************************************************)
(* Rows for HeapTable.  The val column runs against the id column, so that *)
(* the two indexes split at different times.                               *)
(***************************************************************************)
EXTENDS HeapTable

Row(id, val) == [id |-> id, val |-> val]

\* No two rows share a val; one row has no id, one no val.
DistinctRows == {Row(1, 5), Row(2, 3), Row(3, NoKey), Row(4, 2), Row(5, 1), Row(NoKey, 4)}
DistinctDeletes == {<<1>>, <<2>>, <<4>>, <<5>>, <<2, 1>>, <<4, 4>>}
DistinctRewrites == {<<Row(4, 2), Row(1, 5), Row(2, 3)>>,
                     <<Row(1, 5), Row(2, 3), Row(3, NoKey), Row(NoKey, 4), Row(4, 2), Row(5, 1)>>}

\* Rows that share vals, four of them in place at the start of a call.
SharedRows == {Row(1, 3), Row(2, 3), Row(3, 3), Row(4, 5), Row(5, 2), Row(6, 2), Row(7, 4)}
SharedDeletes == {<<1>>}
SharedRewrites == {<<Row(1, 3), Row(2, 3), Row(3, 3), Row(4, 5)>>}

\* A few rows, all with an id.
FewRows == {Row(i, i) : i \in 1..4}
FewDeletes == {<<i>> : i \in 1..4}
FewRewrites == {}
=============================================================================
