---------------------------- MODULE MCWalCommit ----------------------------
(***************************************************************************)
(* Groups for WalCommit: two keyed rows with two values each, a third id,  *)
(* and a row without id.                                                   *)
(***************************************************************************)
EXTENDS WalCommit

Row(id, val) == [id |-> id, val |-> val]
KeyedRows == {Row(i, v) : i \in 1..3, v \in {"a", "b"}}
AllRows == KeyedRows \cup {Row(NoId, "a")}

Insert(rows) == [kind |-> "insert", rows |-> rows]
Delete(ids) == [kind |-> "delete", ids |-> ids]
Replace(rows) == [kind |-> "replace", rows |-> rows]

OneRow == <<<<Row(1, "a")>>>>
TwoRows == <<<<Row(1, "a"), Row(2, "a")>>>>
Unkeyed == <<<<Row(NoId, "a")>>>>

\* Single writes: insert, delete, rewrite, and a batch of two pages.
Writes ==
    {<<Insert(<<Row(3, "a")>>)>>, <<Delete(<<1, 2>>)>>,
     <<Replace(<<Row(2, "b"), Row(1, "b"), Row(3, "b")>>)>>,
     <<Insert(<<Row(3, "a"), Row(1, "b")>>)>>}

\* Transactions that update, move and rewrite rows, one row per insert.
Transactions ==
    {<<Delete(<<1, 2>>), Insert(<<Row(2, "b")>>), Insert(<<Row(3, "a")>>)>>,
     <<Replace(<<Row(3, "b"), Row(1, "b")>>), Insert(<<Row(2, "b")>>)>>}

AllGroups == Writes \cup Transactions

\* Smaller choices, each for one question: two operations, one operation, a
\* batch, a second copy of a row without id.
TwoInserts == {<<Insert(<<Row(2, "a")>>), Insert(<<Row(3, "a")>>)>>}
OneInsert == {<<Insert(<<Row(2, "a")>>)>>}
Batches == {<<Insert(<<Row(2, "a"), Row(3, "a")>>)>>}
Copies == {<<Insert(<<Row(NoId, "a")>>)>>}
=============================================================================
