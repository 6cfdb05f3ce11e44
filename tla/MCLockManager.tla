--------------------------- MODULE MCLockManager ---------------------------
(***************************************************************************)
(* Three transactions, three exclusive keys and one shared key.            *)
(***************************************************************************)
EXTENDS LockManager, TLC

CONSTANTS t1, t2, t3, table, row1, row2, row3
ThreeTx == {t1, t2, t3}
FourKeys == {table, row1, row2, row3}
OneShared == {table}
Symmetry == Permutations(Tx) \cup Permutations({row1, row2, row3})
=============================================================================
