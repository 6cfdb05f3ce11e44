---------------------------- MODULE MCCompaction ----------------------------
(***************************************************************************)
(* A table of two rows that is written, indexed, compacted, dropped and    *)
(* created again.                                                          *)
(***************************************************************************)
EXTENDS Compaction

CONSTANTS w1, w2
TwoWorkers == {w1, w2}
Symmetry == Permutations(Workers)
ThreeRows == 1 .. 3
OneColumn == {"c"}
=============================================================================
