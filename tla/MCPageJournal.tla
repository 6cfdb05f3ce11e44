--------------------------- MODULE MCPageJournal ---------------------------
(***************************************************************************)
(* Three pages, two images besides the zero page, a pool of two pages.     *)
(***************************************************************************)
EXTENDS PageJournal, TLC

CONSTANTS p1, p2, p3, zero, a, b
SomePages == {p1, p2, p3}
ThreeImages == {zero, a, b}
Symmetry == Permutations(SomePages) \cup Permutations({a, b})
=============================================================================
