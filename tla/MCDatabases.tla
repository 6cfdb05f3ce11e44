---------------------------- MODULE MCDatabases -----------------------------
(***************************************************************************)
(* Two databases and two or three clients.                                 *)
(***************************************************************************)
EXTENDS Databases, TLC

TwoNames == {1, 2}
=============================================================================
