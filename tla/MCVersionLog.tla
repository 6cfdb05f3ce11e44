---------------------------- MODULE MCVersionLog ----------------------------
(***************************************************************************)
(* Catalogs for VersionLog: two tables that are created, filled, updated,  *)
(* emptied and dropped.                                                    *)
(***************************************************************************)
EXTENDS VersionLog

Row(key, val) == [key |-> key, val |-> val]

TwoTables ==
    {(1 :> {Row(1, "a")}) @@ (2 :> {Row(1, "a")}),
     (1 :> {Row(1, "b"), Row(2, "a")}) @@ (2 :> {Row(1, "a")}),
     (1 :> {Row(2, "a")}) @@ (2 :> {}),
     (1 :> {Row(2, "a")})}

OldFormat == {(1 :> {Row(1, "a")}) @@ (2 :> {Row(1, "a")})}
=============================================================================
