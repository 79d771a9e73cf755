---------------------------- MODULE MCReplication ----------------------------
(* Two tables: rows 1 and 2 are in the one that is copied first.           *)
EXTENDS Replication, TLC

TwoTables == (1 :> 1) @@ (2 :> 1) @@ (3 :> 2)

OneTable == (1 :> 1) @@ (2 :> 1)
=============================================================================
