-------------------------- MODULE MCStoreAccounting --------------------------
(* Entries 1 and 2 share file 1 when they are staged together. *)
EXTENDS StoreAccounting

MCFilesOf == [e \in Entries |-> CASE e = 1 -> {1} [] e = 2 -> {1, 2} [] e = 3 -> {3}]
MCSizeOf  == [k \in 1..3 |-> IF k = 1 THEN 2 ELSE 1]
=============================================================================
