---------------------------- MODULE MCStoreCatalog ----------------------------
(* Entries 1 and 2 have a file in common; 3 is of another domain. *)
EXTENDS StoreCatalog

CONSTANTS p1, p2

MCDomainOf  == [e \in Ids |-> IF e = 3 THEN "lib" ELSE "app"]
MCFiles     == [e \in Ids |-> CASE e = 1 -> {"a"} [] e = 2 -> {"a", "b"} [] e = 3 -> {"c"}]
MCFileBytes == [k \in {"a", "b", "c"} |-> 1]
Symmetry    == Permutations({p1, p2})
=============================================================================
