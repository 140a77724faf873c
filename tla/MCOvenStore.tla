----------------------------- MODULE MCOvenStore -----------------------------
(* Small instances of the store: two processes and up to four entries. *)
EXTENDS OvenStore, TLC

\* Entries of two releases; entries of one release and the compiler suite.
MCReleases  == [e \in Ids |-> IF e = 1 THEN "r2" ELSE "r1"]
MCSuite     == [e \in Ids |-> IF e = 2 THEN "suite" ELSE "r1"]
MCLogical   == [e \in Ids |-> 1]
\* Entry 2 measures larger than its reservation, so it is swept for twice.
\* Entry 4 even exceeds its domain's allowance.
MCPhysical  == [e \in Ids |-> CASE e = 2 -> 2 [] e = 4 -> 3 [] OTHER -> 1]
MCReserve   == [e \in Ids |-> 1]
\* Entries 2 and 3 carry the same content under two receipts.
MCContent   == [e \in Ids |-> IF e \in {2, 3} THEN "b" ELSE "a"]

ProcSymmetry == Permutations(Procs)
=============================================================================
