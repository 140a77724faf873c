----------------------------- MODULE MCOvenBatch -----------------------------
(* Two members, and two indexes (3 and 4) that refer to both. *)
EXTENDS OvenBatch

MCDomainOf == [e \in Ids |-> IF e = 4 THEN "other" ELSE "suite"]
MCSuiteOf  == [i \in Authorities |-> {1, 2}]
MCOne      == [e \in Ids |-> 1]
\* A member that measures larger than its reservation.
MCLarger   == [e \in Ids |-> IF e = 2 THEN 2 ELSE 1]
=============================================================================
