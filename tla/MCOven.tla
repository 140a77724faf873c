-------------------------------- MODULE MCOven --------------------------------
(* Two parts of oven_store, each on its own: a behaviour is one of           *)
(* publish_batch or of run_bounded_process, and the other stays untouched.   *)
(*   batch:   two members and two indexes that refer to both (MCOvenBatch).  *)
(*   process: a child and one descendant (MCBoundedProcess).                 *)
EXTENDS MCOvenBatch, MCBoundedProcess

VARIABLE part

ovenVars == <<part, vars, processVars>>

OvenInit ==
    /\ part \in {"batch", "process"}
    /\ Init /\ ProcessInit
    /\ part # "process" => ~cancelled

OvenNext ==
    \/ part = "batch" /\ Next /\ UNCHANGED <<part, processVars>>
    \/ part = "process" /\ ProcessNext /\ UNCHANGED <<part, vars>>

OvenSpec == OvenInit /\ [][OvenNext]_ovenVars /\ ProcessFairness
=============================================================================
