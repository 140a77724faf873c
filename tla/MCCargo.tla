------------------------------- MODULE MCCargo -------------------------------
(* What runs Cargo for a user's project, each on its own: a behaviour is one *)
(* of the compatibility publisher or of the generated target cache with the  *)
(* language server's prewarm queue, and the other stays untouched.           *)
(*   publisher: two processes prepare or publish a plan and a suite.         *)
(*   cache:     two processes or server tasks share a domain (MCLspPrewarm). *)
EXTENDS LegacyPublisher, MCLspPrewarm

VARIABLE part

cargoVars == <<part, legacyVars, prewarmVars>>

CargoInit == part \in {"publisher", "cache"} /\ LegacyInit /\ PrewarmInit

CargoNext ==
    \/ part = "publisher" /\ LegacyNext /\ UNCHANGED <<part, prewarmVars>>
    \/ part = "cache" /\ PrewarmNext /\ UNCHANGED <<part, legacyVars>>

CargoSpec ==
    /\ CargoInit /\ [][CargoNext]_cargoVars
    /\ LegacyFairness /\ PrewarmFairness
=============================================================================
