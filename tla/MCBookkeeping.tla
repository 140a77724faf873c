---------------------------- MODULE MCBookkeeping ----------------------------
(* What the store remembers and what it counts, each on its own: a behaviour *)
(* is one of the catalogs or of the accounting, and the other part stays     *)
(* untouched.                                                                *)
(*   catalog:    two processes, three entries in two domains                 *)
(*               (MCStoreCatalog).                                           *)
(*   accounting: three entries, two of which share a file when they are      *)
(*               staged together (MCStoreAccounting).                        *)
EXTENDS MCStoreCatalog, MCStoreAccounting

VARIABLE part

bookkeepingVars == <<part, vars, accountingVars>>

BookkeepingInit == part \in {"catalog", "accounting"} /\ Init /\ AccountingInit

BookkeepingNext ==
    \/ part = "catalog" /\ Next /\ UNCHANGED <<part, accountingVars>>
    \/ part = "accounting" /\ AccountingNext /\ UNCHANGED <<part, vars>>

BookkeepingSpec == BookkeepingInit /\ [][BookkeepingNext]_bookkeepingVars
=============================================================================
