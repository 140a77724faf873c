--------------------------- MODULE OvenBatchProofs ---------------------------
(***************************************************************************)
(* Proofs about OvenBatch, for every store, batch, limit and suite.  What   *)
(* is wanted of a step needs to know who may be leased and what is durable *)
(* while a batch is being committed; BatchInv collects those facts.        *)
(***************************************************************************)
EXTENDS OvenBatch, TLAPS

\* Leases are only of visible entries, and none is of an entry this batch
\* renamed, because taking one needs the manager lock.
LeaseInv == leased \subseteq present \ published

\* Once the members are synchronized nothing visible can be lost any more.
DurableInv == pc = "authority" => present \subseteq durable

\* A publisher that is not in the store has no batch; only a batch that was
\* swept for twice has renamed anything, and the index is left for last.
PhaseInv == /\ pc = "idle" => pending = {}
            /\ published \subseteq pending
            /\ pc \notin {"commit", "authority"} => published = {}
            /\ pc = "authority" => pending \ Authorities \subseteq published

BatchInv == TypeOK /\ RenameTargetsAreFree /\ LeaseInv /\ DurableInv /\ PhaseInv

\* Touching entries leaves a stamp for every entry.
LEMMA TouchType ==
    ASSUME NEW S, lastUsed \in [Ids -> Nat], clock \in Nat
    PROVE  Touch(S) \in [Ids -> Nat]
BY DEF Touch

\* The empty store of a fresh layout satisfies the invariant.
LEMMA BatchInit == Init => BatchInv
<1> SUFFICES ASSUME Init PROVE BatchInv
    OBVIOUS
<1>1. TypeOK
  BY DEF Init, TypeOK
<1>2. RenameTargetsAreFree /\ LeaseInv /\ DurableInv /\ PhaseInv
  BY DEF Init, RenameTargetsAreFree, LeaseInv, DurableInv, PhaseInv
<1> QED
  BY <1>1, <1>2 DEF BatchInv

\* Every step of the publisher and of the machine around it preserves it.
LEMMA BatchStep == BatchInv /\ [Next]_vars => BatchInv'
<1> SUFFICES ASSUME BatchInv, [Next]_vars PROVE BatchInv'
    OBVIOUS
<1> USE BatchAssumption DEF BatchInv, TypeOK, RenameTargetsAreFree, LeaseInv, DurableInv, PhaseInv
<1>1. CASE Begin
  <2>1. PICK B \in Batches :
          /\ lastUsed' = Touch(B \cap present)
          /\ \/ ReturnFromBatch
             \/ /\ pc' = "sweep" /\ pending' = B \ present /\ todo' = present
                /\ UNCHANGED <<measured, published>>
    BY <1>1, Zenon DEF Begin, NotRetained
  <2>2. lastUsed' \in [Ids -> Nat]
    BY <2>1, TouchType
  <2>3. pc = "idle" /\ UNCHANGED <<present, durable, clock, leased>>
    BY <1>1 DEF Begin
  <2>4. CASE ReturnFromBatch
    BY <2>2, <2>3, <2>4 DEF ReturnFromBatch
  <2>5. CASE /\ pc' = "sweep" /\ pending' = B \ present /\ todo' = present
             /\ UNCHANGED <<measured, published>>
    <3>1. TypeOK'
      BY <2>2, <2>3, <2>5
    <3> QED
      BY <2>3, <2>5, <3>1
  <2> QED
    BY <2>1, <2>4, <2>5
<1>2. CASE SweepVisit
  BY <1>2 DEF SweepVisit, TryLockEntry
<1>3. CASE SweepEnds
  BY <1>3 DEF SweepEnds
<1>4. CASE Stage
  <2>1. lastUsed' \in [Ids -> Nat]
    <3>1. lastUsed' = Touch(pending) \/ UNCHANGED lastUsed
      BY <1>4, Zenon DEF Stage
    <3> QED
      BY <3>1, TouchType
  <2>2. \/ ReturnFromBatch
        \/ pc' = "sweep" /\ measured' = TRUE /\ todo' = present /\ UNCHANGED <<pending, published>>
    BY <1>4, Zenon DEF Stage
  <2>3. pc = "stage" /\ UNCHANGED <<present, durable, clock, leased>>
    BY <1>4 DEF Stage
  <2> QED
    BY <2>1, <2>2, <2>3 DEF ReturnFromBatch
<1>5. CASE GiveUp
  BY <1>5 DEF GiveUp, ReturnFromBatch
<1>6. CASE CommitMember
  BY <1>6 DEF CommitMember
<1>7. CASE SyncMembers
  BY <1>7 DEF SyncMembers
<1>8. CASE CommitAuthority
  BY <1>8 DEF CommitAuthority
<1>9. CASE Rollback
  BY <1>9 DEF Rollback, ReturnFromBatch
<1>10. CASE Finish
  BY <1>10 DEF Finish, ReturnFromBatch
<1>11. CASE TakeLease
  BY <1>11 DEF TakeLease
<1>12. CASE DropLease
  BY <1>12 DEF DropLease
<1>13. CASE OtherSweep
  BY <1>13 DEF OtherSweep
<1>14. CASE Crash
  BY <1>14 DEF Crash, ReturnFromBatch
<1>15. CASE PowerLoss
  <2>1. PICK S \in SUBSET (present \cup durable) : present' = S /\ durable' = S
    BY <1>15 DEF PowerLoss
  <2>2. leased' = {} /\ ReturnFromBatch /\ UNCHANGED <<lastUsed, clock>>
    BY <1>15 DEF PowerLoss
  <2>3. TypeOK'
    BY <2>1, <2>2 DEF ReturnFromBatch
  <2> QED
    BY <2>1, <2>2, <2>3 DEF ReturnFromBatch
<1>16. CASE Tick
  BY <1>16 DEF Tick
<1>17. CASE UNCHANGED vars
  BY <1>17 DEF vars
<1> QED
  BY <1>1, <1>2, <1>3, <1>4, <1>5, <1>6, <1>7, <1>8, <1>9, <1>10, <1>11, <1>12,
     <1>13, <1>14, <1>15, <1>16, <1>17 DEF Next, Publisher

\* BatchInv is an invariant of publish_batch and everything around it.
THEOREM BatchInvariantHolds == Spec => []BatchInv
BY BatchInit, BatchStep, PTL DEF Spec

\* The state of publish_batch keeps its types for every store and batch.
THEOREM BatchTypeCorrect == Spec => []TypeOK
<1>1. BatchInv => TypeOK
  BY DEF BatchInv
<1> QED
  BY <1>1, BatchInvariantHolds, PTL

\* For every batch, no rename of publish_batch meets an entry that is there
\* already, through both sweeps, retries and deaths.
THEOREM RenameTargetsStayFree == Spec => []RenameTargetsAreFree
<1>1. BatchInv => RenameTargetsAreFree
  BY DEF BatchInv
<1> QED
  BY <1>1, BatchInvariantHolds, PTL

\* For every suite, an index becomes visible only when every visible member it
\* refers to is durable: only CommitAuthority adds an index, after SyncMembers.
THEOREM IndexFollowsDurableMembers == Spec => AuthorityAfterDurableMembers
<1>1. ASSUME BatchInv, [Next]_vars
      PROVE  [\A i \in Authorities :
                pc # "idle" /\ pc' # "idle" /\ i \notin present /\ i \in present' =>
                    Suite[i] \cap present \subseteq durable]_vars
  <2> SUFFICES ASSUME NEW i \in Authorities, pc # "idle", pc' # "idle",
                      i \notin present, i \in present'
               PROVE  Suite[i] \cap present \subseteq durable
    OBVIOUS
  <2>1. CommitAuthority
    <3>1. ~Begin /\ ~TakeLease /\ ~OtherSweep
      BY DEF Begin, TakeLease, OtherSweep
    <3>2. ~GiveUp /\ ~Rollback /\ ~Finish /\ ~Crash /\ ~PowerLoss
      BY DEF GiveUp, Rollback, Finish, Crash, PowerLoss, ReturnFromBatch
    <3>3. ~SweepVisit /\ ~SweepEnds /\ ~Stage /\ ~SyncMembers /\ ~DropLease /\ ~Tick
      BY DEF SweepVisit, SweepEnds, Stage, SyncMembers, DropLease, Tick
    <3>4. ~CommitMember
      BY DEF CommitMember
    <3>5. ~UNCHANGED vars
      BY DEF vars
    <3> QED
      BY <1>1, <3>1, <3>2, <3>3, <3>4, <3>5 DEF Next, Publisher
  <2> QED
    BY <1>1, <2>1 DEF CommitAuthority, BatchInv, DurableInv
<1> QED
  BY <1>1, BatchInvariantHolds, PTL DEF Spec, AuthorityAfterDurableMembers

\* For every batch, neither publish_batch's sweeps nor its rollback, which
\* looks at no lock, takes a leased entry away.
THEOREM LeasedEntriesSurvive == Spec => LeasedSurvives
<1>1. ASSUME BatchInv, [Next]_vars
      PROVE  [leased' # {} => leased \cap present \subseteq present']_vars
  <2> SUFFICES ASSUME leased' # {}
               PROVE  leased \cap present \subseteq present'
    OBVIOUS
  <2> USE DEF BatchInv, LeaseInv
  <2>1. CASE SweepVisit
    BY <1>1, <2>1 DEF SweepVisit, TryLockEntry
  <2>2. CASE Rollback
    BY <1>1, <2>2 DEF Rollback
  <2>3. CASE OtherSweep
    BY <1>1, <2>3 DEF OtherSweep
  <2>4. CASE PowerLoss
    BY <2>4 DEF PowerLoss
  <2>5. CASE CommitMember \/ CommitAuthority
    BY <2>5 DEF CommitMember, CommitAuthority
  <2>6. CASE Begin \/ SweepEnds \/ Stage \/ GiveUp \/ SyncMembers \/ Finish \/ TakeLease
             \/ DropLease \/ Crash \/ Tick \/ UNCHANGED vars
    BY <2>6 DEF Begin, SweepEnds, Stage, GiveUp, SyncMembers, Finish, TakeLease,
                DropLease, Crash, Tick, vars
  <2> QED
    BY <1>1, <2>1, <2>2, <2>3, <2>4, <2>5, <2>6 DEF Next, Publisher
<1> QED
  BY <1>1, BatchInvariantHolds, PTL DEF Spec, LeasedSurvives
=============================================================================
