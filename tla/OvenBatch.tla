------------------------------ MODULE OvenBatch ------------------------------
(***************************************************************************)
(* publish_batch of oven_store/src/store.rs: a compiler-suite index and    *)
(* the members it refers to, published together under one manager lock.    *)
(* Members are renamed first, the entries directory is synchronized, and   *)
(* the index is renamed last.  Around the one publisher, other processes   *)
(* take and drop leases and sweep, publishers die, and the machine loses   *)
(* power: a rename or removal that was not synchronized may then be undone.*)
(* Staging directories matter only to their publisher, and are its locals; *)
(* entries removed only in part are the subject of OvenStore, and here a   *)
(* removal is one step.                                                    *)
(***************************************************************************)
EXTENDS Naturals, FiniteSets, FiniteSetsExt

CONSTANTS
    Ids, Domains, DomainOf,
    Authorities,              \* entries of kind CompilerTestSuite
    Suite,                    \* the entries an authority's payload refers to
    Batches,                  \* the identity sets a publisher may be given
    Logical, Reserve, Physical,
    MaxPhysical, MaxDomainPhysical, MaxDomainLogical,
    MaxClock                  \* bound: seconds that pass

ASSUME BatchAssumption ==
    /\ IsFiniteSet(Ids) /\ Ids \subseteq Nat
    /\ DomainOf \in [Ids -> Domains]
    /\ Authorities \subseteq Ids
    /\ Suite \in [Authorities -> SUBSET Ids]
    /\ Batches \subseteq (SUBSET Ids) \ {{}}
    /\ Logical \in [Ids -> Nat] /\ Reserve \in [Ids -> Nat] /\ Physical \in [Ids -> Nat]
    /\ MaxPhysical \in Nat /\ MaxDomainPhysical \in Nat /\ MaxDomainLogical \in Nat
    /\ MaxClock \in Nat

VARIABLES
    present,    \* the entries visible under entries/
    durable,    \* the entries the synchronized directory holds
    lastUsed,   \* access stamps
    clock,
    leased,     \* entries some process has a lease of
    pc,         \* where the publisher is
    pending,    \* the members of the batch that were not retained
    measured,   \* the second sweep, by measured bytes, is under way
    todo,       \* entries the sweep has yet to visit
    published   \* members of this batch already renamed

vars == <<present, durable, lastUsed, clock, leased, pc, pending, measured, todo, published>>

Init ==
    /\ present = {} /\ durable = {}
    /\ lastUsed = [e \in Ids |-> 0] /\ clock = 0
    /\ leased = {}
    /\ pc = "idle" /\ pending = {} /\ measured = FALSE /\ todo = {} /\ published = {}

-----------------------------------------------------------------------------
(* The related-batch policy. *)

InDomain(S, d) == {e \in S : DomainOf[e] = d}
LogicalOf(S)  == MapThenSumSet(LAMBDA e : Logical[e], S)
PhysicalOf(S) == MapThenSumSet(LAMBDA e : Physical[e], S)
\* Pending bytes: the conservative reservation, or the staged measurement.
PendingBytes(S, m) == MapThenSumSet(LAMBDA e : IF m THEN Physical[e] ELSE Reserve[e], S)

\* The batch alone exceeds a domain's allowance.
Oversized(S, m) ==
    \E d \in Domains : \/ LogicalOf(InDomain(S, d)) > MaxDomainLogical
                       \/ PendingBytes(InDomain(S, d), m) > MaxDomainPhysical

\* related_policy_offending_domains
OffendingDomains ==
    {d \in {DomainOf[e] : e \in pending} :
        \/ LogicalOf(InDomain(present, d)) + LogicalOf(InDomain(pending, d)) > MaxDomainLogical
        \/ PhysicalOf(InDomain(present, d)) + PendingBytes(InDomain(pending, d), measured)
              > MaxDomainPhysical}

\* related_policy_satisfied
PolicyMet == /\ PhysicalOf(present) + PendingBytes(pending, measured) <= MaxPhysical
             /\ OffendingDomains = {}

-----------------------------------------------------------------------------
(* The publisher. *)

ReturnFromBatch ==
    /\ pc' = "idle" /\ pending' = {} /\ measured' = FALSE
    /\ todo' = {} /\ published' = {}

\* Only genuinely new entries are staged and consume admission capacity.
NotRetained(B) == B \ present

Touch(S) == [e \in Ids |-> IF e \in S THEN clock ELSE lastUsed[e]]

\* Under the manager lock: retained members are verified and touched.
Begin ==
    /\ pc = "idle"
    /\ \E B \in Batches :
         /\ \A e \in B : Logical[e] <= MaxDomainLogical
         /\ lastUsed' = Touch(B \cap present)
         /\ IF B \subseteq present \/ Oversized(NotRetained(B), FALSE)
              THEN ReturnFromBatch
              ELSE /\ pc' = "sweep" /\ pending' = NotRetained(B) /\ todo' = present
                   /\ UNCHANGED <<measured, published>>
    /\ UNCHANGED <<present, durable, clock, leased>>

IsNext(e) == \A f \in todo \ {e} : \/ lastUsed[e] < lastUsed[f]
                                   \/ lastUsed[e] = lastUsed[f] /\ e < f

TryLockIgnoresReaders(e) == e \in Ids
TryLockEntry(e) == e \notin leased

\* prune_related_to_limits, one entry at a time.
SweepVisit ==
    /\ pc = "sweep" /\ todo # {} /\ ~PolicyMet
    /\ \E e \in todo :
         /\ IsNext(e)
         /\ todo' = todo \ {e}
         /\ present' = IF \/ OffendingDomains # {} /\ DomainOf[e] \notin OffendingDomains
                          \/ ~TryLockEntry(e)
                         THEN present ELSE present \ {e}
    /\ UNCHANGED <<durable, lastUsed, clock, leased, pc, pending, measured, published>>

SweepEnds ==
    /\ pc = "sweep" /\ (todo = {} \/ PolicyMet)
    /\ pc' = IF measured THEN "commit" ELSE "stage"
    /\ todo' = {}
    /\ UNCHANGED <<present, durable, lastUsed, clock, leased, pending, measured, published>>

\* Every pending member is written to private staging and measured there.
Stage ==
    /\ pc = "stage"
    /\ IF Oversized(pending, TRUE) THEN ReturnFromBatch /\ UNCHANGED lastUsed
       ELSE /\ pc' = "sweep" /\ measured' = TRUE /\ todo' = present
            /\ lastUsed' = Touch(pending)
            /\ UNCHANGED <<pending, published>>
    /\ UNCHANGED <<present, durable, clock, leased>>

SingleAuthority == Cardinality(pending \cap Authorities) <= 1

\* A sweep or staging fails, or the batch holds two authorities:
\* cleanup_batch_staging.
GiveUp ==
    /\ \/ pc \in {"sweep", "stage"}
       \/ pc = "commit" /\ ~SingleAuthority
    /\ ReturnFromBatch
    /\ UNCHANGED <<present, durable, lastUsed, clock, leased>>

\* Members first; authorities sort last.
CommitMember ==
    /\ pc = "commit" /\ SingleAuthority
    /\ \E e \in pending \ (published \cup Authorities) :
         /\ present' = present \cup {e}
         /\ published' = published \cup {e}
    /\ UNCHANGED <<durable, lastUsed, clock, leased, pc, pending, measured, todo>>

\* sync_directory before the authority, whoever renamed the members.
SyncOnlyNewMembers ==
    /\ pc = "commit" /\ SingleAuthority
    /\ pending \cap Authorities # {} /\ pending \ Authorities \subseteq published
    /\ durable' = IF published = {} THEN durable ELSE present
    /\ pc' = "authority"
    /\ UNCHANGED <<present, lastUsed, clock, leased, pending, measured, todo, published>>

SyncMembers ==
    /\ pc = "commit" /\ SingleAuthority
    /\ pending \cap Authorities # {} /\ pending \ Authorities \subseteq published
    /\ durable' = present
    /\ pc' = "authority"
    /\ UNCHANGED <<present, lastUsed, clock, leased, pending, measured, todo, published>>

CommitAuthority ==
    /\ pc = "authority"
    /\ present' = present \cup (pending \cap Authorities)
    /\ published' = pending
    /\ pc' = "commit"
    /\ UNCHANGED <<durable, lastUsed, clock, leased, pending, measured, todo>>

\* A failing rename or sync removes what this batch renamed, without looking at
\* leases; a removal that fails as well is ignored.
Rollback ==
    /\ pc \in {"commit", "authority"} /\ SingleAuthority /\ published # pending
    /\ \E S \in SUBSET published : present' = present \ S
    /\ ReturnFromBatch
    /\ UNCHANGED <<durable, lastUsed, clock, leased>>

\* The last sync_directory; if it fails the batch is visible all the same.
Finish ==
    /\ pc = "commit" /\ published = pending
    /\ durable' \in {durable, present}
    /\ ReturnFromBatch
    /\ UNCHANGED <<present, lastUsed, clock, leased>>

-----------------------------------------------------------------------------
(* The rest of the machine. *)

\* A selection, and with it a touch, needs the manager lock; a drop does not.
TakeLease ==
    /\ pc = "idle"
    /\ \E e \in present : /\ leased' = leased \cup {e}
                          /\ lastUsed' = [lastUsed EXCEPT ![e] = clock]
    /\ UNCHANGED <<present, durable, clock, pc, pending, measured, todo, published>>

DropLease ==
    /\ \E e \in leased : leased' = leased \ {e}
    /\ UNCHANGED <<present, durable, lastUsed, clock, pc, pending, measured, todo, published>>

\* Another process's sweep, synchronized by nobody.
OtherSweep ==
    /\ pc = "idle"
    /\ \E e \in present \ leased : present' = present \ {e}
    /\ UNCHANGED <<durable, lastUsed, clock, leased, pc, pending, measured, todo, published>>

\* The publisher dies; the manager lock goes with it.
Crash ==
    /\ pc # "idle"
    /\ ReturnFromBatch
    /\ UNCHANGED <<present, durable, lastUsed, clock, leased>>

PowerLoss ==
    /\ \E S \in SUBSET (present \cup durable) :
         /\ present \cap durable \subseteq S
         /\ present' = S /\ durable' = S
    /\ leased' = {}
    /\ ReturnFromBatch
    /\ UNCHANGED <<lastUsed, clock>>

Tick ==
    /\ clock < MaxClock
    /\ clock' = clock + 1
    /\ UNCHANGED <<present, durable, lastUsed, leased, pc, pending, measured, todo, published>>

Publisher == \/ Begin \/ SweepVisit \/ SweepEnds \/ Stage \/ GiveUp
             \/ CommitMember \/ SyncMembers \/ CommitAuthority \/ Rollback \/ Finish

Next == Publisher \/ TakeLease \/ DropLease \/ OtherSweep \/ Crash \/ PowerLoss \/ Tick

Spec == Init /\ [][Next]_vars

-----------------------------------------------------------------------------
(* Properties. *)

\* Every variable has its type.
TypeOK ==
    /\ present \subseteq Ids /\ durable \subseteq Ids /\ leased \subseteq Ids
    /\ lastUsed \in [Ids -> Nat] /\ clock \in Nat
    /\ pc \in {"idle", "sweep", "stage", "commit", "authority"}
    /\ pending \subseteq Ids /\ todo \subseteq Ids /\ published \subseteq Ids
    /\ measured \in BOOLEAN

\* When an authority becomes visible, every member it refers to that is
\* visible is durable too, also the ones an earlier attempt renamed before its
\* publisher died: a power loss cannot take a member and leave the index.
AuthorityAfterDurableMembers ==
    [][\A i \in Authorities :
          pc # "idle" /\ pc' # "idle" /\ i \notin present /\ i \in present' =>
              Suite[i] \cap present \subseteq durable]_vars

\* Short of a power loss, which leaves no lease, no entry vanishes under one:
\* the sweeps skip it, and the rollback, which does not look at leases, only
\* meets entries of its own.
LeasedSurvives ==
    [][leased' # {} => leased \cap present \subseteq present']_vars

\* What a batch is going to rename is not there yet: nothing it found retained
\* is staged again, and nobody renames the same identity in between.
RenameTargetsAreFree ==
    pc \in {"sweep", "stage", "commit", "authority"} =>
        pending \cap present = published

-----------------------------------------------------------------------------
(* What a comment says and the code does not do. *)

\* An authority that becomes visible refers to visible members only.
NeverExposesPartialSuite ==
    [][\A i \in Authorities :
          pc = "authority" /\ i \notin present /\ i \in present' =>
              Suite[i] \subseteq present']_vars
=============================================================================
