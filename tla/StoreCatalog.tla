---------------------------- MODULE StoreCatalog ----------------------------
(***************************************************************************)
(* The in-memory catalog every process keeps of an Oven store              *)
(* (StoreManifestMemo, StoreCapacity and RetainedPayloadIndex).  It spares *)
(* a selection the walk over the entries and a publication its admission   *)
(* sweep, and it is trusted exactly while its stamp equals the stamp of    *)
(* the entries directory.  Other processes change the directory behind     *)
(* its back; only this process's own publications advance it.              *)
(*                                                                         *)
(* Every operation holds the manager lock (OvenStore), so one operation is *)
(* one action.  Recency is abstracted: a sweep may visit the entries in    *)
(* any order.  Reservations are taken as exact, and logical bytes, which   *)
(* are never shared, are left to OvenStore.  Files staged together and     *)
(* equal are hard links of one allocation, charged once.                   *)
(***************************************************************************)
EXTENDS Naturals, FiniteSets, Functions, SequencesExt

CONSTANTS
    Procs, Ids, Domains,
    Partitions,        \* the partitions (here domains) requests are indexed by
    None,              \* no catalog, no totals, no index
    DomainOf,
    Files,             \* the content keys of each entry's files
    FileBytes,         \* allocated bytes of a file
    Batches,           \* the related batches that are published
    MaxPhysical, MaxDomainPhysical

ASSUME CatalogAssumption ==
    /\ Ids \subseteq Nat /\ IsFiniteSet(Ids) /\ IsFiniteSet(Procs)
    /\ DomainOf \in [Ids -> Domains] /\ Partitions \subseteq Domains
    /\ FileBytes \in [DOMAIN FileBytes -> Nat]
    /\ DOMAIN Files = Ids
    /\ \A e \in Ids : Files[e] # {} /\ Files[e] \subseteq DOMAIN FileBytes /\ IsFiniteSet(Files[e])
    /\ Batches \subseteq SUBSET Ids
    /\ MaxPhysical \in Nat /\ MaxDomainPhysical \in Nat

VARIABLES
    blocks,   \* the allocations below entries/<identity>; {} when it is absent
    stamp,    \* store_directory_stamp of the entries directory
    leased,   \* the entries some live payload protects
    memo      \* each process's RetainedManifestCatalog of this store, or None

vars == <<blocks, stamp, leased, memo>>

Init ==
    /\ blocks = [e \in Ids |-> {}]
    /\ stamp = 0
    /\ leased = {}
    /\ memo = [p \in Procs |-> None]

Present == {e \in Ids : blocks[e] # {}}
Bytes(B) == SumFunctionOnSet([b \in B |-> FileBytes[b[1]]], B)

\* write_staged_entry links equal files of the entries staged together (N).
Staged(e, N) == {<<k, N>> : k \in Files[e]}
Size(e) == Bytes(Staged(e, {e}))

-----------------------------------------------------------------------------
(* Accounting. *)

\* The order of a listing, as the rank of each entry: by identity, or by recency.
ByIdentity == [e \in Ids |-> e]
RankIn(order) == [e \in ToSet(order) |-> CHOOSE i \in DOMAIN order : order[i] = e]

\* assign_unique_entry_physical_bytes over the entries of S: the first of them
\* that links an allocation is charged for it.
Charged(alloc, S, rank, e) == Bytes(alloc[e] \ UNION {alloc[f] : f \in {f \in S : rank[f] < rank[e]}})
Charges(alloc, S, rank) == [e \in S |-> Charged(alloc, S, rank, e)]
Total(alloc, S, rank) == SumFunctionOnSet(Charges(alloc, S, rank), S)
DomainTotal(alloc, S, rank, d) ==
    SumFunctionOnSet(Charges(alloc, S, rank), {e \in S : DomainOf[e] = d})

\* pending: the bytes a publication adds to each of its domains.
OverDomains(S, rank, pending) ==
    {d \in DOMAIN pending : DomainTotal(blocks, S, rank, d) + pending[d] > MaxDomainPhysical}
Fits(S, rank, pending, physical) ==
    /\ Total(blocks, S, rank) + physical <= MaxPhysical
    /\ OverDomains(S, rank, pending) = {}

\* try_lock_entry
Idle(e) == e \notin leased

\* The collected entries are charged by identity; once one is removed, those
\* that are left are charged anew, by recency.
RankOf(order, kept) == IF kept = Present THEN ByIdentity ELSE RankIn(order)

\* While a domain of the publication is over its allowance, entries of the
\* other domains are passed over.
PassedOver(over, e) == over # {} /\ DomainOf[e] \notin over

\* prune_to_limits and prune_related_to_limits: what one round keeps, and all.
Visit(order, pending, physical, kept, e) ==
    LET rank == RankOf(order, kept)
    IN  IF \/ Fits(kept, rank, pending, physical)
           \/ PassedOver(OverDomains(kept, rank, pending), e)
           \/ ~Idle(e)
        THEN kept ELSE kept \ {e}
Sweep(order, pending, physical) ==
    FoldLeft(LAMBDA kept, e : Visit(order, pending, physical, kept, e), Present, order)

\* StoreCapacity::from_entries over the canonical, deduplicated accounting.
CapacityOf(alloc, S) ==
    [all |-> Total(alloc, S, ByIdentity),
     dom |-> [d \in Domains |-> DomainTotal(alloc, S, ByIdentity, d)]]

\* StoreCapacity::add: the whole measured stage, hard links or not.
AddNothing(cap, d, physical) == cap
Add(cap, d, physical) == [cap EXCEPT !.all = @ + physical, !.dom[d] = @ + physical]

CapacityFits(cap, d, physical) ==
    /\ cap.all + physical <= MaxPhysical
    /\ cap.dom[d] + physical <= MaxDomainPhysical

-----------------------------------------------------------------------------
(* The catalog. *)

NoIndex == [d \in Partitions |-> None]
Current(p) == memo[p] # None /\ memo[p].stamp = stamp

\* retained_store_manifests
Retained(p) ==
    IF Current(p) THEN memo[p]
    ELSE [stamp |-> stamp, entries |-> Present, capacity |-> None, index |-> NoIndex]

\* collect_entries_for_admission
Collected(p) ==
    IF Current(p) THEN [memo[p] EXCEPT !.capacity = CapacityOf(blocks, Present)]
    ELSE [stamp |-> stamp, entries |-> Present,
          capacity |-> CapacityOf(blocks, Present), index |-> NoIndex]

\* A catalog advanced by one committed record, advance_payload_indexes included.
Advanced(m, after, e) ==
    [stamp |-> after,
     entries |-> m.entries \cup {e},
     capacity |-> IF m.capacity = None THEN None ELSE Add(m.capacity, DomainOf[e], Size(e)),
     index |-> [d \in Partitions |-> IF m.index[d] # None /\ DomainOf[e] = d
                                     THEN m.index[d] \cup {e} ELSE m.index[d]]]

\* remember_published_manifest: only a catalog that was current before the
\* commit advances to the stamp after it.
RememberAnyway(m, before, after, e) == IF m = None THEN None ELSE Advanced(m, after, e)
Remember(m, before, after, e) ==
    IF m = None \/ m.stamp # before THEN None ELSE Advanced(m, after, e)

\* The directory's stamp after a change: one no process remembers.  The model
\* assumes that the filesystem's clock tells two changes apart.  Names of stamps
\* are reused once nobody remembers them.
Fresh(s) == CHOOSE n \in 0..(Cardinality(Procs) + 2) :
                n \notin {s, stamp} /\ \A p \in Procs : memo[p] # None => memo[p].stamp # n
StampAfter(s, changed) == IF changed THEN Fresh(s) ELSE s

\* What a sweep may keep, whichever entries are the oldest.
Outcomes(pending, physical) == {Sweep(order, pending, physical) : order \in SetToSeqs(Present)}
Keep(S) == [e \in Ids |-> IF e \in S THEN blocks[e] ELSE {}]

-----------------------------------------------------------------------------
(* Operations under the manager lock. *)

\* prune_for_admission: the retained totals can excuse the sweep.
ExcusedByAnyCatalog(p, d, physical) ==
    /\ memo[p] # None
    /\ memo[p].capacity # None
    /\ CapacityFits(memo[p].capacity, d, physical)
Excused(p, d, physical) ==
    /\ Current(p)
    /\ memo[p].capacity # None
    /\ CapacityFits(memo[p].capacity, d, physical)

\* The publication commits; its rename is in place but the directory cannot be
\* synchronized, so nothing is remembered; or it fails before the rename.
Publish(p, e) ==
    LET d == DomainOf[e]
        excused == Excused(p, d, Size(e))
        mine == IF excused THEN memo[p] ELSE Collected(p)
    IN /\ e \notin Present
       /\ Size(e) <= MaxDomainPhysical
       /\ \E kept \in IF excused THEN {Present} ELSE Outcomes([x \in {d} |-> Size(e)], Size(e)) :
          LET before == StampAfter(stamp, kept # Present)
              after == StampAfter(before, TRUE) IN
             \/ /\ blocks' = [Keep(kept) EXCEPT ![e] = Staged(e, {e})]
                /\ stamp' = after
                /\ memo' \in {[memo EXCEPT ![p] = m] : m \in {Remember(mine, before, after, e), mine}}
             \/ /\ blocks' = Keep(kept)
                /\ stamp' = before
                /\ memo' = [memo EXCEPT ![p] = mine]
       /\ UNCHANGED leased

\* publish_batch always sweeps, and leaves the catalog as the sweep found it.
\* N: the members that are not retained.
PublishBatch(p, N) ==
    LET new == [e \in Ids |-> IF e \in N THEN Staged(e, N) ELSE {}]
        pending == [d \in {DomainOf[e] : e \in N} |-> DomainTotal(new, N, ByIdentity, d)]
    IN /\ N # {}
       /\ \A d \in DOMAIN pending : pending[d] <= MaxDomainPhysical
       /\ \E kept \in Outcomes(pending, Total(new, N, ByIdentity)) :
             /\ blocks' = [e \in Ids |-> IF e \in N THEN new[e] ELSE Keep(kept)[e]]
             /\ stamp' = StampAfter(stamp, TRUE)
             /\ memo' = [memo EXCEPT ![p] = Collected(p)]
             /\ UNCHANGED leased

RetentionSweep(p) ==
    \E kept \in Outcomes([x \in {} |-> 0], 0) :
        /\ blocks' = Keep(kept)
        /\ stamp' = StampAfter(stamp, kept # Present)
        /\ memo' = [memo EXCEPT ![p] = Collected(p)]
        /\ UNCHANGED leased

\* inspect_for_exact_reuse, remaining_publisher_capacity
Measure(p) ==
    /\ memo' = [memo EXCEPT ![p] = Collected(p)]
    /\ UNCHANGED <<blocks, stamp, leased>>

\* select_matching_execution_payloads: a candidate of the catalog is read
\* afresh before it is leased, and one that is gone fails the selection.
Select(p) ==
    /\ memo' = [memo EXCEPT ![p] = Retained(p)]
    /\ \/ UNCHANGED leased
       \/ \E e \in Retained(p).entries \cap Present : leased' = leased \cup {e}
    /\ UNCHANGED <<blocks, stamp>>

\* resolve_execution_request: the index of one partition is built once and
\* then only advanced; building it reads every candidate.
SelectIndexed(p, d) ==
    LET m == Retained(p)
        members == {e \in m.entries : DomainOf[e] = d}
        found == IF m.index[d] # None THEN m.index[d] ELSE members
    IN /\ memo' = [memo EXCEPT ![p] =
                     IF found \subseteq Present THEN [m EXCEPT !.index[d] = found] ELSE m]
       /\ \/ UNCHANGED leased
          \/ \E e \in found \cap Present : leased' = leased \cup {e}
       /\ UNCHANGED <<blocks, stamp>>

Release(e) ==
    /\ e \in leased
    /\ leased' = leased \ {e}
    /\ UNCHANGED <<blocks, stamp, memo>>

Exit(p) ==
    /\ memo[p] # None
    /\ memo' = [memo EXCEPT ![p] = None]
    /\ UNCHANGED <<blocks, stamp, leased>>

Next ==
    \/ \E p \in Procs :
         \/ \E e \in Ids : Publish(p, e)
         \/ \E S \in Batches : PublishBatch(p, S \ Present)
         \/ RetentionSweep(p) \/ Measure(p) \/ Select(p)
         \/ \E d \in Partitions : SelectIndexed(p, d)
         \/ Exit(p)
    \/ \E e \in Ids : Release(e)

Spec == Init /\ [][Next]_vars

-----------------------------------------------------------------------------
(* Properties. *)

Capacities == [all : Nat, dom : [Domains -> Nat]]
Catalogs == [stamp : Nat, entries : SUBSET Ids, capacity : Capacities \cup {None},
             index : [Partitions -> (SUBSET Ids) \cup {None}]]

\* The catalogs have their types, and a lease protects an entry that is there.
TypeOK ==
    /\ stamp \in Nat
    /\ leased \subseteq Present
    /\ \A p \in Procs : memo[p] = None \/ memo[p] \in Catalogs

\* A catalog a process would trust lists exactly the entries on disk, and each
\* index built over it exactly those of its partition, whatever the other
\* processes published or removed in between.
CatalogIsCurrent ==
    \A p \in Procs : Current(p) =>
        /\ memo[p].entries = Present
        /\ \A d \in Partitions : memo[p].index[d] # None =>
               memo[p].index[d] = {e \in Present : DomainOf[e] = d}

\* Totals a publisher would trust are never below what a canonical sweep would
\* measure, although hard links make them exceed it.
CapacityNeverUnderstates ==
    \A p \in Procs : Current(p) /\ memo[p].capacity # None =>
        /\ memo[p].capacity.all >= Total(blocks, Present, ByIdentity)
        /\ \A d \in Domains :
               memo[p].capacity.dom[d] >= DomainTotal(blocks, Present, ByIdentity, d)

\* However the sweep was excused, one publication leaves the store within its
\* physical target or nothing in its domain that could have been removed.
AdmissionIsSwept ==
    [][\A e \in Present' \ Present :
          LET others == Present' \ {e} IN
          others \subseteq Present =>
            \/ Total(blocks, others, ByIdentity) + Size(e) <= MaxPhysical
            \/ \A f \in others : f \in leased \/ DomainOf[f] # DomainOf[e]]_vars
=============================================================================
