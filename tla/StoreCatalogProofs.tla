------------------------- MODULE StoreCatalogProofs -------------------------
(***************************************************************************)
(* Proofs about the in-memory catalogs of an Oven store, for any number of *)
(* processes and entries, any files and any order of a sweep.  A catalog   *)
(* is current because every change of the directory takes a stamp that no  *)
(* process remembers, and only a publication whose own catalog was current *)
(* just before it may carry its catalog over to the new stamp.             *)
(*                                                                         *)
(* Its totals cover what is on disk, because the charges of a set of       *)
(* entries add up to the bytes of its allocations, in whichever order they *)
(* are listed, and a publication adds no more than its whole stage.  A     *)
(* sweep ends within the target or has visited, and found leased, all that *)
(* is left of the pending domain.                                          *)
(***************************************************************************)
EXTENDS StoreCatalog, FoldLemmas

\* A RetainedManifestCatalog, its totals left open: they are sums.
Shape(m) ==
    /\ m = [stamp |-> m.stamp, entries |-> m.entries, capacity |-> m.capacity, index |-> m.index]
    /\ m.index = [d \in Partitions |-> m.index[d]]

\* The catalog lists the entries S, and each of its indexes those of its partition.
Describes(m, S) ==
    /\ m.entries = S
    /\ \A d \in Partitions : m.index[d] # None => m.index[d] = {e \in S : DomainOf[e] = d}

\* A catalog that carries the directory's stamp describes the directory.
CatalogInv ==
    /\ memo = [p \in Procs |-> memo[p]]
    /\ \A p \in Procs : memo[p] # None =>
         Shape(memo[p]) /\ (memo[p].stamp = stamp => Describes(memo[p], Present))

-----------------------------------------------------------------------------
\* A change of the directory finds a stamp nobody remembers: there are more names
\* than processes to remember them.
LEMMA FreshIsNew ==
    ASSUME NEW s
    PROVE  /\ Fresh(s) \notin {s, stamp} /\ Fresh(s) \in Nat
           /\ \A p \in Procs : memo[p] # None => memo[p].stamp # Fresh(s)
<1> DEFINE N == Cardinality(Procs)
           M == {memo[p].stamp : p \in Procs}
           Names == 0 .. (N + 2)
<1>1. N \in Nat
  BY FS_CardinalityType, CatalogAssumption
<1>2. IsFiniteSet(M) /\ Cardinality(M) \in Nat /\ Cardinality(M) <= N
  <2>1. [p \in Procs |-> memo[p].stamp] \in Surjection(Procs, M)
    BY DEF Surjection
  <2> QED
    BY <2>1, FS_Surjection, FS_CardinalityType, CatalogAssumption
<1>3. IsFiniteSet(Names) /\ Cardinality(Names) = N + 3
  BY <1>1, FS_Interval
<1> HIDE DEF N, M, Names
<1>4. IsFiniteSet(M \cup {s}) /\ Cardinality(M \cup {s}) \in Nat /\ Cardinality(M \cup {s}) <= N + 1
  <2>1. IsFiniteSet(M \cup {s}) /\ Cardinality(M \cup {s}) \in {Cardinality(M), Cardinality(M) + 1}
    BY <1>2, FS_AddElement, Zenon
  <2> QED
    BY <1>1, <1>2, <2>1
<1>5. /\ IsFiniteSet((M \cup {s}) \cup {stamp}) /\ Cardinality((M \cup {s}) \cup {stamp}) \in Nat
      /\ Cardinality((M \cup {s}) \cup {stamp}) <= N + 2
  <2> DEFINE K == M \cup {s}
  <2> HIDE DEF K
  <2>1. IsFiniteSet(K) /\ Cardinality(K) \in Nat /\ Cardinality(K) <= N + 1
    BY <1>4 DEF K
  <2>2. /\ IsFiniteSet(K \cup {stamp})
        /\ Cardinality(K \cup {stamp}) \in {Cardinality(K), Cardinality(K) + 1}
    BY <2>1, FS_AddElement, Zenon
  <2> QED
    BY <1>1, <2>1, <2>2 DEF K
<1>6. ~(Names \subseteq (M \cup {s}) \cup {stamp})
  <2> SUFFICES ASSUME Names \subseteq (M \cup {s}) \cup {stamp} PROVE FALSE
    OBVIOUS
  <2>1. Cardinality(Names) <= Cardinality((M \cup {s}) \cup {stamp})
    BY <1>5, FS_Subset
  <2> QED
    BY <2>1, <1>1, <1>3, <1>5
<1>7. PICK n \in Names : n \notin (M \cup {s}) \cup {stamp}
  BY <1>6
<1>8. n \notin {s, stamp} /\ \A p \in Procs : memo[p] # None => memo[p].stamp # n
  BY <1>7 DEF M
<1>9. Names \subseteq Nat
  BY <1>1 DEF Names
<1> QED
  BY <1>8, <1>9 DEF Fresh, Names, N

\* collect_entries_for_admission leaves a catalog of what is on disk.
LEMMA CollectedDescribes ==
    ASSUME CatalogInv, NEW p \in Procs
    PROVE  Shape(Collected(p)) /\ Collected(p).stamp = stamp /\ Describes(Collected(p), Present)
<1>1. CASE Current(p)
  <2>1. Shape(memo[p]) /\ memo[p].stamp = stamp /\ Describes(memo[p], Present)
    BY <1>1 DEF CatalogInv, Current
  <2> DEFINE m == memo[p]
             c == Collected(p)
  <2>2. c = [stamp |-> m.stamp, entries |-> m.entries,
             capacity |-> CapacityOf(blocks, Present), index |-> m.index]
    BY <1>1, <2>1 DEF Collected, Shape
  <2>3. c.stamp = m.stamp /\ c.entries = m.entries /\ c.index = m.index
    BY <2>2
  <2> QED
    BY <2>1, <2>2, <2>3 DEF Shape, Describes
<1>2. CASE ~Current(p)
  BY <1>2 DEF Collected, NoIndex, Shape, Describes
<1> QED
  BY <1>1, <1>2

\* retained_store_manifests answers with a catalog of what is on disk.
LEMMA RetainedDescribes ==
    ASSUME CatalogInv, NEW p \in Procs
    PROVE  Shape(Retained(p)) /\ Retained(p).stamp = stamp /\ Describes(Retained(p), Present)
<1>1. CASE Current(p)
  BY <1>1 DEF CatalogInv, Current, Retained
<1>2. CASE ~Current(p)
  BY <1>2 DEF Retained, NoIndex, Shape, Describes
<1> QED
  BY <1>1, <1>2

\* remember_published_manifest: the record just committed is all that is new.
LEMMA AdvancedDescribes ==
    ASSUME NEW m, NEW S, NEW n, NEW e \in Ids, Shape(m), Describes(m, S)
    PROVE  /\ Shape(Advanced(m, n, e)) /\ Advanced(m, n, e).stamp = n
           /\ Describes(Advanced(m, n, e), S \cup {e})
<1> DEFINE a == Advanced(m, n, e)
<1>1. /\ a.stamp = n /\ a.entries = m.entries \cup {e}
      /\ a.index = [d \in Partitions |-> IF m.index[d] # None /\ DomainOf[e] = d
                                         THEN m.index[d] \cup {e} ELSE m.index[d]]
  BY DEF Advanced
<1>2. Shape(a)
  BY <1>1 DEF Shape, Advanced
<1>3. ASSUME NEW d \in Partitions, a.index[d] # None
      PROVE  a.index[d] = {f \in S \cup {e} : DomainOf[f] = d}
  <2>1. m.index[d] # None
    BY <1>1, <1>3
  <2>2. m.index[d] = {f \in S : DomainOf[f] = d}
    BY <2>1 DEF Describes
  <2>3. CASE DomainOf[e] = d
    BY <1>1, <2>1, <2>2, <2>3
  <2>4. CASE DomainOf[e] # d
    BY <1>1, <2>1, <2>2, <2>4
  <2> QED
    BY <2>3, <2>4
<1> QED
  BY <1>1, <1>2, <1>3 DEF Describes

\* What an operation of one process leaves behind: its own catalog describes the
\* directory when its stamp is the directory's, and the other catalogs are either
\* of an unchanged directory or behind it.
LEMMA OneCatalogChanges ==
    ASSUME CatalogInv, NEW p \in Procs, NEW m, memo' = [memo EXCEPT ![p] = m],
           m # None => Shape(m) /\ (m.stamp = stamp' => Describes(m, Present')),
           \/ stamp' = stamp /\ Present' = Present
           \/ \A q \in Procs : memo[q] # None => memo[q].stamp # stamp'
    PROVE  CatalogInv'
<1>1. memo' = [q \in Procs |-> memo'[q]] /\ memo'[p] = m
  BY DEF CatalogInv
<1>2. \A q \in Procs : q # p => memo'[q] = memo[q]
  BY DEF CatalogInv
<1>3. ASSUME NEW q \in Procs, memo'[q] # None
      PROVE  Shape(memo'[q]) /\ (memo'[q].stamp = stamp' => Describes(memo'[q], Present'))
  <2>1. CASE q = p
    BY <1>1, <1>3, <2>1
  <2>2. CASE q # p
    BY <1>2, <1>3, <2>2 DEF CatalogInv
  <2> QED
    BY <2>1, <2>2
<1> QED
  BY <1>1, <1>3 DEF CatalogInv

-----------------------------------------------------------------------------
\* What is kept of the directory is what is there.
LEMMA KeptIsPresent ==
    ASSUME blocks' = Keep(Present) PROVE Present' = Present
BY DEF Keep, Present

\* A publication, its admission sweep included, keeps every catalog honest.
LEMMA PublishStep ==
    ASSUME CatalogInv, NEW p \in Procs, NEW e \in Ids, Publish(p, e) PROVE CatalogInv'
<1> DEFINE excused == Excused(p, DomainOf[e], Size(e))
           mine == IF excused THEN memo[p] ELSE Collected(p)
<1>1. Shape(mine) /\ mine.stamp = stamp /\ Describes(mine, Present)
  <2>1. CASE excused
    BY <2>1 DEF Excused, Current, CatalogInv
  <2>2. CASE ~excused
    BY <2>2, CollectedDescribes
  <2> QED
    BY <2>1, <2>2
<1>2. PICK kept :
        LET before == StampAfter(stamp, kept # Present)
            after == StampAfter(before, TRUE) IN
           \/ /\ blocks' = [Keep(kept) EXCEPT ![e] = Staged(e, {e})]
              /\ stamp' = after
              /\ memo' \in {[memo EXCEPT ![p] = m] : m \in {Remember(mine, before, after, e), mine}}
           \/ /\ blocks' = Keep(kept)
              /\ stamp' = before
              /\ memo' = [memo EXCEPT ![p] = mine]
  BY DEF Publish
<1> DEFINE before == StampAfter(stamp, kept # Present)
           after == Fresh(before)
<1> HIDE DEF mine
<1>3. \/ before = stamp /\ kept = Present
      \/ before # stamp /\ \A q \in Procs : memo[q] # None => memo[q].stamp # before
  BY FreshIsNew DEF StampAfter
<1>4. after # before /\ after # stamp /\ \A q \in Procs : memo[q] # None => memo[q].stamp # after
  BY FreshIsNew
<1>5. CASE /\ blocks' = [Keep(kept) EXCEPT ![e] = Staged(e, {e})] /\ stamp' = after
           /\ memo' \in {[memo EXCEPT ![p] = m] : m \in {Remember(mine, before, after, e), mine}}
  <2>1. CASE memo' = [memo EXCEPT ![p] = mine]
    BY <1>1, <1>4, <1>5, <2>1, OneCatalogChanges
  <2>2. CASE memo' = [memo EXCEPT ![p] = Remember(mine, before, after, e)]
    <3> DEFINE r == Remember(mine, before, after, e)
    <3>1. ASSUME r # None PROVE Shape(r) /\ Describes(r, Present')
      <4>1. mine.stamp = before /\ r = Advanced(mine, after, e)
        BY <3>1 DEF Remember
      <4>2. kept = Present
        BY <4>1, <1>1, <1>3
      <4>3. Staged(e, {e}) # {}
        <5>1. PICK k : k \in Files[e]
          BY CatalogAssumption
        <5>2. <<k, {e}>> \in Staged(e, {e})
          BY <5>1 DEF Staged
        <5> QED
          BY <5>2
      <4>4. Present' = Present \cup {e}
        BY <1>5, <4>2, <4>3 DEF Present, Keep
      <4> QED
        BY <1>1, <4>1, <4>4, AdvancedDescribes
    <3> HIDE DEF r
    <3> QED
      BY <1>4, <1>5, <2>2, <3>1, OneCatalogChanges DEF r
  <2> QED
    BY <1>5, <2>1, <2>2
<1>6. CASE blocks' = Keep(kept) /\ stamp' = before /\ memo' = [memo EXCEPT ![p] = mine]
  <2>1. CASE before = stamp /\ kept = Present
    <3>1. Present' = Present
      BY <1>6, <2>1, KeptIsPresent
    <3> QED
      BY <1>1, <1>6, <2>1, <3>1, OneCatalogChanges
  <2>2. CASE before # stamp /\ \A q \in Procs : memo[q] # None => memo[q].stamp # before
    BY <1>1, <1>6, <2>2, OneCatalogChanges
  <2> QED
    BY <1>3, <2>1, <2>2
<1> QED
  BY <1>2, <1>5, <1>6 DEF StampAfter

\* Every operation keeps every catalog honest.
LEMMA CatalogStep ==
    ASSUME CatalogInv, [Next]_vars PROVE CatalogInv'
<1>1. ASSUME NEW p \in Procs, NEW N, PublishBatch(p, N) PROVE CatalogInv'
  <2>1. memo' = [memo EXCEPT ![p] = Collected(p)] /\ stamp' = Fresh(stamp)
    BY <1>1 DEF PublishBatch, StampAfter
  <2> QED
    BY <2>1, FreshIsNew, CollectedDescribes, OneCatalogChanges
<1>2. ASSUME NEW p \in Procs, RetentionSweep(p) PROVE CatalogInv'
  <2>1. PICK kept : /\ blocks' = Keep(kept) /\ stamp' = StampAfter(stamp, kept # Present)
                    /\ memo' = [memo EXCEPT ![p] = Collected(p)]
    BY <1>2 DEF RetentionSweep
  <2>2. CASE kept = Present
    <3>1. Present' = Present /\ stamp' = stamp
      BY <2>1, <2>2, KeptIsPresent DEF StampAfter
    <3> QED
      BY <2>1, <3>1, CollectedDescribes, OneCatalogChanges
  <2>3. CASE kept # Present
    <3>1. stamp' = Fresh(stamp)
      BY <2>1, <2>3 DEF StampAfter
    <3> QED
      BY <2>1, <3>1, FreshIsNew, CollectedDescribes, OneCatalogChanges
  <2> QED
    BY <2>2, <2>3
<1>3. ASSUME NEW p \in Procs, Measure(p) PROVE CatalogInv'
  <2>1. Present' = Present /\ stamp' = stamp /\ memo' = [memo EXCEPT ![p] = Collected(p)]
    BY <1>3 DEF Measure, Present
  <2> QED
    BY <2>1, CollectedDescribes, OneCatalogChanges
<1>4. ASSUME NEW p \in Procs, Select(p) PROVE CatalogInv'
  <2>1. Present' = Present /\ stamp' = stamp /\ memo' = [memo EXCEPT ![p] = Retained(p)]
    BY <1>4 DEF Select, Present
  <2> QED
    BY <2>1, RetainedDescribes, OneCatalogChanges
<1>5. ASSUME NEW p \in Procs, NEW d \in Partitions, SelectIndexed(p, d) PROVE CatalogInv'
  <2> DEFINE m == Retained(p)
             members == {e \in m.entries : DomainOf[e] = d}
             found == IF m.index[d] # None THEN m.index[d] ELSE members
             n == IF found \subseteq Present THEN [m EXCEPT !.index[d] = found] ELSE m
  <2>1. Shape(m) /\ m.stamp = stamp /\ Describes(m, Present)
    BY RetainedDescribes
  <2>2. Present' = Present /\ stamp' = stamp /\ memo' = [memo EXCEPT ![p] = n]
    BY <1>5 DEF SelectIndexed, Present
  <2> HIDE DEF m
  <2>3. found = {e \in Present : DomainOf[e] = d}
    BY <2>1 DEF Describes
  <2> HIDE DEF found
  <2>4. Shape(n) /\ n.stamp = stamp /\ Describes(n, Present)
    <3> DEFINE x == [m EXCEPT !.index[d] = found]
    <3>1. x = [stamp |-> m.stamp, entries |-> m.entries, capacity |-> m.capacity,
               index |-> [m.index EXCEPT ![d] = found]]
      BY <2>1 DEF Shape
    <3>2. [m.index EXCEPT ![d] = found]
            = [c \in Partitions |-> IF c = d THEN found ELSE m.index[c]]
      BY <2>1 DEF Shape
    <3>3. /\ x.stamp = m.stamp /\ x.entries = m.entries /\ x.capacity = m.capacity
          /\ x.index = [c \in Partitions |-> IF c = d THEN found ELSE m.index[c]]
      BY <3>1, <3>2
    <3>4. Shape(x)
      BY <3>1, <3>2, <3>3 DEF Shape
    <3> HIDE DEF x
    <3>5. Describes(x, Present)
      BY <2>1, <2>3, <3>3 DEF Describes
    <3> QED
      BY <2>1, <3>3, <3>4, <3>5 DEF x
  <2> HIDE DEF n
  <2> QED
    BY <2>2, <2>4, OneCatalogChanges
<1>6. ASSUME NEW p \in Procs, Exit(p) PROVE CatalogInv'
  <2>1. Present' = Present /\ stamp' = stamp /\ memo' = [memo EXCEPT ![p] = None]
    BY <1>6 DEF Exit, Present
  <2> QED
    BY <2>1, OneCatalogChanges
<1>7. CASE UNCHANGED <<blocks, stamp, memo>>
  BY <1>7 DEF CatalogInv, Present
<1> QED
  BY <1>1, <1>2, <1>3, <1>4, <1>5, <1>6, <1>7, PublishStep DEF Next, vars, Release

\* A catalog that carries the directory's stamp describes the directory.
THEOREM CatalogInvariantHolds == Spec => []CatalogInv
<1>1. Init => CatalogInv
  BY DEF Init, CatalogInv
<1>2. CatalogInv /\ [Next]_vars => CatalogInv'
  BY CatalogStep
<1> QED
  BY <1>1, <1>2, PTL DEF Spec

\* What store.rs trusts of a catalog, because its stamp is the directory's, is what
\* is on disk: the entries and each partition's index (CatalogIsCurrent).
THEOREM CatalogsAreCurrent == Spec => []CatalogIsCurrent
<1>1. CatalogInv => CatalogIsCurrent
  BY DEF CatalogInv, CatalogIsCurrent, Describes, Current
<1> QED
  BY <1>1, CatalogInvariantHolds, PTL

-----------------------------------------------------------------------------
(* The totals. *)

Allocations == (DOMAIN FileBytes) \X (SUBSET Ids)
AllocationBytes == [b \in Allocations |-> FileBytes[b[1]]]

\* What is on disk: finitely many allocations below each entry.
WellFormed(alloc) ==
    /\ alloc = [e \in Ids |-> alloc[e]]
    /\ \A e \in Ids : alloc[e] \subseteq Allocations /\ IsFiniteSet(alloc[e])

\* The totals cap are no less than a canonical sweep over S would count.
Covers(cap, alloc, S) ==
    /\ cap \in Capacities
    /\ cap.all >= Total(alloc, S, ByIdentity)
    /\ \A d \in Domains : cap.dom[d] >= DomainTotal(alloc, S, ByIdentity, d)

\* The totals of a current catalog cover what is on disk.
CapacityInv ==
    /\ WellFormed(blocks)
    /\ \A p \in Procs : Current(p) /\ memo[p].capacity # None => Covers(memo[p].capacity, blocks, Present)

\* The bytes of a set of allocations are the sum of a fixed weight.
LEMMA BytesIsSum ==
    ASSUME NEW B, B \subseteq Allocations, IsFiniteSet(B)
    PROVE  /\ Weights(AllocationBytes, B) /\ Bytes(B) = SumFunctionOnSet(AllocationBytes, B)
           /\ Bytes(B) \in Nat
<1> DEFINE w == [b \in B |-> FileBytes[b[1]]]
<1>1. \A b \in B : w[b] = AllocationBytes[b] /\ w[b] \in Nat
  BY CatalogAssumption DEF Allocations, AllocationBytes
<1>2. Weights(w, B) /\ Weights(AllocationBytes, B)
  BY <1>1 DEF Weights
<1> HIDE DEF w
<1>3. SumFunctionOnSet(w, B) = SumFunctionOnSet(AllocationBytes, B) /\ SumFunctionOnSet(w, B) \in Nat
  BY <1>1, <1>2, SumSame, SumOfFinite
<1> QED
  BY <1>2, <1>3 DEF Bytes, w

\* write_staged_entry: what is staged for an entry.
LEMMA StagedIsFinite ==
    ASSUME NEW e \in Ids, NEW N \in SUBSET Ids
    PROVE  Staged(e, N) \subseteq Allocations /\ IsFiniteSet(Staged(e, N)) /\ Staged(e, N) # {}
<1>1. Files[e] # {} /\ Files[e] \subseteq DOMAIN FileBytes /\ IsFiniteSet(Files[e])
  BY CatalogAssumption
<1>2. [k \in Files[e] |-> <<k, N>>] \in Surjection(Files[e], Staged(e, N))
  BY DEF Surjection, Staged
<1>3. IsFiniteSet(Staged(e, N))
  BY <1>1, <1>2, FS_Surjection
<1>4. Staged(e, N) \subseteq Allocations
  BY <1>1 DEF Staged, Allocations
<1>5. PICK k : k \in Files[e]
  BY <1>1
<1>6. <<k, N>> \in Staged(e, N)
  BY <1>5 DEF Staged
<1> QED
  BY <1>3, <1>4, <1>6

\* What a publication measures of its stage is a number of bytes.
LEMMA SizeIsNat ==
    ASSUME NEW e \in Ids PROVE Size(e) \in Nat
<1>1. {e} \in SUBSET Ids
  OBVIOUS
<1> QED
  BY <1>1, StagedIsFinite, BytesIsSum DEF Size

\* assign_unique_entry_physical_bytes: whatever the order, the charges add up to
\* what the entries occupy.
LEMMA TotalIsOccupied ==
    ASSUME NEW alloc, WellFormed(alloc), NEW S \in SUBSET Ids, NEW rank, Ranks(rank, S)
    PROVE  /\ IsFiniteSet(S)
           /\ Weights(Charges(alloc, S, rank), S)
           /\ Joined(alloc, S) \subseteq Allocations
           /\ IsFiniteSet(Joined(alloc, S))
           /\ Total(alloc, S, rank) = Bytes(Joined(alloc, S))
           /\ Total(alloc, S, rank) \in Nat
           /\ \A d : DomainTotal(alloc, S, rank, d) \in Nat
<1> DEFINE U == Joined(alloc, S)
           v == Charges(alloc, S, rank)
<1>1. IsFiniteSet(S)
  BY CatalogAssumption, FS_Subset
<1>2. \A e \in S : Weights(AllocationBytes, alloc[e])
  BY BytesIsSum DEF WellFormed
<1>3. ASSUME NEW e \in S
      PROVE  v[e] = SumFunctionOnSet(AllocationBytes,
                                  alloc[e] \ Earlier(alloc, S, rank, e))
  <2> DEFINE B == alloc[e] \ Earlier(alloc, S, rank, e)
  <2>1. B \subseteq Allocations /\ B \subseteq alloc[e] /\ IsFiniteSet(alloc[e])
    BY DEF WellFormed
  <2>2. IsFiniteSet(B)
    BY <2>1, FS_Subset
  <2>3. v[e] = Bytes(B)
    BY DEF Charges, Charged, Earlier, Joined
  <2> HIDE DEF B
  <2>4. v[e] = SumFunctionOnSet(AllocationBytes, B)
    BY <2>1, <2>2, <2>3, BytesIsSum
  <2> QED
    BY <2>4 DEF B
<1>4. U \subseteq Allocations
  BY DEF WellFormed, Joined
<1> HIDE DEF v, U
<1>5. Weights(v, S) /\ Weights(AllocationBytes, U) /\ SumFunctionOnSet(v, S) = SumFunctionOnSet(AllocationBytes, U)
  <2>1. Parts(AllocationBytes, alloc, S) /\ ChargesFirst(v, AllocationBytes, alloc, S, rank)
    BY <1>1, <1>2, <1>3 DEF Parts, ChargesFirst
  <2> QED
    BY <2>1, ChargedOnce DEF U
<1>6. IsFiniteSet(U)
  BY <1>5 DEF Weights
<1>7. Total(alloc, S, rank) = Bytes(U) /\ Bytes(U) \in Nat
  BY <1>4, <1>5, <1>6, BytesIsSum DEF Total, v
<1>8. ASSUME NEW d PROVE DomainTotal(alloc, S, rank, d) \in Nat
  <2> DEFINE R == {e \in S : DomainOf[e] = d}
  <2>1. R \in SUBSET S
    OBVIOUS
  <2> HIDE DEF R
  <2>2. SumFunctionOnSet(v, R) \in Nat
    BY <1>5, <2>1, SumSubset, SumOfFinite
  <2> QED
    BY <2>2 DEF DomainTotal, R, v
<1> QED
  BY <1>1, <1>4, <1>5, <1>6, <1>7, <1>8 DEF U, v

\* collect_entries lists the entries by identity, which tells them apart.
LEMMA IdentityRanks ==
    ASSUME NEW S \in SUBSET Ids PROVE Ranks(ByIdentity, S)
BY CatalogAssumption DEF Ranks, ByIdentity

\* StoreCapacity::from_entries measures exactly.
LEMMA CollectedCovers ==
    ASSUME NEW alloc, WellFormed(alloc), NEW S \in SUBSET Ids
    PROVE  Covers(CapacityOf(alloc, S), alloc, S)
<1> DEFINE cap == CapacityOf(alloc, S)
<1>1. Total(alloc, S, ByIdentity) \in Nat /\ \A d : DomainTotal(alloc, S, ByIdentity, d) \in Nat
  BY IdentityRanks, TotalIsOccupied
<1>2. /\ cap = [all |-> Total(alloc, S, ByIdentity),
                dom |-> [d \in Domains |-> DomainTotal(alloc, S, ByIdentity, d)]]
      /\ cap.all = Total(alloc, S, ByIdentity)
      /\ \A d \in Domains : cap.dom[d] = DomainTotal(alloc, S, ByIdentity, d)
  BY DEF CapacityOf
<1> HIDE DEF cap
<1>3. cap \in Capacities
  BY <1>1, <1>2 DEF Capacities
<1> QED
  BY <1>1, <1>2, <1>3 DEF Covers, cap

\* A smaller set of allocations takes no more bytes, two sets no more than both.
LEMMA BytesMonotone ==
    ASSUME NEW B, B \subseteq Allocations, IsFiniteSet(B), NEW C \in SUBSET B
    PROVE  Bytes(C) <= Bytes(B) /\ Bytes(C) \in Nat /\ Bytes(B) \in Nat
<1>1. C \subseteq Allocations /\ IsFiniteSet(C)
  BY FS_Subset
<1>2. Weights(AllocationBytes, B) /\ Bytes(B) = SumFunctionOnSet(AllocationBytes, B) /\ Bytes(B) \in Nat
  BY BytesIsSum
<1>3. Bytes(C) = SumFunctionOnSet(AllocationBytes, C) /\ Bytes(C) \in Nat
  BY <1>1, BytesIsSum
<1>4. SumFunctionOnSet(AllocationBytes, C) <= SumFunctionOnSet(AllocationBytes, B)
  BY <1>2, SumSubset
<1> QED
  BY <1>2, <1>3, <1>4

\* What the stage of a publication shares with the store is not counted twice.
LEMMA BytesUnion ==
    ASSUME NEW B, B \subseteq Allocations, IsFiniteSet(B), NEW C, C \subseteq Allocations, IsFiniteSet(C)
    PROVE  Bytes(B \cup C) <= Bytes(B) + Bytes(C)
<1>1. B \cup C \subseteq Allocations /\ IsFiniteSet(B \cup C)
  BY FS_Union
<1>2. /\ Weights(AllocationBytes, B) /\ Bytes(B) = SumFunctionOnSet(AllocationBytes, B)
      /\ Weights(AllocationBytes, C) /\ Bytes(C) = SumFunctionOnSet(AllocationBytes, C)
      /\ Bytes(B \cup C) = SumFunctionOnSet(AllocationBytes, B \cup C)
  BY <1>1, BytesIsSum
<1> QED
  BY <1>2, SumUnion

\* StoreCapacity::add adds to the total and to one domain.
LEMMA AddAdds ==
    ASSUME NEW cap \in Capacities, NEW c \in Domains, NEW physical \in Nat
    PROVE  LET sum == Add(cap, c, physical) IN
           /\ sum \in Capacities /\ sum.all = cap.all + physical
           /\ \A d \in Domains : sum.dom[d] = IF d = c THEN cap.dom[d] + physical ELSE cap.dom[d]
<1> DEFINE sum == Add(cap, c, physical)
           dom == [cap.dom EXCEPT ![c] = @ + physical]
<1>1. cap = [all |-> cap.all, dom |-> cap.dom] /\ cap.all \in Nat /\ cap.dom \in [Domains -> Nat]
  BY DEF Capacities
<1>2. sum = [all |-> cap.all + physical, dom |-> dom]
  <2> DEFINE one == [cap EXCEPT !.all = @ + physical]
             two == [one EXCEPT !.dom[c] = @ + physical]
  <2>1. sum = two
    BY DEF Add
  <2>2. one = [all |-> cap.all + physical, dom |-> cap.dom]
    BY <1>1
  <2> HIDE DEF one
  <2>3. one.dom = cap.dom /\ one.all = cap.all + physical
    BY <2>2
  <2>4. two = [all |-> one.all, dom |-> [one.dom EXCEPT ![c] = @ + physical]]
    BY <2>2
  <2> QED
    BY <2>1, <2>3, <2>4
<1>3. /\ dom \in [Domains -> Nat]
      /\ \A d \in Domains : dom[d] = IF d = c THEN cap.dom[d] + physical ELSE cap.dom[d]
  BY <1>1
<1>4. cap.all + physical \in Nat
  BY <1>1
<1> HIDE DEF sum, dom
<1> QED
  BY <1>2, <1>3, <1>4 DEF Capacities, sum

\* One entry more is on disk, linked with none that was there before.
OneMore(new, alloc, S, e) ==
    /\ WellFormed(new) /\ WellFormed(alloc) /\ S \subseteq Ids /\ e \in Ids /\ e \notin S
    /\ \A f \in S : new[f] = alloc[f]
    /\ new[e] = Staged(e, {e})

\* StoreCapacity::add takes the whole stage for new: hard links only make the
\* total it keeps too large, in the aggregate and in the domain.
LEMMA AddCovers ==
    ASSUME NEW alloc, NEW new, NEW S, NEW e, OneMore(new, alloc, S, e), NEW cap, Covers(cap, alloc, S)
    PROVE  Covers(Add(cap, DomainOf[e], Size(e)), new, S \cup {e})
<1> DEFINE sum == Add(cap, DomainOf[e], Size(e))
           N == S \cup {e}
           u == Charges(alloc, S, ByIdentity)
           v == Charges(new, N, ByIdentity)
<1> USE DEF OneMore
<1>0. /\ DomainOf[e] \in Domains /\ N \in SUBSET Ids /\ S \in SUBSET Ids /\ e \in Ids
      /\ WellFormed(new) /\ WellFormed(alloc)
  BY CatalogAssumption
<1>1. cap.all \in Nat /\ \A d \in Domains : cap.dom[d] \in Nat
  BY DEF Covers, Capacities
<1>2. Size(e) \in Nat
  BY <1>0, SizeIsNat
<1>3. sum \in Capacities /\ sum.all = cap.all + Size(e)
      /\ \A d \in Domains : sum.dom[d] = IF d = DomainOf[e] THEN cap.dom[d] + Size(e) ELSE cap.dom[d]
  BY <1>0, <1>2, AddAdds DEF Covers
<1>4. /\ Weights(u, S) /\ Total(alloc, S, ByIdentity) = Bytes(Joined(alloc, S))
      /\ Joined(alloc, S) \subseteq Allocations /\ IsFiniteSet(Joined(alloc, S))
  BY <1>0, IdentityRanks, TotalIsOccupied
<1>5. /\ Weights(v, N) /\ Total(new, N, ByIdentity) = Bytes(Joined(new, N))
  BY <1>0, IdentityRanks, TotalIsOccupied
<1>6. sum.all >= Total(new, N, ByIdentity)
  <2> DEFINE J == Joined(alloc, S)
  <2>1. Joined(new, N) = J \cup Staged(e, {e})
    BY DEF Joined
  <2>2. Staged(e, {e}) \subseteq Allocations /\ IsFiniteSet(Staged(e, {e}))
    <3>1. {e} \in SUBSET Ids
      BY <1>0
    <3> QED
      BY <1>0, <3>1, StagedIsFinite
  <2>3. Bytes(J \cup Staged(e, {e})) <= Bytes(J) + Size(e)
    BY <1>4, <2>2, BytesUnion DEF Size
  <2>4. /\ Bytes(J) \in Nat /\ cap.all >= Bytes(J)
    BY <1>4, BytesIsSum DEF Covers
  <2>5. Bytes(J \cup Staged(e, {e})) \in Nat
    <3>1. J \cup Staged(e, {e}) \subseteq Allocations /\ IsFiniteSet(J \cup Staged(e, {e}))
      BY <1>4, <2>2, FS_Union
    <3> QED
      BY <3>1, BytesIsSum
  <2> DEFINE a == Bytes(J)
             b == Bytes(J \cup Staged(e, {e}))
  <2>6. a \in Nat /\ b \in Nat /\ b <= a + Size(e) /\ cap.all >= a
    BY <2>3, <2>4, <2>5
  <2>7. Total(new, N, ByIdentity) = b
    BY <1>5, <2>1
  <2> HIDE DEF a, b
  <2> QED
    BY <1>1, <1>2, <1>3, <2>6, <2>7
<1>7. ASSUME NEW f \in S PROVE v[f] <= u[f]
  <2>1. u[f] = Bytes(alloc[f] \ Earlier(alloc, S, ByIdentity, f))
    BY DEF Charges, Charged, Earlier, Joined
  <2>2. v[f] = Bytes(new[f] \ Earlier(new, N, ByIdentity, f))
    BY DEF Charges, Charged, Earlier, Joined
  <2>3. Earlier(alloc, S, ByIdentity, f) \subseteq Earlier(new, N, ByIdentity, f)
    BY DEF Earlier, Joined
  <2>4. /\ alloc[f] \ Earlier(alloc, S, ByIdentity, f) \subseteq Allocations
        /\ IsFiniteSet(alloc[f] \ Earlier(alloc, S, ByIdentity, f))
    BY FS_Difference DEF WellFormed
  <2>5. new[f] \ Earlier(new, N, ByIdentity, f) \in SUBSET (alloc[f] \ Earlier(alloc, S, ByIdentity, f))
    BY <2>3
  <2> QED
    BY <2>1, <2>2, <2>4, <2>5, BytesMonotone
<1>8. v[e] <= Size(e) /\ v[e] \in Nat
  <2>1. v[e] = Bytes(new[e] \ Earlier(new, N, ByIdentity, e))
    BY DEF Charges, Charged, Earlier, Joined
  <2>2. new[e] \ Earlier(new, N, ByIdentity, e) \in SUBSET new[e]
    OBVIOUS
  <2>3. new[e] \subseteq Allocations /\ IsFiniteSet(new[e])
    BY DEF WellFormed
  <2> QED
    BY <2>1, <2>2, <2>3, BytesMonotone DEF Size
<1>9. ASSUME NEW d \in Domains PROVE sum.dom[d] >= DomainTotal(new, N, ByIdentity, d)
  <2> DEFINE R == {f \in S : DomainOf[f] = d}
             Q == {f \in N : DomainOf[f] = d}
             a == SumFunctionOnSet(u, R)
             b == SumFunctionOnSet(v, R)
  <2>1. R \in SUBSET S /\ R \in SUBSET N
    OBVIOUS
  <2>2. Weights(u, R) /\ Weights(v, R)
    BY <1>4, <1>5, <2>1, SumSubset
  <2>3. b <= a /\ a \in Nat /\ b \in Nat
    BY <1>7, <2>2, SumPointwise, SumOfFinite
  <2>4. cap.dom[d] >= a /\ DomainTotal(new, N, ByIdentity, d) = SumFunctionOnSet(v, Q)
    BY DEF Covers, DomainTotal
  <2>5. CASE DomainOf[e] = d
    <3>1. Q = R \cup {e} /\ e \notin R
      BY <2>5
    <3>2. SumFunctionOnSet(v, R \cup {e}) = v[e] + b
      BY <1>8, <2>2, <3>1, SumAdd
    <3> HIDE DEF a, b, Q, R, v, u
    <3>3. v[e] + b <= cap.dom[d] + Size(e)
      BY <1>1, <1>2, <1>8, <2>3, <2>4
    <3>4. DomainTotal(new, N, ByIdentity, d) = v[e] + b
      BY <2>4, <3>1, <3>2
    <3>5. sum.dom[d] = cap.dom[d] + Size(e)
      BY <1>3, <2>5
    <3> QED
      BY <1>1, <1>2, <1>8, <2>3, <3>3, <3>4, <3>5
  <2>6. CASE DomainOf[e] # d
    <3>1. Q = R
      BY <2>6
    <3> HIDE DEF a, b, Q, R, v, u
    <3>2. DomainTotal(new, N, ByIdentity, d) = b /\ sum.dom[d] = cap.dom[d]
      BY <1>3, <2>4, <2>6, <3>1 DEF b
    <3> QED
      BY <1>1, <2>3, <2>4, <3>2
  <2> QED
    BY <2>5, <2>6
<1> QED
  BY <1>3, <1>6, <1>9 DEF Covers, sum

\* What a sweep keeps is as it was.
LEMMA KeepIsWellFormed ==
    ASSUME WellFormed(blocks), NEW kept
    PROVE  WellFormed(Keep(kept)) /\ Keep(Present) = blocks /\ \A e \in kept \cap Ids : Keep(kept)[e] = blocks[e]
<1>1. \A e \in Ids : Keep(kept)[e] \in {blocks[e], {}}
  BY DEF Keep
<1>2. WellFormed(Keep(kept))
  BY <1>1, FS_EmptySet DEF WellFormed, Keep
<1>3. Keep(Present) = blocks
  <2>1. \A e \in Ids : Keep(Present)[e] = blocks[e]
    BY DEF Keep, Present
  <2> QED
    BY <2>1 DEF Keep, WellFormed
<1> QED
  BY <1>2, <1>3 DEF Keep

\* A catalog's totals cover the directory it is the catalog of.
\* Totals that are trusted under the stamp n cover the entries S.
Trusted(m, n, alloc, S) == m # None /\ m.stamp = n /\ m.capacity # None => Covers(m.capacity, alloc, S)

\* collect_entries_for_admission measures totals that may be trusted.
LEMMA CollectedIsTrusted ==
    ASSUME CatalogInv, CapacityInv, NEW p \in Procs
    PROVE  /\ Collected(p).capacity = CapacityOf(blocks, Present)
           /\ Covers(Collected(p).capacity, blocks, Present)
<1>1. Collected(p).capacity = CapacityOf(blocks, Present)
  <2>1. CASE Current(p)
    <3> DEFINE m == memo[p]
    <3>1. Shape(m)
      BY <2>1 DEF CatalogInv, Current
    <3>2. Collected(p) = [stamp |-> m.stamp, entries |-> m.entries,
                          capacity |-> CapacityOf(blocks, Present), index |-> m.index]
      BY <2>1, <3>1 DEF Collected, Shape
    <3> QED
      BY <3>2
  <2>2. CASE ~Current(p)
    BY <2>2 DEF Collected
  <2> QED
    BY <2>1, <2>2
<1>2. Present \in SUBSET Ids
  BY DEF Present
<1> QED
  BY <1>1, <1>2, CollectedCovers DEF CapacityInv

\* An operation of one process leaves the other totals trustworthy or behind.
LEMMA OneCapacityChanges ==
    ASSUME CatalogInv, CapacityInv, NEW p \in Procs, NEW m, memo' = [memo EXCEPT ![p] = m],
           WellFormed(blocks'), Trusted(m, stamp', blocks', Present'),
           \/ stamp' = stamp /\ blocks' = blocks /\ Present' = Present
           \/ \A q \in Procs : memo[q] # None => memo[q].stamp # stamp'
    PROVE  CapacityInv'
<1>1. memo'[p] = m /\ \A q \in Procs : q # p => memo'[q] = memo[q]
  BY DEF CatalogInv
<1>2. ASSUME NEW q \in Procs, memo'[q] # None, memo'[q].stamp = stamp', memo'[q].capacity # None
      PROVE  Covers(memo'[q].capacity, blocks', Present')
  <2>1. CASE q = p
    BY <1>1, <1>2, <2>1 DEF Trusted
  <2>2. CASE q # p
    <3>1. memo'[q] = memo[q]
      BY <1>1, <2>2
    <3>2. stamp' = stamp /\ blocks' = blocks /\ Present' = Present
      BY <1>2, <3>1
    <3>3. Current(q) /\ memo[q].capacity # None
      BY <1>2, <3>1, <3>2 DEF Current
    <3>4. Covers(memo[q].capacity, blocks, Present)
      BY <3>3 DEF CapacityInv
    <3> QED
      BY <3>1, <3>2, <3>4
  <2> QED
    BY <2>1, <2>2
<1>3. \A q \in Procs : Current(q)' /\ memo'[q].capacity # None => Covers(memo'[q].capacity, blocks', Present')
  BY <1>2 DEF Current
<1>4. \A q \in Procs : Current(q)' /\ memo'[q].capacity # None => Covers(memo[q].capacity, blocks, Present)'
  BY <1>3 DEF Covers, Total, DomainTotal, Charges, Charged, Bytes, ByIdentity
<1> QED
  BY <1>4 DEF CapacityInv, WellFormed

\* A publication: its own catalog is carried over only when nothing but the new
\* entry changed, and then with the new entry's bytes.
LEMMA PublishCovers ==
    ASSUME CatalogInv, CapacityInv, NEW p \in Procs, NEW e \in Ids, Publish(p, e) PROVE CapacityInv'
<1> DEFINE excused == Excused(p, DomainOf[e], Size(e))
           mine == IF excused THEN memo[p] ELSE Collected(p)
<1>1. Shape(mine) /\ mine.stamp = stamp /\ Covers(mine.capacity, blocks, Present)
  <2>1. CASE excused
    <3>1. Current(p) /\ memo[p].capacity # None /\ mine = memo[p]
      BY <2>1 DEF Excused
    <3> QED
      BY <3>1 DEF Current, CatalogInv, CapacityInv
  <2>2. CASE ~excused
    BY <2>2, CollectedDescribes, CollectedIsTrusted
  <2> QED
    BY <2>1, <2>2
<1>9. e \notin Present
  BY DEF Publish
<1>2. PICK kept :
        LET before == StampAfter(stamp, kept # Present)
            after == StampAfter(before, TRUE) IN
           \/ /\ blocks' = [Keep(kept) EXCEPT ![e] = Staged(e, {e})]
              /\ stamp' = after
              /\ memo' \in {[memo EXCEPT ![p] = m] : m \in {Remember(mine, before, after, e), mine}}
           \/ /\ blocks' = Keep(kept)
              /\ stamp' = before
              /\ memo' = [memo EXCEPT ![p] = mine]
  BY DEF Publish
<1> DEFINE before == StampAfter(stamp, kept # Present)
           after == Fresh(before)
<1> HIDE DEF mine
<1>3. \/ before = stamp /\ kept = Present
      \/ before # stamp /\ \A q \in Procs : memo[q] # None => memo[q].stamp # before
  BY FreshIsNew DEF StampAfter
<1>4. after # before /\ after # stamp /\ \A q \in Procs : memo[q] # None => memo[q].stamp # after
  BY FreshIsNew
<1>5. WellFormed(Keep(kept)) /\ Keep(Present) = blocks
  BY KeepIsWellFormed DEF CapacityInv
<1>6. Staged(e, {e}) \subseteq Allocations /\ IsFiniteSet(Staged(e, {e})) /\ Staged(e, {e}) # {}
  <2>1. {e} \in SUBSET Ids
    OBVIOUS
  <2> QED
    BY <2>1, StagedIsFinite
<1>7. CASE /\ blocks' = [Keep(kept) EXCEPT ![e] = Staged(e, {e})] /\ stamp' = after
           /\ memo' \in {[memo EXCEPT ![p] = m] : m \in {Remember(mine, before, after, e), mine}}
  <2>1. WellFormed(blocks') /\ blocks'[e] = Staged(e, {e})
    BY <1>5, <1>6, <1>7 DEF WellFormed
  <2>2. CASE memo' = [memo EXCEPT ![p] = mine]
    <3>1. Trusted(mine, stamp', blocks', Present')
      BY <1>1, <1>4, <1>7 DEF Trusted
    <3> QED
      BY <1>4, <1>7, <2>1, <2>2, <3>1, OneCapacityChanges
  <2>3. CASE memo' = [memo EXCEPT ![p] = Remember(mine, before, after, e)]
    <3> DEFINE r == Remember(mine, before, after, e)
    <3>1. ASSUME r # None, r.capacity # None PROVE Covers(r.capacity, blocks', Present')
      <4>1. mine.stamp = before /\ r = Advanced(mine, after, e)
        BY <3>1 DEF Remember
      <4>2. kept = Present
        BY <4>1, <1>1, <1>3
      <4>3. r.capacity = Add(mine.capacity, DomainOf[e], Size(e))
        BY <3>1, <4>1 DEF Advanced
      <4>4. Present' = Present \cup {e} /\ Present \in SUBSET Ids
        BY <1>6, <1>7, <4>2 DEF Present, Keep
      <4>5. \A f \in Present : blocks'[f] = blocks[f]
        BY <1>5, <1>7, <1>9, <4>2, <4>4 DEF WellFormed
      <4>6. WellFormed(blocks)
        BY DEF CapacityInv
      <4>7. OneMore(blocks', blocks, Present, e)
        BY <1>9, <2>1, <4>4, <4>5, <4>6 DEF OneMore
      <4>8. Covers(Add(mine.capacity, DomainOf[e], Size(e)), blocks', Present \cup {e})
        BY <1>1, <4>7, AddCovers
      <4> HIDE DEF r
      <4> QED
        BY <4>3, <4>4, <4>8
    <3> HIDE DEF r
    <3>2. Trusted(r, stamp', blocks', Present')
      BY <3>1 DEF Trusted
    <3> QED
      BY <1>4, <1>7, <2>1, <2>3, <3>2, OneCapacityChanges DEF r
  <2> QED
    BY <1>7, <2>2, <2>3
<1>8. CASE blocks' = Keep(kept) /\ stamp' = before /\ memo' = [memo EXCEPT ![p] = mine]
  <2>1. CASE before = stamp /\ kept = Present
    <3>1. blocks' = blocks /\ stamp' = stamp
      BY <1>5, <1>8, <2>1
    <3>2. Present' = Present
      BY <3>1 DEF Present
    <3>3. WellFormed(blocks') /\ Trusted(mine, stamp', blocks', Present')
      BY <1>1, <1>5, <1>8, <3>1, <3>2 DEF Trusted
    <3> QED
      BY <1>8, <3>1, <3>2, <3>3, OneCapacityChanges
  <2>2. CASE before # stamp /\ \A q \in Procs : memo[q] # None => memo[q].stamp # before
    <3>1. WellFormed(blocks') /\ Trusted(mine, stamp', blocks', Present')
      BY <1>1, <1>5, <1>8, <2>2 DEF Trusted
    <3> QED
      BY <1>8, <2>2, <3>1, OneCapacityChanges
  <2> QED
    BY <1>3, <2>1, <2>2
<1> QED
  BY <1>2, <1>7, <1>8 DEF StampAfter

\* Every operation leaves the totals a publisher would trust large enough.
LEMMA CapacityStep ==
    ASSUME CatalogInv, CapacityInv, [Next]_vars PROVE CapacityInv'
<1>0. WellFormed(blocks)
  BY DEF CapacityInv
<1>1. ASSUME NEW p \in Procs, NEW S \in Batches, PublishBatch(p, S \ Present) PROVE CapacityInv'
  <2> DEFINE N == S \ Present
             new == [e \in Ids |-> IF e \in N THEN Staged(e, N) ELSE {}]
  <2>1. memo' = [memo EXCEPT ![p] = Collected(p)] /\ stamp' = Fresh(stamp)
    BY <1>1 DEF PublishBatch, StampAfter
  <2>2. PICK kept : blocks' = [e \in Ids |-> IF e \in N THEN new[e] ELSE Keep(kept)[e]]
    BY <1>1 DEF PublishBatch
  <2>3. N \in SUBSET Ids
    BY CatalogAssumption
  <2>4. WellFormed(Keep(kept))
    BY <1>0, KeepIsWellFormed
  <2>5. \A e \in Ids : blocks'[e] = IF e \in N THEN Staged(e, N) ELSE Keep(kept)[e]
    BY <2>2
  <2>6. \A e \in Ids : Staged(e, N) \subseteq Allocations /\ IsFiniteSet(Staged(e, N))
    BY <2>3, StagedIsFinite
  <2>7. blocks' = [e \in Ids |-> blocks'[e]]
    BY <2>2
  <2> HIDE DEF N
  <2>8. WellFormed(blocks')
    BY <2>4, <2>5, <2>6, <2>7 DEF WellFormed
  <2>9. stamp' # stamp /\ \A q \in Procs : memo[q] # None => memo[q].stamp # stamp'
    BY <2>1, FreshIsNew
  <2>10. Trusted(Collected(p), stamp', blocks', Present')
    BY <2>9, CollectedDescribes DEF Trusted
  <2> QED
    BY <2>1, <2>8, <2>9, <2>10, OneCapacityChanges
<1>2. ASSUME NEW p \in Procs, RetentionSweep(p) PROVE CapacityInv'
  <2>1. PICK kept : /\ blocks' = Keep(kept) /\ stamp' = StampAfter(stamp, kept # Present)
                    /\ memo' = [memo EXCEPT ![p] = Collected(p)]
    BY <1>2 DEF RetentionSweep
  <2>2. WellFormed(blocks') /\ Keep(Present) = blocks
    BY <1>0, <2>1, KeepIsWellFormed
  <2>3. CASE kept = Present
    <3>1. blocks' = blocks /\ stamp' = stamp
      BY <2>1, <2>2, <2>3 DEF StampAfter
    <3>2. Present' = Present
      BY <3>1 DEF Present
    <3>3. Trusted(Collected(p), stamp', blocks', Present')
      BY <3>1, <3>2, CollectedIsTrusted DEF Trusted
    <3> QED
      BY <2>1, <2>2, <3>1, <3>2, <3>3, OneCapacityChanges
  <2>4. CASE kept # Present
    <3>1. stamp' # stamp /\ \A q \in Procs : memo[q] # None => memo[q].stamp # stamp'
      BY <2>1, <2>4, FreshIsNew DEF StampAfter
    <3>2. Trusted(Collected(p), stamp', blocks', Present')
      BY <3>1, CollectedDescribes DEF Trusted
    <3> QED
      BY <2>1, <2>2, <3>1, <3>2, OneCapacityChanges
  <2> QED
    BY <2>3, <2>4
<1>3. ASSUME NEW p \in Procs, NEW m, memo' = [memo EXCEPT ![p] = m], UNCHANGED <<blocks, stamp>>,
             Trusted(m, stamp, blocks, Present)
      PROVE  CapacityInv'
  <2>1. Present' = Present /\ blocks' = blocks /\ stamp' = stamp
    BY <1>3 DEF Present
  <2>2. WellFormed(blocks') /\ Trusted(m, stamp', blocks', Present')
    BY <1>0, <1>3, <2>1
  <2> QED
    BY <1>3, <2>1, <2>2, OneCapacityChanges
<1>4. ASSUME NEW p \in Procs, Measure(p) PROVE CapacityInv'
  <2>1. Trusted(Collected(p), stamp, blocks, Present)
    BY CollectedIsTrusted DEF Trusted
  <2> QED
    BY <1>3, <1>4, <2>1 DEF Measure
<1>5. ASSUME NEW p \in Procs, Retained(p).capacity # None
      PROVE  Covers(Retained(p).capacity, blocks, Present)
  <2>1. CASE Current(p)
    BY <1>5, <2>1 DEF Retained, CapacityInv
  <2>2. CASE ~Current(p)
    BY <1>5, <2>2 DEF Retained
  <2> QED
    BY <2>1, <2>2
<1>6. ASSUME NEW p \in Procs, Select(p) PROVE CapacityInv'
  <2>1. Trusted(Retained(p), stamp, blocks, Present)
    BY <1>5 DEF Trusted
  <2> QED
    BY <1>3, <1>6, <2>1 DEF Select
<1>7. ASSUME NEW p \in Procs, NEW d \in Partitions, SelectIndexed(p, d) PROVE CapacityInv'
  <2> DEFINE m == Retained(p)
             members == {e \in m.entries : DomainOf[e] = d}
             found == IF m.index[d] # None THEN m.index[d] ELSE members
             n == IF found \subseteq Present THEN [m EXCEPT !.index[d] = found] ELSE m
  <2>1. memo' = [memo EXCEPT ![p] = n] /\ UNCHANGED <<blocks, stamp>>
    BY <1>7 DEF SelectIndexed
  <2>2. Shape(m)
    BY RetainedDescribes
  <2>3. m.capacity # None => Covers(m.capacity, blocks, Present)
    BY <1>5
  <2> HIDE DEF m, found
  <2>4. n.capacity = m.capacity
    <3>1. [m EXCEPT !.index[d] = found].capacity = m.capacity
      BY <2>2 DEF Shape
    <3> QED
      BY <3>1
  <2> QED
    BY <1>3, <2>1, <2>3, <2>4 DEF Trusted
<1>8. ASSUME NEW p \in Procs, Exit(p) PROVE CapacityInv'
  <2>1. Trusted(None, stamp, blocks, Present)
    BY DEF Trusted
  <2> QED
    BY <1>3, <1>8, <2>1 DEF Exit
<1>9. CASE UNCHANGED <<blocks, stamp, memo>>
  BY <1>9 DEF CapacityInv, Present, Current, WellFormed, Covers, Total, DomainTotal, Charges, Charged
<1> QED
  BY <1>1, <1>2, <1>4, <1>6, <1>7, <1>8, <1>9, PublishCovers DEF Next, vars, Release

\* The store starts empty and without catalogs.
LEMMA CapacityInit == Init => CapacityInv
BY FS_EmptySet DEF Init, CapacityInv, WellFormed, Current

\* The totals a process would trust are never too small (CapacityInv).
THEOREM CapacityInvariantHolds == Spec => []CapacityInv
<1>1. CatalogInv /\ CapacityInv /\ [Next]_vars => CapacityInv'
  BY CapacityStep
<1> QED
  BY <1>1, CapacityInit, CatalogInvariantHolds, PTL DEF Spec

\* remember_published_manifest and StoreCapacity::add: the totals that can excuse a
\* sweep are never below what a canonical sweep would measure, aggregate and per
\* domain, whichever files are hard links of one another
\* (CapacityNeverUnderstates).
THEOREM CapacitiesNeverUnderstate == Spec => []CapacityNeverUnderstates
<1>1. CapacityInv => CapacityNeverUnderstates
  BY DEF CapacityInv, CapacityNeverUnderstates, Covers
<1> QED
  BY <1>1, CapacityInvariantHolds, PTL

-----------------------------------------------------------------------------
(* The admission sweep. *)

\* SetToSeqs(S) are the enumerations of S; each ranks its entries.
LEMMA OrderEnumerates ==
    ASSUME NEW S, IsFiniteSet(S), NEW order \in SetToSeqs(S)
    PROVE  /\ Cardinality(S) \in Nat /\ DOMAIN order = 1 .. Cardinality(S)
           /\ order \in [1 .. Cardinality(S) -> S] /\ ToSet(order) = S
           /\ Ranks(RankIn(order), S)
<1>1. Ranks(RankIn(order), S)
  BY PositionsRank DEF RankIn
<1> QED
  BY <1>1, SeqEnumerates

\* prune_to_limits goes through the entries from the first to the last: h[m] is
\* what it has kept after m of them.
LEMMA SweepUnfolds ==
    ASSUME IsFiniteSet(Present), NEW order \in SetToSeqs(Present), NEW pending, NEW physical
    PROVE  LET n == Cardinality(Present) IN
           \E h : /\ h[0] = Present /\ h[n] = Sweep(order, pending, physical)
                  /\ \A m \in 0 .. (n - 1) : h[m + 1] = Visit(order, pending, physical, h[m], order[m + 1])
<1> DEFINE n == Cardinality(Present)
           D == 1 .. n
           V == SUBSET Present
           step == [x \in D \X V |-> Visit(order, pending, physical, x[2], order[x[1]])]
           Body(g, s) == IF s = {} THEN Present
                         ELSE Visit(order, pending, physical, g[s \ {Max(s)}], order[Max(s)])
           iter == CHOOSE g : g = [s \in SUBSET D |-> Body(g, s)]
<1>1. n \in Nat /\ DOMAIN order = D /\ order \in [D -> Present]
  BY OrderEnumerates
<1>2. step \in [D \X V -> V]
  <2>1. \A kept \in V : \A e : Visit(order, pending, physical, kept, e) \in V
    BY DEF Visit
  <2> QED
    BY <2>1
<1>3. PICK g \in [SUBSET D -> V] : LeftFold(g, n, Present, step)
  <2>1. Present \in V
    OBVIOUS
  <2> HIDE DEF step, V
  <2> QED
    BY <1>1, <1>2, <2>1, FoldLeftExists
<1>4. ASSUME NEW s \in SUBSET D PROVE g[s] = Body(g, s)
  <2>1. CASE s = {}
    BY <1>3, <2>1 DEF LeftFold
  <2>2. CASE s # {}
    <3>1. Max(s) \in D
      BY <1>3, <2>2 DEF LeftFold
    <3>2. s \ {Max(s)} \in SUBSET D
      OBVIOUS
    <3>3. g[s \ {Max(s)}] \in V
      BY <3>2
    <3>4. g[s] = step[<<Max(s), g[s \ {Max(s)}]>>]
      BY <1>3, <2>2 DEF LeftFold
    <3> QED
      BY <2>2, <3>1, <3>3, <3>4
  <2> QED
    BY <2>1, <2>2
<1>5. g = [s \in SUBSET D |-> Body(g, s)]
  BY <1>3, <1>4
<1>6. iter = [s \in SUBSET D |-> Body(iter, s)]
  BY <1>5
<1>7. Sweep(order, pending, physical) = iter[D]
  BY <1>1 DEF Sweep, FoldLeft, MapThenFoldSet
<1> HIDE DEF iter
<1> DEFINE h == [m \in 0 .. n |-> iter[1 .. m]]
<1>8. h[0] = Present /\ h[n] = Sweep(order, pending, physical)
  <2>1. 1 .. 0 = {} /\ 0 \in 0 .. n /\ n \in 0 .. n
    BY <1>1
  <2> QED
    BY <1>6, <1>7, <2>1
<1>9. ASSUME NEW m \in 0 .. (n - 1) PROVE h[m + 1] = Visit(order, pending, physical, h[m], order[m + 1])
  <2>1. m \in Nat /\ m \in 0 .. n /\ m + 1 \in 0 .. n /\ 1 .. (m + 1) \in SUBSET D
    BY <1>1
  <2>2. /\ 1 .. (m + 1) # {} /\ Max(1 .. (m + 1)) = m + 1
        /\ (1 .. (m + 1)) \ {m + 1} = 1 .. m
    BY <2>1, PrefixEnds
  <2>3. iter[1 .. (m + 1)] = Visit(order, pending, physical, iter[1 .. m], order[m + 1])
    BY <1>6, <2>1, <2>2
  <2> QED
    BY <2>1, <2>3
<1> HIDE DEF h
<1> QED
  BY <1>8, <1>9

\* Whatever the order of recency, a sweep for one domain ends within the physical
\* target or with nothing of that domain left that is not leased.
LEMMA SweepOutcome ==
    ASSUME WellFormed(blocks), NEW order \in SetToSeqs(Present), NEW d, NEW pending,
           DOMAIN pending = {d}, NEW physical
    PROVE  LET kept == Sweep(order, pending, physical) IN
           /\ kept \subseteq Present
           /\ \/ Total(blocks, kept, ByIdentity) + physical <= MaxPhysical
              \/ \A f \in kept : f \in leased \/ DomainOf[f] # d
<1> DEFINE n == Cardinality(Present)
           Good(kept) == Fits(kept, RankOf(order, kept), pending, physical)
           Spared(f) == f \in leased \/ DomainOf[f] # d
<1>1. Present \in SUBSET Ids /\ IsFiniteSet(Present)
  BY CatalogAssumption, FS_Subset DEF Present
<1>2. n \in Nat /\ ToSet(order) = Present /\ DOMAIN order = 1 .. n /\ Ranks(RankIn(order), Present)
  BY <1>1, OrderEnumerates
<1>3. PICK h : /\ h[0] = Present /\ h[n] = Sweep(order, pending, physical)
               /\ \A m \in 0 .. (n - 1) : h[m + 1] = Visit(order, pending, physical, h[m], order[m + 1])
  BY <1>1, SweepUnfolds
<1> DEFINE Done(m) == /\ h[m] \subseteq Present
                      /\ Good(h[m]) \/ \A j \in 1 .. m : order[j] \in h[m] => Spared(order[j])
           T == {m \in Nat : m <= n => Done(m)}
<1> HIDE DEF n
<1>4. 0 \in T
  BY <1>3
<1>5. ASSUME NEW m \in T PROVE m + 1 \in T
  <2> SUFFICES ASSUME m + 1 <= n PROVE Done(m + 1)
    OBVIOUS
  <2>1. m \in Nat /\ m <= n /\ m \in 0 .. (n - 1)
    BY <1>2
  <2>2. Done(m)
    BY <2>1
  <2> DEFINE e == order[m + 1]
             kept == h[m]
             over == OverDomains(kept, RankOf(order, kept), pending)
  <2>3. h[m + 1] = IF Good(kept) \/ PassedOver(over, e) \/ ~Idle(e) THEN kept ELSE kept \ {e}
    BY <1>3, <2>1 DEF Visit
  <2>4. ASSUME PassedOver(over, e) PROVE DomainOf[e] # d
    <3>1. over \subseteq {d} /\ over # {} /\ DomainOf[e] \notin over
      BY <2>4 DEF OverDomains, PassedOver
    <3> QED
      BY <3>1
  <2>5. \A j \in 1 .. (m + 1) : j \in 1 .. m \/ j = m + 1
    BY <2>1
  <2> HIDE DEF Good, over
  <2>6. CASE Good(kept)
    BY <2>2, <2>3, <2>6
  <2>7. CASE ~Good(kept) /\ (PassedOver(over, e) \/ ~Idle(e))
    <3>1. h[m + 1] = kept /\ Spared(e)
      BY <2>3, <2>4, <2>7 DEF Idle
    <3> QED
      BY <2>2, <2>5, <2>7, <3>1
  <2>8. CASE ~Good(kept) /\ ~PassedOver(over, e) /\ Idle(e)
    <3>1. h[m + 1] = kept \ {e}
      BY <2>3, <2>8
    <3> QED
      BY <2>2, <2>5, <2>8, <3>1
  <2> QED
    BY <2>6, <2>7, <2>8
<1> HIDE DEF T
<1>6. T = Nat
  <2>1. T \subseteq Nat
    BY DEF T
  <2> QED
    BY <1>4, <1>5, <2>1, NatSetInduction
<1>7. Done(n)
  BY <1>2, <1>6 DEF T
<1> DEFINE kept == h[n]
<1>8. kept \subseteq Present /\ kept \in SUBSET Ids
  BY <1>1, <1>7
<1>9. ASSUME Good(kept) PROVE Total(blocks, kept, ByIdentity) + physical <= MaxPhysical
  <2>1. Ranks(ByIdentity, kept)
    BY <1>8, IdentityRanks
  <2>2. Ranks(RankOf(order, kept), kept)
    BY <1>2, <1>8, <2>1 DEF RankOf, Ranks
  <2>3. /\ Total(blocks, kept, ByIdentity) = Bytes(Joined(blocks, kept))
        /\ Total(blocks, kept, RankOf(order, kept)) = Bytes(Joined(blocks, kept))
    BY <1>8, <2>1, <2>2, TotalIsOccupied
  <2> QED
    BY <1>9, <2>3 DEF Fits
<1>10. ASSUME NEW f \in kept, \A j \in 1 .. n : order[j] \in kept => Spared(order[j]) PROVE Spared(f)
  <2>1. PICK j \in 1 .. n : order[j] = f
    BY <1>2, <1>8 DEF ToSet
  <2> QED
    BY <1>10, <2>1
<1> HIDE DEF Good
<1> QED
  BY <1>3, <1>7, <1>8, <1>9, <1>10

\* prune_for_admission, excused or not, and prune_related_to_limits.
Admitted(e, others) ==
    \/ Total(blocks, others, ByIdentity) + Size(e) <= MaxPhysical
    \/ \A f \in others : f \in leased \/ DomainOf[f] # DomainOf[e]

\* publish: an excused sweep had room, a sweep that ran has made it.
LEMMA PublishAdmits ==
    ASSUME CapacityInv, NEW p \in Procs, NEW x \in Ids, Publish(p, x),
           NEW e \in Present' \ Present
    PROVE  Admitted(e, Present' \ {e})
<1> DEFINE excused == Excused(p, DomainOf[x], Size(x))
<1>0. WellFormed(blocks) /\ Present \in SUBSET Ids
  BY DEF CapacityInv, Present
<1>1. x \notin Present
  BY DEF Publish
<1>2. PICK kept \in IF excused THEN {Present} ELSE Outcomes([y \in {DomainOf[x]} |-> Size(x)], Size(x)) :
        blocks' \in {[Keep(kept) EXCEPT ![x] = Staged(x, {x})], Keep(kept)}
  BY DEF Publish
<1>3. \A f \in Ids : Keep(kept)[f] \in {blocks[f], {}} /\ (f \in kept => Keep(kept)[f] = blocks[f])
  BY DEF Keep
<1>4. e \in Ids /\ blocks'[e] # {} /\ blocks[e] = {}
  BY DEF Present
<1>5. blocks' = [Keep(kept) EXCEPT ![x] = Staged(x, {x})] /\ e = x
  <2>1. blocks' # Keep(kept)
    BY <1>3, <1>4
  <2>2. blocks' = [Keep(kept) EXCEPT ![x] = Staged(x, {x})]
    BY <1>2, <2>1
  <2>3. \A f \in Ids : f # x => blocks'[f] = Keep(kept)[f]
    BY <2>2 DEF Keep
  <2> QED
    BY <1>3, <1>4, <2>2, <2>3
<1>6. kept \subseteq Present => Present' \ {e} = kept
  <2>1. \A f \in Ids : f # e => blocks'[f] = IF f \in kept THEN blocks[f] ELSE {}
    BY <1>5 DEF Keep
  <2> QED
    BY <1>1, <1>5, <2>1 DEF Present
<1>7. CASE excused
  <2>1. kept = Present /\ Current(p) /\ memo[p].capacity # None
    BY <1>2, <1>7 DEF Excused
  <2>2. memo[p].capacity.all + Size(e) <= MaxPhysical
    BY <1>5, <1>7 DEF Excused, CapacityFits
  <2>3. /\ memo[p].capacity.all >= Total(blocks, Present, ByIdentity)
        /\ memo[p].capacity.all \in Nat
    BY <2>1 DEF CapacityInv, Covers, Capacities
  <2>4. Total(blocks, Present, ByIdentity) \in Nat
    BY <1>0, IdentityRanks, TotalIsOccupied
  <2>5. Size(e) \in Nat /\ MaxPhysical \in Nat
    BY <1>4, SizeIsNat, CatalogAssumption
  <2>6. Total(blocks, Present, ByIdentity) + Size(e) <= MaxPhysical
    BY <2>2, <2>3, <2>4, <2>5
  <2> QED
    BY <1>6, <2>1, <2>6 DEF Admitted
<1>8. CASE ~excused
  <2> DEFINE pending == [y \in {DomainOf[x]} |-> Size(x)]
  <2>1. PICK order \in SetToSeqs(Present) : kept = Sweep(order, pending, Size(x))
    BY <1>2, <1>8 DEF Outcomes
  <2>2. DOMAIN pending = {DomainOf[x]}
    OBVIOUS
  <2> HIDE DEF pending
  <2>3. /\ kept \subseteq Present
        /\ \/ Total(blocks, kept, ByIdentity) + Size(x) <= MaxPhysical
           \/ \A f \in kept : f \in leased \/ DomainOf[f] # DomainOf[x]
    BY <1>0, <2>1, <2>2, SweepOutcome
  <2> QED
    BY <1>5, <1>6, <2>3 DEF Admitted
<1> QED
  BY <1>7, <1>8

\* publish_batch: the same for a batch with a single new member.
LEMMA BatchAdmits ==
    ASSUME CapacityInv, NEW p \in Procs, NEW S \in Batches, PublishBatch(p, S \ Present),
           NEW e \in Present' \ Present, Present' \ {e} \subseteq Present
    PROVE  Admitted(e, Present' \ {e})
<1> DEFINE N == S \ Present
           new == [f \in Ids |-> IF f \in N THEN Staged(f, N) ELSE {}]
           pending == [d \in {DomainOf[f] : f \in N} |-> DomainTotal(new, N, ByIdentity, d)]
           physical == Total(new, N, ByIdentity)
<1>0. WellFormed(blocks) /\ Present \in SUBSET Ids
  BY DEF CapacityInv, Present
<1>1. PICK kept \in Outcomes(pending, physical) :
         blocks' = [f \in Ids |-> IF f \in N THEN new[f] ELSE Keep(kept)[f]]
  BY DEF PublishBatch
<1>2. N \in SUBSET Ids
  BY CatalogAssumption
<1>3. \A f \in N : f \in Present'
  <2>1. \A f \in N : Staged(f, N) # {}
    BY <1>2, StagedIsFinite
  <2>2. \A f \in N : f \in Ids /\ blocks'[f] = Staged(f, N)
    BY <1>1, <1>2
  <2> QED
    BY <2>1, <2>2 DEF Present
<1>4. e \in N
  <2>1. e \in Ids /\ blocks'[e] # {} /\ blocks[e] = {}
    BY DEF Present
  <2>2. Keep(kept)[e] = {}
    BY <2>1 DEF Keep
  <2> QED
    BY <1>1, <2>1, <2>2
<1>5. N = {e}
  BY <1>3, <1>4
<1>6. DOMAIN pending = {DomainOf[e]}
  BY <1>5
<1>7. physical = Size(e)
  <2>1. \A f \in Ids : new[f] \subseteq Allocations /\ IsFiniteSet(new[f])
    BY <1>2, StagedIsFinite, FS_EmptySet
  <2>2. WellFormed(new)
    BY <2>1 DEF WellFormed
  <2>3. physical = Bytes(Joined(new, N))
    <3> HIDE DEF new, N
    <3> QED
      BY <1>2, <2>2, IdentityRanks, TotalIsOccupied
  <2>4. Joined(new, N) = Staged(e, {e})
    <3>1. new[e] = Staged(e, {e})
      BY <1>2, <1>4, <1>5
    <3> HIDE DEF new, N
    <3> QED
      BY <1>5, <3>1 DEF Joined
  <2> QED
    BY <2>3, <2>4 DEF Size
<1>8. PICK order \in SetToSeqs(Present) : kept = Sweep(order, pending, physical)
  BY <1>1 DEF Outcomes
<1> HIDE DEF pending, physical
<1>9. /\ kept \subseteq Present
      /\ \/ Total(blocks, kept, ByIdentity) + Size(e) <= MaxPhysical
         \/ \A f \in kept : f \in leased \/ DomainOf[f] # DomainOf[e]
  BY <1>0, <1>6, <1>7, <1>8, SweepOutcome
<1>10. Present' \ {e} = kept
  <2>1. \A f \in Ids : f # e => blocks'[f] = IF f \in kept THEN blocks[f] ELSE {}
    BY <1>1, <1>5 DEF Keep
  <2> QED
    BY <1>9, <2>1 DEF Present
<1> QED
  BY <1>9, <1>10 DEF Admitted

\* prune_for_admission: however the sweep was excused, one publication leaves the
\* store within its physical target, or nothing in its domain that could have been
\* removed (AdmissionIsSwept).
THEOREM AdmissionsAreSwept == Spec => AdmissionIsSwept
<1>1. ASSUME CapacityInv, [Next]_vars, NEW e \in Present' \ Present, Present' \ {e} \subseteq Present
      PROVE  Admitted(e, Present' \ {e})
  <2>1. CASE Present' \subseteq Present
    BY <2>1
  <2>2. ASSUME NEW kept, blocks' = Keep(kept) PROVE Present' \subseteq Present
    BY <2>2 DEF Keep, Present
  <2>3. ASSUME NEW p \in Procs, RetentionSweep(p) PROVE Present' \subseteq Present
    BY <2>2, <2>3 DEF RetentionSweep
  <2>4. CASE UNCHANGED blocks
    BY <2>4 DEF Present
  <2> QED
    BY <1>1, <2>1, <2>3, <2>4, PublishAdmits, BatchAdmits
    DEF Next, vars, Release, Measure, Select, SelectIndexed, Exit
<1>2. CapacityInv /\ [Next]_vars =>
        \A e \in Present' \ Present :
          LET others == Present' \ {e} IN
          others \subseteq Present =>
            \/ Total(blocks, others, ByIdentity) + Size(e) <= MaxPhysical
            \/ \A f \in others : f \in leased \/ DomainOf[f] # DomainOf[e]
  BY <1>1 DEF Admitted
<1> QED
  BY <1>2, CapacityInvariantHolds, PTL DEF Spec, AdmissionIsSwept

-----------------------------------------------------------------------------
(* Types, and leases. *)

\* try_lock_entry: no sweep removes an entry that a live payload protects.
LEMMA SweepSparesLeased ==
    ASSUME NEW pending, NEW physical, NEW kept \in Outcomes(pending, physical)
    PROVE  kept \subseteq Present /\ leased \cap Present \subseteq kept
<1>1. PICK order \in SetToSeqs(Present) : kept = Sweep(order, pending, physical)
  BY DEF Outcomes
<1>2. Present \in SUBSET Ids
  BY DEF Present
<1>3. IsFiniteSet(Present)
  BY <1>2, FS_Subset, CatalogAssumption
<1> DEFINE n == Cardinality(Present)
<1>4. n \in Nat
  BY <1>3, FS_CardinalityType
<1>5. PICK h : /\ h[0] = Present /\ h[n] = kept
               /\ \A m \in 0 .. (n - 1) : h[m + 1] = Visit(order, pending, physical, h[m], order[m + 1])
  BY <1>1, <1>3, SweepUnfolds
<1> HIDE DEF n
<1> DEFINE Spares(S) == S \subseteq Present /\ leased \cap Present \subseteq S
           T == {m \in Nat : m <= n => Spares(h[m])}
<1>6. 0 \in T
  BY <1>5
<1>7. ASSUME NEW m \in T PROVE m + 1 \in T
  <2> SUFFICES ASSUME m + 1 <= n PROVE Spares(h[m + 1])
    OBVIOUS
  <2>1. m \in Nat /\ m <= n /\ m \in 0 .. (n - 1)
    BY <1>4
  <2>2. Spares(h[m])
    BY <2>1
  <2>3. h[m + 1] = h[m] \/ (h[m + 1] = h[m] \ {order[m + 1]} /\ order[m + 1] \notin leased)
    BY <1>5, <2>1 DEF Visit, Idle
  <2> QED
    BY <2>2, <2>3
<1> HIDE DEF T
<1>8. T = Nat
  <2>1. T \subseteq Nat
    BY DEF T
  <2> QED
    BY <1>6, <1>7, <2>1, NatSetInduction
<1> QED
  BY <1>4, <1>5, <1>8 DEF T

\* A catalog that was read, and one that was just measured, have their types.
LEMMA CatalogsTyped ==
    ASSUME TypeOK, CatalogInv, CapacityInv, NEW p \in Procs
    PROVE  Retained(p) \in Catalogs /\ Collected(p) \in Catalogs
<1> DEFINE cap == CapacityOf(blocks, Present)
<1>1. Present \in SUBSET Ids /\ WellFormed(blocks)
  BY DEF Present, CapacityInv
<1>2. cap \in Capacities
  BY <1>1, CollectedCovers DEF Covers
<1>3. NoIndex \in [Partitions -> (SUBSET Ids) \cup {None}]
  BY DEF NoIndex
<1> HIDE DEF cap
<1>4. ASSUME NEW c \in Capacities \cup {None}
      PROVE  [stamp |-> stamp, entries |-> Present, capacity |-> c, index |-> NoIndex] \in Catalogs
  BY <1>1, <1>3 DEF Catalogs, TypeOK
<1>5. CASE Current(p)
  <2>1. memo[p] \in Catalogs /\ Shape(memo[p])
    BY <1>5 DEF TypeOK, Current, CatalogInv
  <2> DEFINE m == memo[p]
  <2>2. [m EXCEPT !.capacity = cap]
          = [stamp |-> m.stamp, entries |-> m.entries, capacity |-> cap, index |-> m.index]
    BY <2>1 DEF Shape
  <2>3. [stamp |-> m.stamp, entries |-> m.entries, capacity |-> cap, index |-> m.index] \in Catalogs
    BY <1>2, <2>1 DEF Catalogs
  <2> QED
    BY <1>5, <2>1, <2>2, <2>3 DEF Retained, Collected, cap
<1>6. CASE ~Current(p)
  BY <1>2, <1>4, <1>6 DEF Retained, Collected, cap
<1> QED
  BY <1>5, <1>6

\* So does one that a publication has advanced.
LEMMA AdvancedTyped ==
    ASSUME NEW m \in Catalogs, NEW n \in Nat, NEW e \in Ids
    PROVE  Advanced(m, n, e) \in Catalogs
<1>1. /\ m.entries \in SUBSET Ids /\ m.capacity \in Capacities \cup {None}
      /\ m.index \in [Partitions -> (SUBSET Ids) \cup {None}]
  BY DEF Catalogs
<1>2. DomainOf[e] \in Domains /\ Size(e) \in Nat
  BY CatalogAssumption, SizeIsNat
<1> DEFINE d == DomainOf[e]
           size == Size(e)
           cap == m.capacity
           after == IF cap = None THEN None ELSE Add(cap, d, size)
           index == [c \in Partitions |-> IF m.index[c] # None /\ d = c THEN m.index[c] \cup {e} ELSE m.index[c]]
<1>3. after \in Capacities \cup {None}
  <2>1. CASE cap = None
    BY <2>1
  <2>2. CASE cap # None
    <3>1. cap \in Capacities
      BY <1>1, <2>2
    <3> QED
      BY <1>2, <2>2, <3>1, AddAdds
  <2> QED
    BY <2>1, <2>2
<1>4. index \in [Partitions -> (SUBSET Ids) \cup {None}]
  BY <1>1
<1>5. Advanced(m, n, e) = [stamp |-> n, entries |-> m.entries \cup {e}, capacity |-> after, index |-> index]
  BY DEF Advanced
<1> HIDE DEF after, index
<1> QED
  BY <1>1, <1>3, <1>4, <1>5 DEF Catalogs

\* An operation of one process that leaves it a typed catalog, a stamp that is a
\* number and the leased entries in place.
LEMMA OneTypeChanges ==
    ASSUME TypeOK, CatalogInv, NEW p \in Procs, NEW m, memo' = [memo EXCEPT ![p] = m],
           m = None \/ m \in Catalogs, stamp' \in Nat, leased' \subseteq Present'
    PROVE  TypeOK'
<1>1. \A q \in Procs : memo'[q] = m \/ memo'[q] = memo[q]
  BY DEF CatalogInv
<1> QED
  BY <1>1 DEF TypeOK, Catalogs, Capacities

\* Publication, with the sweep before it.
LEMMA PublishTyped ==
    ASSUME TypeOK, CatalogInv, CapacityInv, NEW p \in Procs, NEW e \in Ids, Publish(p, e)
    PROVE  TypeOK'
<1> DEFINE excused == Excused(p, DomainOf[e], Size(e))
           mine == IF excused THEN memo[p] ELSE Collected(p)
<1>1. mine \in Catalogs
  <2>1. CASE excused
    BY <2>1 DEF Excused, Current, TypeOK
  <2>2. CASE ~excused
    BY <2>2, CatalogsTyped
  <2> QED
    BY <2>1, <2>2
<1>2. PICK kept \in IF excused THEN {Present} ELSE Outcomes([y \in {DomainOf[e]} |-> Size(e)], Size(e)) :
        LET before == StampAfter(stamp, kept # Present)
            after == StampAfter(before, TRUE) IN
           \/ /\ blocks' = [Keep(kept) EXCEPT ![e] = Staged(e, {e})]
              /\ stamp' = after
              /\ memo' \in {[memo EXCEPT ![p] = m] : m \in {Remember(mine, before, after, e), mine}}
           \/ /\ blocks' = Keep(kept)
              /\ stamp' = before
              /\ memo' = [memo EXCEPT ![p] = mine]
  BY DEF Publish
<1> DEFINE before == StampAfter(stamp, kept # Present)
           after == Fresh(before)
<1> HIDE DEF mine
<1>3. before \in Nat /\ after \in Nat
  BY FreshIsNew DEF StampAfter, TypeOK
<1>4. kept \subseteq Present /\ leased \subseteq kept
  <2>1. CASE excused
    BY <1>2, <2>1 DEF TypeOK
  <2>2. CASE ~excused
    BY <1>2, <2>2, SweepSparesLeased DEF TypeOK
  <2> QED
    BY <2>1, <2>2
<1>5. stamp' \in Nat /\ leased' = leased
  BY <1>2, <1>3 DEF Publish, StampAfter
<1>6. leased \subseteq Present'
  <2>1. Staged(e, {e}) # {}
    BY StagedIsFinite
  <2>2. \A f \in kept : f \in Ids /\ Keep(kept)[f] # {}
    BY <1>4 DEF Keep, Present
  <2>3. DOMAIN Keep(kept) = Ids
    BY DEF Keep
  <2>4. \A f \in kept : f \in Ids /\ blocks'[f] # {}
    BY <1>2, <2>1, <2>2, <2>3
  <2> QED
    BY <1>4, <2>4 DEF Present
<1>7. Remember(mine, before, after, e) = None \/ Remember(mine, before, after, e) \in Catalogs
  BY <1>1, <1>3, AdvancedTyped DEF Remember
<1>8. memo' = [memo EXCEPT ![p] = mine] \/ memo' = [memo EXCEPT ![p] = Remember(mine, before, after, e)]
  BY <1>2 DEF StampAfter
<1> QED
  BY <1>1, <1>5, <1>6, <1>7, <1>8, OneTypeChanges

\* Every operation keeps the types and the leased entries.
LEMMA TypeStep ==
    ASSUME TypeOK, CatalogInv, CapacityInv, [Next]_vars
    PROVE  TypeOK'
<1>1. ASSUME NEW p \in Procs, NEW S \in Batches, PublishBatch(p, S \ Present) PROVE TypeOK'
  <2> DEFINE N == S \ Present
             new == [f \in Ids |-> IF f \in N THEN Staged(f, N) ELSE {}]
             pending == [d \in {DomainOf[f] : f \in N} |-> DomainTotal(new, N, ByIdentity, d)]
  <2>1. PICK kept \in Outcomes(pending, Total(new, N, ByIdentity)) :
           /\ blocks' = [f \in Ids |-> IF f \in N THEN new[f] ELSE Keep(kept)[f]]
           /\ stamp' = StampAfter(stamp, TRUE)
           /\ memo' = [memo EXCEPT ![p] = Collected(p)]
           /\ UNCHANGED leased
    BY <1>1 DEF PublishBatch
  <2>2. stamp' \in Nat
    BY <2>1, FreshIsNew DEF StampAfter
  <2>3. kept \subseteq Present /\ leased \subseteq kept
    BY SweepSparesLeased DEF TypeOK
  <2>4. \A f \in kept : f \in Ids /\ blocks'[f] = blocks[f] /\ blocks[f] # {}
    BY <2>1, <2>3 DEF Keep, Present
  <2>5. leased' \subseteq Present'
    BY <2>1, <2>3, <2>4 DEF Present
  <2> QED
    BY <2>1, <2>2, <2>5, CatalogsTyped, OneTypeChanges
<1>2. ASSUME NEW p \in Procs, RetentionSweep(p) PROVE TypeOK'
  <2>1. PICK kept \in Outcomes([x \in {} |-> 0], 0) :
           /\ blocks' = Keep(kept) /\ stamp' = StampAfter(stamp, kept # Present)
           /\ memo' = [memo EXCEPT ![p] = Collected(p)] /\ UNCHANGED leased
    BY <1>2 DEF RetentionSweep
  <2>2. stamp' \in Nat
    BY <2>1, FreshIsNew DEF StampAfter, TypeOK
  <2>3. kept \subseteq Present /\ leased \subseteq kept
    BY SweepSparesLeased DEF TypeOK
  <2>4. \A f \in kept : f \in Ids /\ blocks'[f] = blocks[f] /\ blocks[f] # {}
    BY <2>1, <2>3 DEF Keep, Present
  <2>5. leased' \subseteq Present'
    BY <2>1, <2>3, <2>4 DEF Present
  <2> QED
    BY <2>1, <2>2, <2>5, CatalogsTyped, OneTypeChanges
<1>3. ASSUME NEW p \in Procs, Measure(p) PROVE TypeOK'
  <2>1. /\ memo' = [memo EXCEPT ![p] = Collected(p)] /\ stamp' = stamp /\ leased' = leased
        /\ Present' = Present
    BY <1>3 DEF Measure, Present
  <2>2. stamp' \in Nat /\ leased' \subseteq Present'
    BY <2>1 DEF TypeOK
  <2> QED
    BY <2>1, <2>2, CatalogsTyped, OneTypeChanges
<1>4. ASSUME NEW p \in Procs, Select(p) PROVE TypeOK'
  <2>1. /\ memo' = [memo EXCEPT ![p] = Retained(p)] /\ stamp' = stamp /\ Present' = Present
        /\ leased' \subseteq leased \cup Present
    BY <1>4 DEF Select, Present
  <2>2. stamp' \in Nat /\ leased' \subseteq Present'
    BY <2>1 DEF TypeOK
  <2> QED
    BY <2>1, <2>2, CatalogsTyped, OneTypeChanges
<1>5. ASSUME NEW p \in Procs, NEW d \in Partitions, SelectIndexed(p, d) PROVE TypeOK'
  <2> DEFINE m == Retained(p)
             found == IF m.index[d] # None THEN m.index[d] ELSE {e \in m.entries : DomainOf[e] = d}
             n == IF found \subseteq Present THEN [m EXCEPT !.index[d] = found] ELSE m
  <2>1. memo' = [memo EXCEPT ![p] = n] /\ stamp' = stamp /\ Present' = Present
    BY <1>5 DEF SelectIndexed, Present
  <2>2. leased' \subseteq leased \cup Present
    BY <1>5 DEF SelectIndexed
  <2>3. stamp' \in Nat /\ leased' \subseteq Present'
    BY <2>1, <2>2 DEF TypeOK
  <2>4. m \in Catalogs
    BY CatalogsTyped
  <2>5. n \in Catalogs
    <3> HIDE DEF m, found
    <3>1. CASE found \subseteq Present
      <4>1. /\ m = [stamp |-> m.stamp, entries |-> m.entries, capacity |-> m.capacity, index |-> m.index]
            /\ m.index \in [Partitions -> (SUBSET Ids) \cup {None}]
        BY <2>4 DEF Catalogs
      <4>2. found \in SUBSET Ids
        BY <3>1 DEF Present
      <4>3. [m EXCEPT !.index[d] = found]
              = [stamp |-> m.stamp, entries |-> m.entries, capacity |-> m.capacity,
                 index |-> [m.index EXCEPT ![d] = found]]
        BY <4>1
      <4>4. [m.index EXCEPT ![d] = found] \in [Partitions -> (SUBSET Ids) \cup {None}]
        BY <4>1, <4>2
      <4>5. n = [m EXCEPT !.index[d] = found]
        BY <3>1
      <4> QED
        BY <2>4, <4>3, <4>4, <4>5 DEF Catalogs
    <3>2. CASE ~(found \subseteq Present)
      BY <2>4, <3>2
    <3> QED
      BY <3>1, <3>2
  <2> HIDE DEF n
  <2> QED
    BY <2>1, <2>3, <2>5, OneTypeChanges
<1>6. ASSUME NEW p \in Procs, Exit(p) PROVE TypeOK'
  <2>1. memo' = [memo EXCEPT ![p] = None] /\ stamp' = stamp /\ leased' = leased /\ Present' = Present
    BY <1>6 DEF Exit, Present
  <2>2. stamp' \in Nat /\ leased' \subseteq Present'
    BY <2>1 DEF TypeOK
  <2> QED
    BY <2>1, <2>2, OneTypeChanges
<1>7. ASSUME leased' \subseteq leased, UNCHANGED <<blocks, stamp, memo>> PROVE TypeOK'
  BY <1>7 DEF TypeOK, Present, Catalogs, Capacities
<1> QED
  BY <1>1, <1>2, <1>3, <1>4, <1>5, <1>6, <1>7, PublishTyped DEF Next, vars, Release

\* Catalogs keep their types, and no publication or retention sweep takes an entry
\* from under a live payload.
THEOREM CatalogTypeCorrect == Spec => []TypeOK
<1>1. Init => TypeOK
  BY DEF Init, TypeOK
<1>2. TypeOK /\ CatalogInv /\ CapacityInv /\ [Next]_vars => TypeOK'
  BY TypeStep
<1> QED
  BY <1>1, <1>2, CatalogInvariantHolds, CapacityInvariantHolds, PTL DEF Spec
=============================================================================
