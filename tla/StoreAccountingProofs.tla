------------------------ MODULE StoreAccountingProofs ------------------------
(***************************************************************************)
(* What an Oven store reports of its size is never too much and, while no  *)
(* two listings claim a number that only one of the entries has, exact;    *)
(* then what prune removes is what preview_prune announced, and prune      *)
(* reaches its target.  All of this whatever the entries, their files, the *)
(* sizes, the limits and the inode numbers the filesystem hands out again. *)
(***************************************************************************)
EXTENDS StoreAccounting, FoldLemmas

-----------------------------------------------------------------------------
(* The inductive invariant. *)

\* Directory listings are sets of <<inode, bytes>>.
Pairs == Nat \X Nat
ByteOf == [r \in Pairs |-> r[2]]

\* The listings the entries would have if a named their access stamps.
Full(a) == [e \in Entries |-> content[e] \cup {<<a[e], StampBytes>>}]

\* The inodes that a names for the retained entries are all different, and no
\* immutable file has one of them.
Stamps(a) ==
    /\ \A e \in present : a[e] \in 1 .. created
    /\ \A e \in present, f \in Entries : \A r \in content[f] : r[1] # a[e]
    /\ \A e, f \in present : a[e] = a[f] => e = f

\* The immutable files are finitely many, and an inode has one size.
Contents ==
    /\ \A e \in Entries : content[e] \in SUBSET Pairs /\ IsFiniteSet(content[e])
    /\ \A e \in Entries : \A r \in content[e] : r[1] <= created
    /\ \A e, f \in Entries : \A r \in content[e], s \in content[f] : r[1] = s[1] => r = s

\* c names, for each retained entry, an inode that none of its own immutable
\* files has.
StampNames(c) == \A e \in present : c[e] \in 1 .. created /\ \A r \in content[e] : r[1] # c[e]

\* A listing, cached or not, is wrong about no more than the access stamp.
ListingShape ==
    \E c : StampNames(c) /\ \A e \in present : Records(e) = Full(c)[e]

\* The stamps that the listings name are, besides, as distinct as the real ones.
Listings ==
    \E c : Stamps(c) /\ \A e \in present : Records(e) = Full(c)[e]

\* Types, and nothing left behind of an entry that is gone.
Shape ==
    /\ present \subseteq Entries /\ inUse \subseteq present
    /\ created \in Nat /\ created <= MaxFiles
    /\ clock \in Nat /\ clock <= MaxClock
    /\ lastUsed \in [Entries -> Nat] /\ access \in [Entries -> Nat]
    /\ \A e \in Entries \ present : content[e] = {} /\ access[e] = 0 /\ records[e] = Nothing

\* Inodes are files, and a listing is stale in its access stamp only.
AccountingInv == Shape /\ Contents /\ Stamps(access) /\ ListingShape

\* No listing mistakes the file of one entry for a file of another.
ExactInv == AccountingInv /\ Listings

\* Listings that agree are exact: a number that a stale stamp shares with another
\* listing would have to be the stamp that is there.
LEMMA AgreementIsExact ==
    ASSUME AccountingInv, ListingsAgree
    PROVE  ExactInv
<1> USE DEF AccountingInv
<1>1. PICK c : StampNames(c) /\ \A e \in present : Records(e) = Full(c)[e]
  BY DEF ListingShape
<1>2. present \subseteq Entries /\ \A e \in Entries \ present : content[e] = {}
  BY DEF Shape
<1>3. ASSUME NEW e \in present PROVE Records(e) = content[e] \cup {<<c[e], StampBytes>>}
  BY <1>1, <1>2 DEF Full
<1>4. ASSUME NEW e \in present PROVE c[e] \in Listed(e) /\ \A r \in content[e] : r[1] \in Listed(e)
  <2>1. <<c[e], StampBytes>> \in Records(e) /\ \A r \in content[e] : r \in Records(e)
    BY <1>3
  <2>2. <<c[e], StampBytes>>[1] = c[e]
    OBVIOUS
  <2> QED
    BY <2>1, <2>2 DEF Listed
<1>5. ASSUME NEW e \in present, c[e] \in Linked({e}) PROVE c[e] = access[e]
  <2>1. PICK r \in Walk(e) : r[1] = c[e]
    BY <1>5 DEF Linked
  <2>2. r \notin content[e]
    BY <1>1, <2>1 DEF StampNames
  <2>3. r = <<access[e], StampBytes>>
    BY <2>1, <2>2 DEF Walk
  <2> QED
    BY <2>1, <2>3
<1>6. ASSUME NEW e \in present, NEW f \in present, e # f, NEW i \in Listed(e) \cap Listed(f)
      PROVE  i \in Linked({e}) /\ i \in Linked({f})
  BY <1>6 DEF ListingsAgree
<1>7. ASSUME NEW e \in present, NEW f \in present, c[e] = c[f] PROVE e = f
  <2> SUFFICES ASSUME e # f PROVE FALSE
    OBVIOUS
  <2>1. c[e] \in Linked({e}) /\ c[f] \in Linked({f})
    BY <1>4, <1>6, <1>7
  <2>2. access[e] = access[f]
    BY <1>5, <1>7, <2>1
  <2> QED
    BY <2>2 DEF Stamps
<1>8. ASSUME NEW e \in present, NEW f \in Entries, NEW r \in content[f] PROVE r[1] # c[e]
  <2> SUFFICES ASSUME r[1] = c[e] PROVE FALSE
    OBVIOUS
  <2>1. f \in present /\ e # f
    BY <1>1, <1>2 DEF StampNames
  <2>2. c[e] \in Linked({e})
    BY <1>4, <1>6, <2>1
  <2>3. r[1] = access[e]
    BY <1>5, <2>2
  <2> QED
    BY <2>3 DEF Stamps
<1>9. ASSUME NEW e \in present PROVE c[e] \in 1 .. created
  BY <1>1 DEF StampNames
<1> QED
  BY <1>1, <1>7, <1>8, <1>9 DEF Stamps, Listings, ExactInv

-----------------------------------------------------------------------------
(* Bytes by inode. *)

\* What every set of entries has in common: it is finite.
LEMMA EntriesFinite ==
    ASSUME NEW S \in SUBSET Entries
    PROVE  IsFiniteSet(S)
BY AccountingAssumption, FS_Subset

\* BytesOf adds up the sizes of a listing.
LEMMA BytesAddUp ==
    ASSUME NEW R \in SUBSET Pairs, IsFiniteSet(R)
    PROVE  /\ Weights(ByteOf, R)
           /\ BytesOf(R) = SumFunctionOnSet(ByteOf, R)
           /\ BytesOf(R) \in Nat
<1> DEFINE v == [r \in R |-> r[2]]
<1>1. \A r \in R : v[r] = ByteOf[r] /\ v[r] \in Nat
  BY DEF Pairs, ByteOf
<1>2. Weights(v, R) /\ Weights(ByteOf, R)
  BY <1>1 DEF Weights
<1> HIDE DEF v
<1>3. SumFunctionOnSet(v, R) = SumFunctionOnSet(ByteOf, R)
  BY <1>1, <1>2, SumSame
<1>4. SumFunctionOnSet(v, R) \in Nat
  BY <1>2, SumOfFinite
<1> QED
  BY <1>2, <1>3, <1>4 DEF BytesOf, v

\* A listing is a finite set of records.
LEMMA FullIsListing ==
    ASSUME Shape, Contents, NEW a, Stamps(a), NEW e \in present
    PROVE  /\ Full(a)[e] = content[e] \cup {<<a[e], StampBytes>>}
           /\ Full(a)[e] \in SUBSET Pairs /\ IsFiniteSet(Full(a)[e])
           /\ Weights(ByteOf, Full(a)[e])
<1>1. e \in Entries /\ a[e] \in Nat /\ StampBytes \in Nat
  BY AccountingAssumption DEF Shape, Stamps
<1>2. Full(a)[e] = content[e] \cup {<<a[e], StampBytes>>}
  BY <1>1 DEF Full
<1>3. Full(a)[e] \in SUBSET Pairs
  BY <1>1, <1>2 DEF Contents, Pairs
<1>4. IsFiniteSet(Full(a)[e])
  <2>1. IsFiniteSet(content[e])
    BY <1>1 DEF Contents
  <2>2. IsFiniteSet(content[e] \cup {<<a[e], StampBytes>>})
    BY <2>1, FS_AddElement
  <2> QED
    BY <1>2, <2>2
<1> QED
  BY <1>2, <1>3, <1>4, BytesAddUp

\* An inode in two of these listings is the same record in both.
LEMMA InodeIsRecord ==
    ASSUME Shape, Contents, NEW a, Stamps(a), NEW e \in present, NEW f \in present,
           NEW r \in Full(a)[e], NEW s \in Full(a)[f], r[1] = s[1]
    PROVE  r = s
<1>1. e \in Entries /\ f \in Entries
  BY DEF Shape
<1>2. r \in content[e] \/ r = <<a[e], StampBytes>>
  BY <1>1 DEF Full
<1>3. s \in content[f] \/ s = <<a[f], StampBytes>>
  BY <1>1 DEF Full
<1>4. CASE r \in content[e] /\ s \in content[f]
  BY <1>1, <1>4 DEF Contents
<1>5. CASE r \in content[e] /\ s = <<a[f], StampBytes>>
  BY <1>1, <1>5 DEF Stamps
<1>6. CASE r = <<a[e], StampBytes>> /\ s \in content[f]
  BY <1>1, <1>6 DEF Stamps
<1>7. CASE r = <<a[e], StampBytes>> /\ s = <<a[f], StampBytes>>
  BY <1>7 DEF Stamps
<1> QED
  BY <1>2, <1>3, <1>4, <1>5, <1>6, <1>7

\* The listings of S together are finitely many records.
LEMMA JoinedIsListing ==
    ASSUME Shape, Contents, NEW a, Stamps(a), NEW S \in SUBSET present
    PROVE  /\ Joined(Full(a), S) \in SUBSET Pairs /\ IsFiniteSet(Joined(Full(a), S))
           /\ Weights(ByteOf, Joined(Full(a), S))
<1>1. \A e \in S : Full(a)[e] \in SUBSET Pairs /\ IsFiniteSet(Full(a)[e])
  BY FullIsListing
<1>2. S \in SUBSET Entries
  BY DEF Shape
<1>3. IsFiniteSet(S)
  BY <1>2, EntriesFinite
<1> DEFINE F == {s \in SUBSET S : IsFiniteSet(Joined(Full(a), s))}
<1>4. {} \in F
  <2>1. Joined(Full(a), {}) = {}
    BY DEF Joined
  <2> QED
    BY <2>1, FS_EmptySet
<1>5. ASSUME NEW s \in SUBSET S, NEW x \in S, s \in F PROVE s \cup {x} \in F
  <2>1. Joined(Full(a), s \cup {x}) = Joined(Full(a), s) \cup Full(a)[x]
    BY DEF Joined
  <2>2. IsFiniteSet(Joined(Full(a), s)) /\ IsFiniteSet(Full(a)[x])
    BY <1>1, <1>5
  <2>3. IsFiniteSet(Joined(Full(a), s) \cup Full(a)[x])
    BY <2>2, FS_Union
  <2> QED
    BY <2>1, <2>3
<1> HIDE DEF F
<1>6. S \in F
  BY <1>3, <1>4, <1>5, SubsetInduction
<1>7. IsFiniteSet(Joined(Full(a), S))
  BY <1>6 DEF F
<1>8. Joined(Full(a), S) \in SUBSET Pairs
  BY <1>1 DEF Joined
<1> QED
  BY <1>7, <1>8, BytesAddUp

\* However the access stamps of the entries of S are named, as long as the names
\* are distinct, they add the same to the bytes of the immutable files.
LEMMA StampsAddUp ==
    ASSUME Shape, Contents, NEW a, Stamps(a), NEW S \in SUBSET present
    PROVE  LET fixed == UNION {content[e] : e \in S}
               each == [e \in present |-> StampBytes]
           IN  /\ Weights(ByteOf, fixed) /\ Weights(each, S)
               /\ SumFunctionOnSet(ByteOf, Joined(Full(a), S))
                    = SumFunctionOnSet(ByteOf, fixed) + SumFunctionOnSet(each, S)
<1> DEFINE fixed == UNION {content[e] : e \in S}
           each == [e \in present |-> StampBytes]
           Names(s) == {<<a[e], StampBytes>> : e \in s}
           F == {s \in SUBSET S : /\ Weights(ByteOf, Names(s)) /\ Weights(each, s)
                                  /\ SumFunctionOnSet(ByteOf, Names(s)) = SumFunctionOnSet(each, s)}
<1>1. S \in SUBSET Entries /\ StampBytes \in Nat
  BY AccountingAssumption DEF Shape
<1>2. IsFiniteSet(S)
  BY <1>1, EntriesFinite
<1>3. {} \in F
  <2>1. Names({}) = {}
    OBVIOUS
  <2> HIDE DEF Names, each
  <2> QED
    BY <2>1, SumEmpty
<1>4. ASSUME NEW s \in SUBSET S, NEW x \in S, s \in F PROVE s \cup {x} \in F
  <2>1. CASE x \in s
    <3>1. s \cup {x} = s
      BY <2>1
    <3> QED
      BY <1>4, <3>1
  <2>2. CASE x \notin s
    <3> DEFINE p == <<a[x], StampBytes>>
    <3>1. Names(s \cup {x}) = Names(s) \cup {p}
      OBVIOUS
    <3>2. p \notin Names(s)
      BY <2>2 DEF Stamps
    <3>3. p \in Pairs /\ ByteOf[p] = StampBytes /\ ByteOf[p] \in Nat
      <4>1. a[x] \in Nat
        BY DEF Stamps, Shape
      <4>2. p \in Pairs
        BY <1>1, <4>1 DEF Pairs
      <4> QED
        BY <1>1, <4>2 DEF ByteOf
    <3>4. each[x] = StampBytes /\ each[x] \in Nat
      BY <1>1
    <3>5. /\ Weights(ByteOf, Names(s)) /\ Weights(each, s)
          /\ SumFunctionOnSet(ByteOf, Names(s)) = SumFunctionOnSet(each, s)
      BY <1>4
    <3> HIDE DEF Names, p, each
    <3>6. /\ Weights(ByteOf, Names(s) \cup {p})
          /\ SumFunctionOnSet(ByteOf, Names(s) \cup {p}) = ByteOf[p] + SumFunctionOnSet(ByteOf, Names(s))
      BY <3>2, <3>3, <3>5, SumAdd
    <3>7. /\ Weights(each, s \cup {x})
          /\ SumFunctionOnSet(each, s \cup {x}) = each[x] + SumFunctionOnSet(each, s)
      BY <2>2, <3>4, <3>5, SumAdd
    <3> QED
      BY <3>1, <3>3, <3>4, <3>5, <3>6, <3>7
  <2> QED
    BY <2>1, <2>2
<1> HIDE DEF F
<1>5. S \in F
  BY <1>2, <1>3, <1>4, SubsetInduction
<1>6. Joined(Full(a), S) = fixed \cup Names(S)
  <2>1. \A e \in S : Full(a)[e] = content[e] \cup {<<a[e], StampBytes>>}
    BY <1>1 DEF Full
  <2>2. \A r : r \in Joined(Full(a), S) <=> \E e \in S : r \in content[e] \/ r = <<a[e], StampBytes>>
    BY <2>1 DEF Joined
  <2> QED
    BY <2>2
<1>7. fixed \cap Names(S) = {}
  BY <1>1 DEF Stamps
<1>8. Weights(ByteOf, Joined(Full(a), S)) /\ fixed \in SUBSET Joined(Full(a), S)
  BY <1>6, JoinedIsListing
<1>9. Weights(ByteOf, fixed)
  BY <1>8, SumSubset
<1>10. /\ Weights(ByteOf, Names(S)) /\ Weights(each, S)
       /\ SumFunctionOnSet(ByteOf, Names(S)) = SumFunctionOnSet(each, S)
  BY <1>5 DEF F
<1> HIDE DEF fixed, Names, each
<1>11. SumFunctionOnSet(ByteOf, fixed \cup Names(S))
         = SumFunctionOnSet(ByteOf, fixed) + SumFunctionOnSet(ByteOf, Names(S))
  BY <1>7, <1>9, <1>10, SumDisjoint
<1>12. SumFunctionOnSet(ByteOf, Joined(Full(a), S))
         = SumFunctionOnSet(ByteOf, fixed) + SumFunctionOnSet(each, S)
  BY <1>6, <1>10, <1>11
<1> QED
  BY <1>9, <1>10, <1>12 DEF fixed, each

\* What is allocated is what the listings of S, with whatever names for the
\* access stamps, have in all.
LEMMA AllocatedAnyNames ==
    ASSUME Shape, Contents, Stamps(access), NEW a, Stamps(a), NEW S \in SUBSET present
    PROVE  /\ Allocated(S) = SumFunctionOnSet(ByteOf, Joined(Full(a), S))
           /\ Allocated(S) \in Nat
<1>1. UNION {Walk(e) : e \in S} = Joined(Full(access), S)
  BY DEF Shape, Walk, Full, Joined
<1>2. Joined(Full(access), S) \in SUBSET Pairs /\ IsFiniteSet(Joined(Full(access), S))
  BY JoinedIsListing
<1>3. /\ Allocated(S) = SumFunctionOnSet(ByteOf, Joined(Full(access), S))
      /\ Allocated(S) \in Nat
  BY <1>1, <1>2, BytesAddUp DEF Allocated
<1>4. SumFunctionOnSet(ByteOf, Joined(Full(access), S)) = SumFunctionOnSet(ByteOf, Joined(Full(a), S))
  BY StampsAddUp
<1> QED
  BY <1>3, <1>4

\* Fewer entries occupy no more.
LEMMA AllocatedMonotone ==
    ASSUME AccountingInv, NEW R \in SUBSET present, NEW S \in SUBSET R
    PROVE  Allocated(S) <= Allocated(R) /\ Allocated(S) \in Nat /\ Allocated(R) \in Nat
<1> USE DEF AccountingInv
<1>1. Joined(Full(access), S) \in SUBSET Joined(Full(access), R)
  BY DEF Joined
<1>2. Weights(ByteOf, Joined(Full(access), R))
  BY JoinedIsListing
<1>3. S \in SUBSET present
  OBVIOUS
<1>4. /\ Allocated(S) = SumFunctionOnSet(ByteOf, Joined(Full(access), S))
      /\ Allocated(S) \in Nat
  BY <1>3, AllocatedAnyNames
<1>5. /\ Allocated(R) = SumFunctionOnSet(ByteOf, Joined(Full(access), R))
      /\ Allocated(R) \in Nat
  BY AllocatedAnyNames
<1>6. SumFunctionOnSet(ByteOf, Joined(Full(access), S)) <= SumFunctionOnSet(ByteOf, Joined(Full(access), R))
  BY <1>1, <1>2, SumSubset
<1> QED
  BY <1>4, <1>5, <1>6

\* assign_unique_entry_physical_bytes charges the entries of S, in whichever
\* order, for no more than they occupy: a listing may name a stale stamp that some
\* other listing has too, but each entry has a stamp of its own.
LEMMA ChargedAtMost ==
    ASSUME AccountingInv, NEW T \in SUBSET present, NEW order \in SetToSeqs(T), NEW S \in SUBSET T
    PROVE  ChargedBytes(order, S) <= Allocated(S) /\ ChargedBytes(order, S) \in Nat
<1> USE DEF AccountingInv
<1>1. PICK c : StampNames(c) /\ \A e \in present : Records(e) = Full(c)[e]
  BY DEF ListingShape
<1> DEFINE A == Full(access)
           rank == Position(order)
           v == [e \in S |-> Own(order, S, e)]
           w == [e \in S |-> SumFunctionOnSet(ByteOf, A[e] \ Earlier(A, S, rank, e))]
<1>2. T \in SUBSET Entries /\ S \in SUBSET present /\ S \in SUBSET Entries /\ StampBytes \in Nat
  BY AccountingAssumption DEF Shape
<1>3. IsFiniteSet(T) /\ IsFiniteSet(S)
  BY <1>2, EntriesFinite
<1>4. Ranks(rank, S)
  BY <1>3, PositionsRank DEF Position
<1>5. Parts(ByteOf, A, S)
  BY <1>2, <1>3, FullIsListing DEF Parts
<1>6. ASSUME NEW e \in S PROVE v[e] \in Nat /\ v[e] <= w[e]
  <2> DEFINE before == {f \in S : rank[f] < rank[e]}
             own == {r \in Records(e) : r[1] \notin Seen(order, S, e)}
             fixed == {r \in content[e] : r[1] \notin Seen(order, S, e)}
             p == <<c[e], StampBytes>>
             q == <<access[e], StampBytes>>
             rest == A[e] \ Earlier(A, S, rank, e)
  <2>1. e \in present /\ e \in Entries /\ c[e] \in Nat /\ access[e] \in Nat
    BY <1>1, <1>2 DEF StampNames, Shape
  <2>2. Records(e) = content[e] \cup {p} /\ A[e] = content[e] \cup {q}
    BY <1>1, <2>1 DEF Full
  <2>3. /\ content[e] \in SUBSET Pairs /\ IsFiniteSet(content[e]) /\ p \in Pairs /\ q \in Pairs
        /\ ByteOf[p] = StampBytes /\ ByteOf[q] = StampBytes
    BY <1>2, <2>1 DEF Contents, Pairs, ByteOf
  <2>4. q \notin fixed /\ p \notin fixed
    BY <1>1, <2>1 DEF Stamps, StampNames
  <2>5. ASSUME NEW f \in before PROVE /\ f \in present /\ f \in Entries /\ f # e
                                      /\ A[f] = content[f] \cup {<<access[f], StampBytes>>}
                                      /\ \A r \in content[f] : r[1] \in Seen(order, S, e)
    <3>1. f \in S /\ f \in present /\ f \in Entries /\ f # e
      BY <1>2, <1>4 DEF Ranks
    <3>2. A[f] = content[f] \cup {<<access[f], StampBytes>>} /\ content[f] \subseteq Records(f)
      BY <1>1, <3>1 DEF Full
    <3>3. Seen(order, S, e) = {r[1] : r \in UNION {Records(g) : g \in before}}
      BY DEF Seen
    <3> QED
      BY <3>1, <3>2, <3>3
  <2>6. ASSUME NEW r \in fixed \cup {q}, r \in Earlier(A, S, rank, e) PROVE FALSE
    <3>1. PICK f \in before : r \in A[f]
      BY <2>6 DEF Earlier, Joined
    <3>2. /\ f \in present /\ f \in Entries /\ f # e /\ (r \in content[f] \/ r = <<access[f], StampBytes>>)
          /\ \A x \in content[f] : x[1] \in Seen(order, S, e)
      BY <2>5, <3>1
    <3>3. CASE r \in fixed
      <4>1. r \in content[e] /\ r \notin content[f]
        BY <3>2, <3>3
      <4>2. r[1] = access[f]
        BY <3>2, <4>1
      <4> QED
        BY <2>1, <3>2, <4>1, <4>2 DEF Stamps
    <3>4. CASE r = q
      <4>1. r[1] = access[e]
        BY <3>4
      <4>2. r \notin content[f]
        BY <2>1, <3>2, <4>1 DEF Stamps
      <4>3. access[e] = access[f]
        BY <3>2, <3>4, <4>2
      <4> QED
        BY <2>1, <3>2, <4>3 DEF Stamps
    <3> QED
      BY <3>3, <3>4
  <2>7. fixed \cup {q} \in SUBSET rest
    BY <2>2, <2>6
  <2>8. own \in SUBSET (fixed \cup {p})
    BY <2>2
  <2>9. Weights(ByteOf, A[e]) /\ rest \in SUBSET A[e]
    BY <1>5 DEF Parts
  <2>10. v[e] = BytesOf(own) /\ w[e] = SumFunctionOnSet(ByteOf, rest)
    BY DEF Own
  <2>11. own \in SUBSET Pairs /\ fixed \in SUBSET Pairs /\ fixed \in SUBSET content[e]
    BY <2>3, <2>8
  <2> HIDE DEF own, fixed, p, q, rest, A, v, w
  <2>12. IsFiniteSet(fixed)
    BY <2>3, <2>11, FS_Subset
  <2>13. Weights(ByteOf, fixed)
    BY <2>11, <2>12, BytesAddUp
  <2>14. /\ Weights(ByteOf, fixed \cup {p})
         /\ SumFunctionOnSet(ByteOf, fixed \cup {p}) = StampBytes + SumFunctionOnSet(ByteOf, fixed)
    BY <1>2, <2>3, <2>4, <2>13, SumAdd
  <2>15. /\ Weights(ByteOf, fixed \cup {q})
         /\ SumFunctionOnSet(ByteOf, fixed \cup {q}) = StampBytes + SumFunctionOnSet(ByteOf, fixed)
    BY <1>2, <2>3, <2>4, <2>13, SumAdd
  <2>16. Weights(ByteOf, own) /\ SumFunctionOnSet(ByteOf, own) <= SumFunctionOnSet(ByteOf, fixed \cup {p})
    BY <2>8, <2>14, SumSubset
  <2>17. Weights(ByteOf, rest)
    BY <2>9, SumSubset
  <2>18. SumFunctionOnSet(ByteOf, fixed \cup {q}) <= SumFunctionOnSet(ByteOf, rest)
    BY <2>7, <2>17, SumSubset
  <2>19. BytesOf(own) = SumFunctionOnSet(ByteOf, own) /\ BytesOf(own) \in Nat
    BY <2>11, <2>16, BytesAddUp DEF Weights
  <2>20. SumFunctionOnSet(ByteOf, rest) \in Nat /\ SumFunctionOnSet(ByteOf, fixed) \in Nat
    BY <2>13, <2>17, SumOfFinite
  <2> QED
    BY <1>2, <2>10, <2>14, <2>15, <2>16, <2>18, <2>19, <2>20
<1>7. ChargesFirst(w, ByteOf, A, S, rank)
  BY DEF ChargesFirst
<1>8. ChargedBytes(order, S) = SumFunctionOnSet(v, S)
  BY DEF ChargedBytes
<1>9. Allocated(S) = SumFunctionOnSet(ByteOf, Joined(A, S)) /\ Allocated(S) \in Nat
  BY <1>2, AllocatedAnyNames
<1> HIDE DEF v, w, A, rank
<1>10. Weights(w, S) /\ SumFunctionOnSet(w, S) = SumFunctionOnSet(ByteOf, Joined(A, S))
  BY <1>4, <1>5, <1>7, ChargedOnce
<1>11. Weights(v, S)
  BY <1>3, <1>6 DEF Weights
<1>12. SumFunctionOnSet(v, S) <= SumFunctionOnSet(w, S) /\ SumFunctionOnSet(v, S) \in Nat
  BY <1>6, <1>10, <1>11, SumPointwise, SumOfFinite
<1> QED
  BY <1>8, <1>9, <1>10, <1>12

\* assign_unique_entry_physical_bytes charges the entries of S, in whichever
\* order, for exactly what they occupy if the listings agree.
LEMMA ChargedIsAllocated ==
    ASSUME ExactInv, NEW T \in SUBSET present, NEW order \in SetToSeqs(T), NEW S \in SUBSET T
    PROVE  ChargedBytes(order, S) = Allocated(S) /\ ChargedBytes(order, S) \in Nat
<1> USE DEF ExactInv, AccountingInv
<1>1. PICK c : Stamps(c) /\ \A e \in present : Records(e) = Full(c)[e]
  BY DEF Listings
<1> DEFINE A == Full(c)
           rank == Position(order)
           v == [e \in S |-> Own(order, S, e)]
<1>2. T \in SUBSET Entries /\ S \in SUBSET present
  BY DEF Shape
<1>3. IsFiniteSet(T) /\ IsFiniteSet(S)
  BY <1>2, EntriesFinite
<1>4. Ranks(rank, S)
  BY <1>3, PositionsRank DEF Position
<1>5. Parts(ByteOf, A, S)
  BY <1>1, <1>2, <1>3, FullIsListing DEF Parts
<1>6. ASSUME NEW e \in S PROVE v[e] = SumFunctionOnSet(ByteOf, A[e] \ Earlier(A, S, rank, e))
  <2> DEFINE before == {f \in S : rank[f] < rank[e]}
             own == {r \in Records(e) : r[1] \notin Seen(order, S, e)}
  <2>1. Records(e) = A[e] /\ \A f \in before : Records(f) = A[f]
    BY <1>1, <1>2
  <2>2. Seen(order, S, e) = {r[1] : r \in UNION {Records(f) : f \in before}}
    BY DEF Seen
  <2>3. ASSUME NEW r \in A[e] PROVE r[1] \in Seen(order, S, e) <=> r \in Earlier(A, S, rank, e)
    <3>1. ASSUME r[1] \in Seen(order, S, e) PROVE r \in Earlier(A, S, rank, e)
      <4>1. PICK f \in before : \E s \in Records(f) : s[1] = r[1]
        BY <2>2, <3>1
      <4>2. PICK s \in Records(f) : s[1] = r[1]
        BY <4>1
      <4>3. s \in A[f] /\ e \in present /\ f \in present
        BY <1>2, <2>1, <4>2
      <4>4. r = s
        BY <1>1, <2>3, <4>2, <4>3, InodeIsRecord
      <4> QED
        BY <4>3, <4>4 DEF Earlier, Joined
    <3>2. ASSUME r \in Earlier(A, S, rank, e) PROVE r[1] \in Seen(order, S, e)
      <4>1. PICK f \in before : r \in A[f]
        BY <3>2 DEF Earlier, Joined
      <4>2. r \in Records(f)
        BY <2>1, <4>1
      <4> QED
        BY <2>2, <4>2
    <3> QED
      BY <3>1, <3>2
  <2>4. own = A[e] \ Earlier(A, S, rank, e)
    BY <2>1, <2>3
  <2>5. A[e] \in SUBSET Pairs /\ IsFiniteSet(A[e])
    BY <1>1, <1>2, FullIsListing
  <2>6. own \in SUBSET A[e] /\ own \in SUBSET Pairs
    BY <2>4, <2>5
  <2>7. IsFiniteSet(own)
    BY <2>5, <2>6, FS_Subset
  <2>8. BytesOf(own) = SumFunctionOnSet(ByteOf, own)
    BY <2>6, <2>7, BytesAddUp
  <2>9. v[e] = BytesOf(own)
    BY DEF Own
  <2> QED
    BY <2>4, <2>8, <2>9
<1>7. ChargesFirst(v, ByteOf, A, S, rank)
  BY <1>6 DEF ChargesFirst
<1>8. ChargedBytes(order, S) = SumFunctionOnSet(v, S)
  BY DEF ChargedBytes
<1>9. Allocated(S) = SumFunctionOnSet(ByteOf, Joined(A, S)) /\ Allocated(S) \in Nat
  BY <1>1, <1>2, AllocatedAnyNames
<1> HIDE DEF v, A, rank
<1>10. SumFunctionOnSet(v, S) = SumFunctionOnSet(ByteOf, Joined(A, S))
  BY <1>4, <1>5, <1>7, ChargedOnce
<1> QED
  BY <1>8, <1>9, <1>10

-----------------------------------------------------------------------------
(* Listings in order. *)

\* Entries can be listed by identity, as collect_entries does.
LEMMA IdentityOrders ==
    ASSUME NEW S \in SUBSET Entries
    PROVE  IdentityOrder(S) \in SetToSeqs(S)
<1> DEFINE R == {p \in S \X S : p[1] < p[2]}
<1>1. IsFiniteSet(S)
  BY EntriesFinite
<1>2. \A e \in S : e \in Nat
  BY AccountingAssumption
<1>3. \A x, y \in S : <<x, y>> \in R <=> x < y
  OBVIOUS
<1> HIDE DEF R
<1>4. StrictOrder(R, S)
  BY <1>2, <1>3 DEF StrictOrder
<1>5. PICK s \in SetToSeqs(S) : \A i, j \in DOMAIN s : i < j => <<s[i], s[j]>> \in R
  BY <1>1, <1>4, SortedSeqExists
<1>6. \A i \in DOMAIN s : s[i] \in S
  BY <1>1, SeqEnumerates
<1>7. \A i, j \in DOMAIN s : i < j => s[i] < s[j]
  BY <1>3, <1>5, <1>6
<1> QED
  BY <1>7 DEF IdentityOrder

\* They can be listed by last use too, which is what the sweeps do.
LEMMA UseOrders ==
    ASSUME Shape, NEW S \in SUBSET Entries
    PROVE  /\ Oldest(S) \in SetToSeqs(S)
           /\ \A i, j \in DOMAIN Oldest(S) : i < j => Older(Oldest(S)[i], Oldest(S)[j])
<1> DEFINE R == {p \in S \X S : Older(p[1], p[2])}
<1>1. IsFiniteSet(S)
  BY EntriesFinite
<1>2. \A e \in S : e \in Nat /\ lastUsed[e] \in Nat
  BY AccountingAssumption DEF Shape
<1>3. \A x, y \in S : <<x, y>> \in R <=> Older(x, y)
  OBVIOUS
<1> HIDE DEF R
<1>4. StrictOrder(R, S)
  <2>1. \A x, y \in S : x # y => Older(x, y) \/ Older(y, x)
    BY <1>2 DEF Older
  <2>2. \A x \in S : ~Older(x, x)
    BY <1>2 DEF Older
  <2>3. ASSUME NEW x \in S, NEW y \in S, NEW z \in S, Older(x, y), Older(y, z) PROVE Older(x, z)
    <3>1. /\ x \in Nat /\ y \in Nat /\ z \in Nat
          /\ lastUsed[x] \in Nat /\ lastUsed[y] \in Nat /\ lastUsed[z] \in Nat
      BY <1>2
    <3> QED
      BY <2>3, <3>1 DEF Older
  <2> QED
    BY <1>3, <2>1, <2>2, <2>3 DEF StrictOrder
<1>5. PICK s \in SetToSeqs(S) : \A i, j \in DOMAIN s : i < j => <<s[i], s[j]>> \in R
  BY <1>1, <1>4, SortedSeqExists
<1>6. \A i \in DOMAIN s : s[i] \in S
  BY <1>1, SeqEnumerates
<1>7. \A i, j \in DOMAIN s : i < j => Older(s[i], s[j])
  BY <1>3, <1>5, <1>6
<1> QED
  BY <1>7 DEF Oldest

\* What collect_entries measures of S, and one removal measures anew, are totals.
LEMMA CollectionIsTotal ==
    ASSUME AccountingInv, NEW S \in SUBSET present
    PROVE  Collection(S).kept = S /\ Collection(S) \in [kept : SUBSET S, bytes : Nat]
<1>1. S \in SUBSET Entries
  BY DEF AccountingInv, Shape
<1>2. IdentityOrder(S) \in SetToSeqs(S)
  BY <1>1, IdentityOrders
<1>3. ChargedBytes(IdentityOrder(S), S) \in Nat
  BY <1>2, ChargedAtMost
<1> QED
  BY <1>3 DEF Collection

LEMMA RemovedIsTotal ==
    ASSUME AccountingInv, NEW S \in SUBSET present, NEW order \in SetToSeqs(S),
           NEW acc \in [kept : SUBSET S, bytes : Nat], NEW e
    PROVE  /\ Removed(order, acc, e).kept = acc.kept \ {e}
           /\ Removed(order, acc, e) \in [kept : SUBSET S, bytes : Nat]
<1>1. acc.kept \ {e} \in SUBSET S
  OBVIOUS
<1>2. ChargedBytes(order, acc.kept \ {e}) \in Nat
  BY <1>1, ChargedAtMost
<1> QED
  BY <1>1, <1>2 DEF Removed

\* What collect_entries measures of S, if the listings agree.
LEMMA CollectionIsExact ==
    ASSUME ExactInv, NEW S \in SUBSET present
    PROVE  Collection(S).kept = S /\ Collection(S).bytes = Allocated(S) /\ Allocated(S) \in Nat
           /\ Collection(S) \in [kept : SUBSET S, bytes : Nat]
<1>1. S \in SUBSET Entries
  BY DEF ExactInv, AccountingInv, Shape
<1>2. IdentityOrder(S) \in SetToSeqs(S)
  BY <1>1, IdentityOrders
<1>3. ChargedBytes(IdentityOrder(S), S) = Allocated(S) /\ Allocated(S) \in Nat
  BY <1>2, ChargedIsAllocated
<1> QED
  BY <1>3 DEF Collection

\* One removal leaves what the entries that are left occupy.
LEMMA RemovedIsExact ==
    ASSUME ExactInv, NEW S \in SUBSET present, NEW order \in SetToSeqs(S),
           NEW acc \in [kept : SUBSET S, bytes : Nat], NEW e
    PROVE  /\ Removed(order, acc, e).kept = acc.kept \ {e}
           /\ Removed(order, acc, e).bytes = Allocated(acc.kept \ {e})
           /\ Removed(order, acc, e) \in [kept : SUBSET S, bytes : Nat]
<1>1. acc.kept \ {e} \in SUBSET S
  OBVIOUS
<1>2. /\ ChargedBytes(order, acc.kept \ {e}) = Allocated(acc.kept \ {e})
      /\ ChargedBytes(order, acc.kept \ {e}) \in Nat
  BY <1>1, ChargedIsAllocated
<1> QED
  BY <1>1, <1>2 DEF Removed

-----------------------------------------------------------------------------
(* Sweeps, one visit after the other. *)

\* prune_to_limits visits the entries in the order of their last use.
LEMMA ToLimitsUnfolds ==
    ASSUME AccountingInv, NEW S \in SUBSET present, NEW pending \in Nat
    PROVE  LET n == Cardinality(S) IN
           \E h : /\ h[0] = Collection(S) /\ h[n] = ToLimits(S, pending)
                  /\ \A m \in 0 .. (n - 1) : h[m + 1] = LimitsVisit(S, pending, h[m], Oldest(S)[m + 1])
<1> DEFINE n == Cardinality(S)
           D == 1 .. n
           V == [kept : SUBSET S, bytes : Nat]
           order == Oldest(S)
           step == [x \in D \X V |-> LimitsVisit(S, pending, x[2], order[x[1]])]
           Body(g, s) == IF s = {} THEN Collection(S)
                         ELSE LimitsVisit(S, pending, g[s \ {Max(s)}], order[Max(s)])
           iter == CHOOSE g : g = [s \in SUBSET D |-> Body(g, s)]
<1>1. S \in SUBSET Entries /\ Shape
  BY DEF AccountingInv, Shape
<1>2. order \in SetToSeqs(S) /\ IsFiniteSet(S)
  BY <1>1, UseOrders, EntriesFinite
<1>3. n \in Nat /\ DOMAIN order = D /\ order \in [D -> S]
  BY <1>2, SeqEnumerates
<1> HIDE DEF order, n
<1>4. \A acc \in V : \A e : LimitsVisit(S, pending, acc, e) \in V
  <2> SUFFICES ASSUME NEW acc \in V, NEW e PROVE LimitsVisit(S, pending, acc, e) \in V
    OBVIOUS
  <2>1. Removed(order, acc, e) \in V
    BY <1>2, RemovedIsTotal
  <2> QED
    BY <2>1 DEF LimitsVisit, order
<1>5. step \in [D \X V -> V]
  BY <1>4
<1>6. PICK g \in [SUBSET D -> V] : LeftFold(g, n, Collection(S), step)
  <2>1. Collection(S) \in V
    BY CollectionIsTotal
  <2> HIDE DEF step, V
  <2> QED
    BY <1>3, <1>5, <2>1, FoldLeftExists
<1>7. ASSUME NEW s \in SUBSET D PROVE g[s] = Body(g, s)
  <2>1. CASE s = {}
    BY <1>6, <2>1 DEF LeftFold
  <2>2. CASE s # {}
    <3>1. Max(s) \in D
      BY <1>6, <2>2 DEF LeftFold
    <3>2. s \ {Max(s)} \in SUBSET D
      OBVIOUS
    <3>3. g[s \ {Max(s)}] \in V
      BY <3>2
    <3>4. g[s] = step[<<Max(s), g[s \ {Max(s)}]>>]
      BY <1>6, <2>2 DEF LeftFold
    <3> QED
      BY <2>2, <3>1, <3>3, <3>4
  <2> QED
    BY <2>1, <2>2
<1>8. g = [s \in SUBSET D |-> Body(g, s)]
  BY <1>6, <1>7
<1>9. iter = [s \in SUBSET D |-> Body(iter, s)]
  BY <1>8
<1>10. ToLimits(S, pending) = iter[D]
  BY <1>3 DEF ToLimits, FoldLeft, MapThenFoldSet, order
<1> HIDE DEF iter
<1> DEFINE h == [m \in 0 .. n |-> iter[1 .. m]]
<1>11. h[0] = Collection(S) /\ h[n] = ToLimits(S, pending)
  <2>1. 1 .. 0 = {} /\ 0 \in 0 .. n /\ n \in 0 .. n
    BY <1>3
  <2> QED
    BY <1>9, <1>10, <2>1
<1>12. ASSUME NEW m \in 0 .. (n - 1) PROVE h[m + 1] = LimitsVisit(S, pending, h[m], order[m + 1])
  <2>1. m \in Nat /\ m \in 0 .. n /\ m + 1 \in 0 .. n /\ 1 .. (m + 1) \in SUBSET D
    BY <1>3
  <2>2. /\ 1 .. (m + 1) # {} /\ Max(1 .. (m + 1)) = m + 1
        /\ (1 .. (m + 1)) \ {m + 1} = 1 .. m
    BY <2>1, PrefixEnds
  <2>3. iter[1 .. (m + 1)] = LimitsVisit(S, pending, iter[1 .. m], order[m + 1])
    BY <1>9, <2>1, <2>2
  <2> QED
    BY <2>1, <2>3
<1> HIDE DEF h
<1> QED
  BY <1>11, <1>12 DEF order, n

\* reclaim_superseded_release_entries visits the entries by identity.
LEMMA WithoutSupersededUnfolds ==
    ASSUME AccountingInv, NEW S \in SUBSET present
    PROVE  LET n == Cardinality(S) IN
           \E h : /\ h[0] = Collection(S) /\ h[n] = WithoutSuperseded(S)
                  /\ \A m \in 0 .. (n - 1) : h[m + 1] = SupersededVisit(S, h[m], IdentityOrder(S)[m + 1])
<1> DEFINE n == Cardinality(S)
           D == 1 .. n
           V == [kept : SUBSET S, bytes : Nat]
           order == IdentityOrder(S)
           step == [x \in D \X V |-> SupersededVisit(S, x[2], order[x[1]])]
           Body(g, s) == IF s = {} THEN Collection(S)
                         ELSE SupersededVisit(S, g[s \ {Max(s)}], order[Max(s)])
           iter == CHOOSE g : g = [s \in SUBSET D |-> Body(g, s)]
<1>1. S \in SUBSET Entries
  BY DEF AccountingInv, Shape
<1>2. order \in SetToSeqs(S) /\ IsFiniteSet(S)
  BY <1>1, IdentityOrders, EntriesFinite
<1>3. n \in Nat /\ DOMAIN order = D /\ order \in [D -> S]
  BY <1>2, SeqEnumerates
<1> HIDE DEF order, n
<1>4. \A acc \in V : \A e : SupersededVisit(S, acc, e) \in V
  <2> SUFFICES ASSUME NEW acc \in V, NEW e PROVE SupersededVisit(S, acc, e) \in V
    OBVIOUS
  <2>1. Removed(order, acc, e) \in V
    BY <1>2, RemovedIsTotal
  <2> QED
    BY <2>1 DEF SupersededVisit, order
<1>5. step \in [D \X V -> V]
  BY <1>4
<1>6. PICK g \in [SUBSET D -> V] : LeftFold(g, n, Collection(S), step)
  <2>1. Collection(S) \in V
    BY CollectionIsTotal
  <2> HIDE DEF step, V
  <2> QED
    BY <1>3, <1>5, <2>1, FoldLeftExists
<1>7. ASSUME NEW s \in SUBSET D PROVE g[s] = Body(g, s)
  <2>1. CASE s = {}
    BY <1>6, <2>1 DEF LeftFold
  <2>2. CASE s # {}
    <3>1. Max(s) \in D
      BY <1>6, <2>2 DEF LeftFold
    <3>2. s \ {Max(s)} \in SUBSET D
      OBVIOUS
    <3>3. g[s \ {Max(s)}] \in V
      BY <3>2
    <3>4. g[s] = step[<<Max(s), g[s \ {Max(s)}]>>]
      BY <1>6, <2>2 DEF LeftFold
    <3> QED
      BY <2>2, <3>1, <3>3, <3>4
  <2> QED
    BY <2>1, <2>2
<1>8. g = [s \in SUBSET D |-> Body(g, s)]
  BY <1>6, <1>7
<1>9. iter = [s \in SUBSET D |-> Body(iter, s)]
  BY <1>8
<1>10. WithoutSuperseded(S) = iter[D]
  BY <1>3 DEF WithoutSuperseded, FoldLeft, MapThenFoldSet, order
<1> HIDE DEF iter
<1> DEFINE h == [m \in 0 .. n |-> iter[1 .. m]]
<1>11. h[0] = Collection(S) /\ h[n] = WithoutSuperseded(S)
  <2>1. 1 .. 0 = {} /\ 0 \in 0 .. n /\ n \in 0 .. n
    BY <1>3
  <2> QED
    BY <1>9, <1>10, <2>1
<1>12. ASSUME NEW m \in 0 .. (n - 1) PROVE h[m + 1] = SupersededVisit(S, h[m], order[m + 1])
  <2>1. m \in Nat /\ m \in 0 .. n /\ m + 1 \in 0 .. n /\ 1 .. (m + 1) \in SUBSET D
    BY <1>3
  <2>2. /\ 1 .. (m + 1) # {} /\ Max(1 .. (m + 1)) = m + 1
        /\ (1 .. (m + 1)) \ {m + 1} = 1 .. m
    BY <2>1, PrefixEnds
  <2>3. iter[1 .. (m + 1)] = SupersededVisit(S, iter[1 .. m], order[m + 1])
    BY <1>9, <2>1, <2>2
  <2> QED
    BY <2>1, <2>3
<1> HIDE DEF h
<1> QED
  BY <1>11, <1>12 DEF order, n

-----------------------------------------------------------------------------
(* What the sweeps leave. *)

\* The entries of S when the sweep comes to e, if it has removed all it could.
Late(S, e) == S \ {f \in S : Older(f, e) /\ Unused(f)}

\* The entries of S leave room for what is pending.
Under(S, pending) == Allocated(S) + pending <= PhysicalLimit

\* prune_to_limits removes idle entries, oldest first, and no more than it must:
\* it counts what is left exactly, it ends within the limit or with no idle entry,
\* and it removes an entry just if removing every older idle one is not enough.
LEMMA LimitsOutcome ==
    ASSUME ExactInv, NEW S \in SUBSET present, NEW pending \in Nat
    PROVE  LET t == ToLimits(S, pending) IN
           /\ t.kept \in SUBSET S /\ t.bytes = Allocated(t.kept)
           /\ \A e \in S \ t.kept : Unused(e) /\ ~Under(Late(S, e), pending)
           /\ Under(t.kept, pending) \/ \A e \in t.kept : ~Unused(e)
           /\ \A e \in t.kept : Unused(e) => Under(t.kept, pending) /\ Late(S, e) \subseteq t.kept
<1> DEFINE n == Cardinality(S)
           order == Oldest(S)
           Gone(k) == {order[j] : j \in {j \in 1 .. k : Unused(order[j])}}
           V == [kept : SUBSET S, bytes : Nat]
           From(h, m, k) ==
              /\ h[m] \in V /\ h[m].kept = S \ Gone(k) /\ h[m].bytes = Allocated(S \ Gone(k))
              /\ k = m \/ Under(S \ Gone(k), pending)
              /\ \A j \in 1 .. k : Unused(order[j]) => ~Under(S \ Gone(j - 1), pending)
<1>1. S \in SUBSET Entries /\ Shape
  BY DEF ExactInv, AccountingInv, Shape
<1>2. /\ order \in SetToSeqs(S) /\ IsFiniteSet(S)
      /\ \A i, j \in DOMAIN order : i < j => Older(order[i], order[j])
  BY <1>1, UseOrders, EntriesFinite
<1>3. /\ n \in Nat /\ DOMAIN order = 1 .. n /\ order \in [1 .. n -> S]
      /\ \A e \in S : \E i \in 1 .. n : order[i] = e
      /\ \A i, j \in 1 .. n : order[i] = order[j] => i = j
  BY <1>2, SeqEnumerates
<1>4. PICK h : /\ h[0] = Collection(S) /\ h[n] = ToLimits(S, pending)
               /\ \A m \in 0 .. (n - 1) : h[m + 1] = LimitsVisit(S, pending, h[m], order[m + 1])
  BY ToLimitsUnfolds DEF ExactInv
<1> HIDE DEF n, order
<1>5. ASSUME NEW k \in Nat PROVE S \ Gone(k) \in SUBSET S /\ Allocated(S \ Gone(k)) \in Nat
  <2>1. S \ Gone(k) \in SUBSET S
    OBVIOUS
  <2> HIDE DEF Gone
  <2> QED
    BY <2>1, AllocatedMonotone DEF ExactInv
<1> DEFINE T == {m \in Nat : m <= n => \E k \in 0 .. m : From(h, m, k)}
<1>6. 0 \in T
  <2>1. Gone(0) = {}
    OBVIOUS
  <2>2. S \ Gone(0) = S
    BY <2>1
  <2>3. h[0] \in V /\ h[0].kept = S /\ h[0].bytes = Allocated(S)
    BY <1>4, CollectionIsExact
  <2> HIDE DEF Gone
  <2>4. From(h, 0, 0)
    BY <2>2, <2>3
  <2>5. 0 \in 0 .. 0 /\ 0 \in Nat
    OBVIOUS
  <2> HIDE DEF From
  <2> QED
    BY <2>4, <2>5
<1>7. ASSUME NEW m \in T PROVE m + 1 \in T
  <2> HIDE DEF From
  <2> SUFFICES ASSUME m + 1 <= n PROVE \E k \in 0 .. (m + 1) : From(h, m + 1, k)
    OBVIOUS
  <2>1. m \in Nat /\ m <= n /\ m \in 0 .. (n - 1)
    BY <1>3
  <2>2. PICK k \in 0 .. m : From(h, m, k)
    BY <2>1
  <2> USE DEF From
  <2> DEFINE e == order[m + 1]
             acc == h[m]
  <2>3. k \in Nat /\ k \in 0 .. (m + 1) /\ m + 1 \in 0 .. (m + 1)
    BY <2>1
  <2>4. acc.kept = S \ Gone(k) /\ acc.bytes = Allocated(S \ Gone(k)) /\ acc.bytes \in Nat
    BY <1>5, <2>2, <2>3
  <2>5. h[m + 1] = IF Under(S \ Gone(k), pending) \/ ~Unused(e) THEN acc ELSE Removed(order, acc, e)
    BY <1>4, <2>1, <2>4 DEF LimitsVisit, Under, order
  <2>6. Gone(m + 1) = IF Unused(e) THEN Gone(m) \cup {e} ELSE Gone(m)
    <3>1. \A j : j \in 1 .. (m + 1) <=> j \in 1 .. m \/ j = m + 1
      BY <2>1
    <3> QED
      BY <3>1
  <2>7. \A j \in 1 .. (m + 1) : j \in 1 .. m \/ (j = m + 1 /\ j - 1 = m)
    BY <2>1
  <2> HIDE DEF Gone
  <2>8. CASE Under(S \ Gone(k), pending)
    <3>1. h[m + 1] = acc
      BY <2>5, <2>8
    <3>2. From(h, m + 1, k)
      BY <2>2, <2>8, <3>1
    <3> QED
      BY <2>3, <3>2
  <2>9. CASE ~Under(S \ Gone(k), pending) /\ ~Unused(e)
    <3>1. k = m
      BY <2>2, <2>9
    <3>2. h[m + 1] = acc /\ Gone(m + 1) = Gone(m)
      BY <2>5, <2>6, <2>9
    <3>3. From(h, m + 1, m + 1)
      BY <2>2, <2>7, <2>9, <3>1, <3>2
    <3> QED
      BY <2>3, <3>3
  <2>10. CASE ~Under(S \ Gone(k), pending) /\ Unused(e)
    <3>1. k = m
      BY <2>2, <2>10
    <3>2. h[m + 1] = Removed(order, acc, e) /\ Gone(m + 1) = Gone(m) \cup {e}
      BY <2>5, <2>6, <2>10
    <3>3. S \ Gone(m + 1) = acc.kept \ {e}
      BY <2>4, <3>1, <3>2
    <3>4. acc \in [kept : SUBSET S, bytes : Nat]
      BY <2>2
    <3> HIDE DEF acc, e
    <3>5. /\ Removed(order, acc, e).kept = acc.kept \ {e}
          /\ Removed(order, acc, e).bytes = Allocated(acc.kept \ {e})
          /\ Removed(order, acc, e) \in [kept : SUBSET S, bytes : Nat]
      BY <1>2, <3>4, RemovedIsExact
    <3> USE DEF acc, e
    <3>6. From(h, m + 1, m + 1)
      BY <2>2, <2>7, <2>10, <3>1, <3>2, <3>3, <3>5
    <3> QED
      BY <2>3, <3>6
  <2> QED
    BY <2>8, <2>9, <2>10
<1> HIDE DEF T
<1>8. T = Nat
  <2>1. T \subseteq Nat
    BY DEF T
  <2> QED
    BY <1>6, <1>7, <2>1, NatSetInduction
<1>9. PICK k \in 0 .. n : From(h, n, k)
  <2>1. n \in T /\ n <= n
    BY <1>3, <1>8
  <2> HIDE DEF From
  <2> QED
    BY <2>1 DEF T
<1> DEFINE t == ToLimits(S, pending)
<1>10. k \in Nat /\ k <= n /\ t.kept = S \ Gone(k) /\ t.bytes = Allocated(t.kept)
  BY <1>3, <1>4, <1>9
<1>11. ASSUME NEW e \in S \ t.kept PROVE Unused(e) /\ ~Under(Late(S, e), pending)
  <2>1. PICK j \in 1 .. k : Unused(order[j]) /\ e = order[j]
    BY <1>10
  <2>2. ~Under(S \ Gone(j - 1), pending)
    BY <1>9, <2>1
  <2>3. Gone(j - 1) = {f \in S : Older(f, e) /\ Unused(f)}
    <3>1. ASSUME NEW f \in Gone(j - 1) PROVE f \in S /\ Older(f, e) /\ Unused(f)
      <4>1. PICK i \in 1 .. (j - 1) : Unused(order[i]) /\ f = order[i]
        OBVIOUS
      <4>2. i \in 1 .. n /\ j \in 1 .. n /\ i < j
        BY <1>3, <1>10
      <4> QED
        BY <1>2, <1>3, <2>1, <4>1, <4>2
    <3>2. ASSUME NEW f \in S, Older(f, e), Unused(f) PROVE f \in Gone(j - 1)
      <4>1. PICK i \in 1 .. n : order[i] = f
        BY <1>3
      <4>2. j \in 1 .. n
        BY <1>3, <1>10
      <4>3. ~Older(e, f) /\ e # f
        <5>1. /\ e \in Nat /\ f \in Nat /\ lastUsed[e] \in Nat /\ lastUsed[f] \in Nat
          BY <1>1, AccountingAssumption DEF Shape
        <5> QED
          BY <3>2, <5>1 DEF Older
      <4>4. ~(j < i) /\ j # i
        BY <1>2, <1>3, <2>1, <4>1, <4>2, <4>3
      <4>5. i \in 1 .. (j - 1)
        BY <4>2, <4>4
      <4> QED
        BY <3>2, <4>1, <4>5
    <3> HIDE DEF Gone
    <3> QED
      BY <3>1, <3>2
  <2> QED
    BY <2>1, <2>2, <2>3 DEF Late
<1>12. Under(t.kept, pending) \/ \A e \in t.kept : ~Unused(e)
  <2>1. CASE k = n
    <3>1. ASSUME NEW e \in t.kept PROVE ~Unused(e)
      <4>1. e \in S /\ e \notin Gone(n)
        BY <1>10, <2>1
      <4>2. PICK i \in 1 .. n : order[i] = e
        BY <1>3, <4>1
      <4> QED
        BY <4>1, <4>2
    <3> QED
      BY <3>1
  <2>2. CASE k # n
    BY <1>9, <1>10, <2>2
  <2> QED
    BY <2>1, <2>2
<1>13. ASSUME NEW e \in t.kept, Unused(e) PROVE Under(t.kept, pending) /\ Late(S, e) \subseteq t.kept
  <2>1. Under(t.kept, pending)
    BY <1>12, <1>13
  <2>2. PICK j \in 1 .. n : order[j] = e
    BY <1>3, <1>10
  <2>3. e \notin Gone(k)
    BY <1>10
  <2>4. ~(j <= k)
    BY <1>13, <2>2, <2>3
  <2>5. ASSUME NEW f \in Gone(k) PROVE Older(f, e) /\ Unused(f)
    <3>1. PICK i \in 1 .. k : Unused(order[i]) /\ f = order[i]
      OBVIOUS
    <3>2. i \in 1 .. n /\ i < j
      BY <1>3, <1>10, <2>4
    <3> QED
      BY <1>2, <1>3, <2>2, <3>1, <3>2
  <2> HIDE DEF Gone
  <2> QED
    BY <1>10, <2>1, <2>5 DEF Late
<1> HIDE DEF Gone, t
<1>14. t.kept \in SUBSET S
  BY <1>10
<1> QED
  BY <1>10, <1>11, <1>12, <1>13, <1>14 DEF t

\* reclaim_superseded_release_entries removes just the idle entries of a
\* superseded release, and counts what is left exactly.
LEMMA SupersededOutcome ==
    ASSUME ExactInv, NEW S \in SUBSET present
    PROVE  LET t == WithoutSuperseded(S) IN
           /\ t.kept = {e \in S : e \notin Superseded \/ ~Unused(e)}
           /\ t.bytes = Allocated(t.kept)
<1> DEFINE n == Cardinality(S)
           order == IdentityOrder(S)
           Gone(m) == {order[j] : j \in {j \in 1 .. m : order[j] \in Superseded /\ Unused(order[j])}}
           V == [kept : SUBSET S, bytes : Nat]
<1>1. S \in SUBSET Entries
  BY DEF ExactInv, AccountingInv, Shape
<1>2. order \in SetToSeqs(S) /\ IsFiniteSet(S)
  BY <1>1, IdentityOrders, EntriesFinite
<1>3. /\ n \in Nat /\ order \in [1 .. n -> S]
      /\ \A e \in S : \E i \in 1 .. n : order[i] = e
  BY <1>2, SeqEnumerates
<1>4. PICK h : /\ h[0] = Collection(S) /\ h[n] = WithoutSuperseded(S)
               /\ \A m \in 0 .. (n - 1) : h[m + 1] = SupersededVisit(S, h[m], order[m + 1])
  BY WithoutSupersededUnfolds DEF ExactInv
<1> HIDE DEF n, order
<1> DEFINE Done(m) == h[m] \in V /\ h[m].kept = S \ Gone(m) /\ h[m].bytes = Allocated(h[m].kept)
           T == {m \in Nat : m <= n => Done(m)}
<1>5. 0 \in T
  <2>1. Gone(0) = {}
    OBVIOUS
  <2> HIDE DEF Gone
  <2>2. Done(0)
    BY <1>4, <2>1, CollectionIsExact
  <2> QED
    BY <2>2
<1>6. ASSUME NEW m \in T PROVE m + 1 \in T
  <2> SUFFICES ASSUME m + 1 <= n PROVE Done(m + 1)
    OBVIOUS
  <2>1. m \in Nat /\ m <= n /\ m \in 0 .. (n - 1)
    BY <1>3
  <2>2. Done(m)
    BY <2>1
  <2> DEFINE e == order[m + 1]
             acc == h[m]
  <2>3. h[m + 1] = IF e \notin Superseded \/ ~Unused(e) THEN acc ELSE Removed(order, acc, e)
    BY <1>4, <2>1 DEF SupersededVisit, order
  <2>4. Gone(m + 1) = IF e \in Superseded /\ Unused(e) THEN Gone(m) \cup {e} ELSE Gone(m)
    <3>1. \A j : j \in 1 .. (m + 1) <=> j \in 1 .. m \/ j = m + 1
      BY <2>1
    <3> QED
      BY <3>1
  <2> HIDE DEF Gone
  <2>5. CASE e \in Superseded /\ Unused(e)
    <3>0. acc \in [kept : SUBSET S, bytes : Nat]
      BY <2>2
    <3> HIDE DEF acc, e
    <3>1. /\ Removed(order, acc, e).kept = acc.kept \ {e}
          /\ Removed(order, acc, e).bytes = Allocated(acc.kept \ {e})
          /\ Removed(order, acc, e) \in [kept : SUBSET S, bytes : Nat]
      BY <1>2, <3>0, RemovedIsExact
    <3> USE DEF acc, e
    <3> QED
      BY <2>2, <2>3, <2>4, <2>5, <3>1
  <2>6. CASE ~(e \in Superseded /\ Unused(e))
    BY <2>2, <2>3, <2>4, <2>6
  <2> QED
    BY <2>5, <2>6
<1> HIDE DEF T
<1>7. T = Nat
  <2>1. T \subseteq Nat
    BY DEF T
  <2> QED
    BY <1>5, <1>6, <2>1, NatSetInduction
<1>8. Done(n)
  BY <1>3, <1>7 DEF T
<1>9. S \ Gone(n) = {e \in S : e \notin Superseded \/ ~Unused(e)}
  <2>1. \A e \in S : e \in Gone(n) <=> e \in Superseded /\ Unused(e)
    BY <1>3
  <2> HIDE DEF Gone
  <2> QED
    BY <2>1
<1> QED
  BY <1>4, <1>8, <1>9

\* Whatever the listings say, a sweep takes no entry that has a reader.
LEMMA SweepsSpareReaders ==
    ASSUME AccountingInv, NEW S \in SUBSET present, NEW pending \in Nat
    PROVE  /\ ToLimits(S, pending).kept \in SUBSET S
           /\ \A e \in S \ ToLimits(S, pending).kept : Unused(e)
           /\ WithoutSuperseded(S).kept \in SUBSET S
           /\ \A e \in S \ WithoutSuperseded(S).kept : Unused(e)
<1> DEFINE n == Cardinality(S)
           V == [kept : SUBSET S, bytes : Nat]
           Spares(x) == x \in V /\ \A e \in S \ x.kept : Unused(e)
<1>1. S \in SUBSET Entries /\ Shape
  BY DEF AccountingInv, Shape
<1>2. Oldest(S) \in SetToSeqs(S) /\ IdentityOrder(S) \in SetToSeqs(S) /\ IsFiniteSet(S)
  BY <1>1, UseOrders, IdentityOrders, EntriesFinite
<1>3. n \in Nat
  BY <1>2, FS_CardinalityType
<1> HIDE DEF n
<1>4. Spares(Collection(S))
  BY CollectionIsTotal
<1>5. ASSUME NEW x, Spares(x), NEW e, Unused(e), NEW order \in SetToSeqs(S)
      PROVE  Spares(Removed(order, x, e))
  <2>1. Removed(order, x, e).kept = x.kept \ {e} /\ Removed(order, x, e) \in V
    BY <1>5, RemovedIsTotal
  <2> QED
    BY <1>5, <2>1
<1> HIDE DEF Spares
<1>6. ASSUME NEW h, h[0] = Collection(S),
             \A m \in 0 .. (n - 1) : Spares(h[m]) => Spares(h[m + 1])
      PROVE  Spares(h[n])
  <2> DEFINE T == {m \in Nat : m <= n => Spares(h[m])}
  <2>1. 0 \in T
    BY <1>4, <1>6
  <2>2. ASSUME NEW m \in T PROVE m + 1 \in T
    <3>1. m + 1 <= n => m \in 0 .. (n - 1) /\ m <= n
      BY <1>3
    <3> QED
      BY <1>6, <3>1
  <2> HIDE DEF T
  <2>3. T = Nat
    <3>1. T \subseteq Nat
      BY DEF T
    <3> QED
      BY <2>1, <2>2, <3>1, NatSetInduction
  <2> QED
    BY <1>3, <2>3 DEF T
<1>7. Spares(ToLimits(S, pending))
  <2>1. PICK h : /\ h[0] = Collection(S) /\ h[n] = ToLimits(S, pending)
                 /\ \A m \in 0 .. (n - 1) : h[m + 1] = LimitsVisit(S, pending, h[m], Oldest(S)[m + 1])
    BY ToLimitsUnfolds DEF n
  <2>2. \A m \in 0 .. (n - 1) : Spares(h[m]) => Spares(h[m + 1])
    BY <1>2, <1>5, <2>1 DEF LimitsVisit
  <2> QED
    BY <1>6, <2>1, <2>2
<1>8. Spares(WithoutSuperseded(S))
  <2>1. PICK h : /\ h[0] = Collection(S) /\ h[n] = WithoutSuperseded(S)
                 /\ \A m \in 0 .. (n - 1) : h[m + 1] = SupersededVisit(S, h[m], IdentityOrder(S)[m + 1])
    BY WithoutSupersededUnfolds DEF n
  <2>2. \A m \in 0 .. (n - 1) : Spares(h[m]) => Spares(h[m + 1])
    BY <1>2, <1>5, <2>1 DEF SupersededVisit
  <2> QED
    BY <1>6, <2>1, <2>2
<1> QED
  BY <1>7, <1>8 DEF Spares

\* Neither does the pair of sweeps of a prune.
LEMMA PruneSparesReaders ==
    ASSUME AccountingInv
    PROVE  PruneReport(TRUE).removed \in SUBSET present /\ \A e \in PruneReport(TRUE).removed : Unused(e)
<1> DEFINE first == WithoutSuperseded(present)
           F == first.kept
           second == ToLimits(F, 0)
           flat == ToLimits(present, 0)
           prune == PruneReport(TRUE)
<1>0. present \in SUBSET present /\ 0 \in Nat
  OBVIOUS
<1>1. /\ F \in SUBSET present /\ \A e \in present \ F : Unused(e)
      /\ flat.kept \in SUBSET present /\ \A e \in present \ flat.kept : Unused(e)
  BY <1>0, SweepsSpareReaders
<1>2. \A e \in F \ second.kept : Unused(e)
  <2> HIDE DEF F
  <2> QED
    BY <1>0, <1>1, SweepsSpareReaders
<1>3. prune = IF present \cap Superseded = {} THEN Report(present, flat)
              ELSE MergePruneReports(Report(present, first), Report(F, second))
  BY DEF PruneReport
<1> HIDE DEF first, second, flat, prune
<1>4. prune.removed = IF present \cap Superseded = {} THEN present \ flat.kept
                      ELSE (present \ F) \cup (F \ second.kept)
  BY <1>3 DEF MergePruneReports, Report
<1> QED
  BY <1>1, <1>2, <1>4 DEF prune

-----------------------------------------------------------------------------
(* Reports. *)

\* physical_bytes_by_lease: the invariant makes the count by lease and what the
\* files occupy agree, and the cached count too if the listings do.
LEMMA InspectionFromInv ==
    ASSUME AccountingInv
    PROVE  InspectionIsExact
<1> USE DEF AccountingInv
<1> DEFINE all == Joined(Full(access), present)
           held == Joined(Full(access), inUse)
<1>1. present \in SUBSET Entries /\ inUse \in SUBSET present /\ present \in SUBSET present
  BY DEF Shape
<1>2. \A e \in present : Walk(e) = Full(access)[e]
  BY <1>1 DEF Walk, Full
<1>3. UNION {Walk(e) : e \in present} = all /\ UNION {Walk(e) : e \in inUse} = held
  BY <1>1, <1>2 DEF Joined
<1>4. ActiveInodes = {r[1] : r \in held}
  <2>1. ActiveInodes = UNION {Linked({e}) : e \in inUse}
    BY <1>1 DEF ActiveInodes, ProtectedInodes
  <2>2. \A i : i \in ActiveInodes <=> \E e \in inUse : \E r \in Walk(e) : i = r[1]
    BY <2>1 DEF Linked
  <2> HIDE DEF held
  <2> QED
    BY <1>3, <2>2
<1>5. ASSUME NEW r \in all PROVE r[1] \in ActiveInodes <=> r \in held
  <2>1. PICK e \in present : r \in Full(access)[e]
    BY DEF Joined
  <2>2. ASSUME r[1] \in ActiveInodes PROVE r \in held
    <3>1. PICK s \in held : s[1] = r[1]
      BY <1>4, <2>2
    <3>2. PICK f \in inUse : s \in Full(access)[f]
      BY <3>1 DEF Joined
    <3>3. r = s
      BY <1>1, <2>1, <3>1, <3>2, InodeIsRecord
    <3> QED
      BY <3>1, <3>3
  <2> HIDE DEF held
  <2> QED
    BY <1>4, <2>2
<1>6. /\ {r \in all : r[1] \in ActiveInodes} = held
      /\ {r \in all : r[1] \notin ActiveInodes} = all \ held
  <2>1. held \subseteq all
    BY <1>1 DEF Joined
  <2> HIDE DEF held, all
  <2> QED
    BY <1>5, <2>1
<1>7. all \in SUBSET Pairs /\ IsFiniteSet(all) /\ Weights(ByteOf, all)
  BY <1>1, JoinedIsListing
<1>8. held \in SUBSET all
  BY <1>1 DEF Joined
<1>9. /\ Allocated(present) = SumFunctionOnSet(ByteOf, all) /\ Allocated(present) \in Nat
      /\ Allocated(inUse) = SumFunctionOnSet(ByteOf, held) /\ Allocated(inUse) \in Nat
  BY <1>1, AllocatedAnyNames
<1>10. Reclaimable = BytesOf(all \ held) /\ Active = BytesOf(held)
  BY <1>3, <1>6 DEF Reclaimable, Active
<1> HIDE DEF all, held
<1>11. /\ held \in SUBSET Pairs /\ IsFiniteSet(held)
       /\ all \ held \in SUBSET Pairs /\ IsFiniteSet(all \ held)
  BY <1>7, <1>8, FS_Subset, FS_Difference
<1>12. /\ BytesOf(held) = SumFunctionOnSet(ByteOf, held) /\ BytesOf(held) \in Nat
       /\ BytesOf(all \ held) = SumFunctionOnSet(ByteOf, all \ held) /\ BytesOf(all \ held) \in Nat
  BY <1>11, BytesAddUp
<1>13. SumFunctionOnSet(ByteOf, all) = SumFunctionOnSet(ByteOf, held) + SumFunctionOnSet(ByteOf, all \ held)
  BY <1>7, <1>8, SumSubset
<1>14. Reclaimable + Active = Allocated(present) /\ Reclaimable = Allocated(present) - Allocated(inUse)
  BY <1>9, <1>10, <1>12, <1>13
<1>15. IdentityOrder(present) \in SetToSeqs(present)
  BY <1>1, IdentityOrders
<1>16. ChargedBytes(IdentityOrder(present), present) <= Allocated(present)
  BY <1>1, <1>15, ChargedAtMost
<1>17. ASSUME ListingsAgree PROVE ChargedBytes(IdentityOrder(present), present) = Allocated(present)
  <2>1. ExactInv
    BY <1>17, AgreementIsExact
  <2> QED
    BY <1>1, <1>15, <2>1, ChargedIsAllocated
<1> QED
  BY <1>14, <1>16, <1>17 DEF InspectionIsExact

\* The smaller of two totals.
LEMMA MinOfTwo ==
    ASSUME NEW a \in Nat, NEW b \in Nat, b <= a
    PROVE  Min({a, b}) = b
<1>1. b \in {a, b} /\ \A y \in {a, b} : b =< y
  OBVIOUS
<1>2. \A x \in {a, b} : (\A y \in {a, b} : x =< y) => x = b
  OBVIOUS
<1> QED
  BY <1>1, <1>2 DEF Min

\* prune_with_superseded_release_reclamation with apply: what it leaves, and what
\* it says it leaves.
LEMMA PruneOutcome ==
    ASSUME ExactInv
    PROVE  LET prune == PruneReport(TRUE)
               kept == present \ prune.removed
           IN  /\ prune.removed \in SUBSET present /\ \A e \in prune.removed : Unused(e)
               /\ prune.after = Allocated(kept)
               /\ Under(kept, 0) \/ \A e \in kept : ~Unused(e)
               /\ prune.removed \subseteq PruneReport(FALSE).removed
<1> DEFINE first == WithoutSuperseded(present)
           F == first.kept
           second == ToLimits(F, 0)
           flat == ToLimits(present, 0)
           prune == PruneReport(TRUE)
           preview == PruneReport(FALSE)
           kept == present \ prune.removed
<1>0. present \in SUBSET present /\ 0 \in Nat
  OBVIOUS
<1>1. /\ F = {e \in present : e \notin Superseded \/ ~Unused(e)} /\ F \in SUBSET present
      /\ first.bytes = Allocated(F)
  BY <1>0, SupersededOutcome
<1>2. /\ second.kept \in SUBSET F /\ second.bytes = Allocated(second.kept)
      /\ \A e \in F \ second.kept : Unused(e) /\ ~Under(Late(F, e), 0)
      /\ Under(second.kept, 0) \/ \A e \in second.kept : ~Unused(e)
  <2> HIDE DEF F
  <2> QED
    BY <1>0, <1>1, LimitsOutcome
<1>3. /\ flat.kept \in SUBSET present /\ flat.bytes = Allocated(flat.kept)
      /\ \A e \in present \ flat.kept : Unused(e) /\ ~Under(Late(present, e), 0)
      /\ Under(flat.kept, 0) \/ \A e \in flat.kept : ~Unused(e)
      /\ \A e \in flat.kept : Unused(e) => Under(flat.kept, 0) /\ Late(present, e) \subseteq flat.kept
  BY <1>0, LimitsOutcome
<1>4. CASE present \cap Superseded = {}
  <2>1. prune = Report(present, flat) /\ preview = Report(present, flat)
    BY <1>4 DEF PruneReport
  <2> HIDE DEF flat, F, first, second, prune, preview
  <2>2. prune.removed = present \ flat.kept /\ prune.after = Allocated(flat.kept)
    BY <1>3, <2>1 DEF Report
  <2>3. kept = flat.kept
    BY <1>3, <2>2
  <2> HIDE DEF kept
  <2>4. prune.removed \subseteq preview.removed
    BY <2>1
  <2> QED
    BY <1>3, <2>2, <2>3, <2>4 DEF kept, prune, preview
<1>5. CASE present \cap Superseded # {}
  <2>1. prune = MergePruneReports(Report(present, first), Report(F, second))
    BY <1>5 DEF PruneReport
  <2>2. preview = MergePruneReports(Report(present, first), Report(present, flat))
    BY <1>5 DEF PruneReport
  <2>3. /\ prune.removed = (present \ F) \cup (F \ second.kept)
        /\ prune.after = Min({first.bytes, second.bytes})
    <3> HIDE DEF first, second, prune
    <3> QED
      BY <2>1 DEF MergePruneReports, Report
  <2>4. preview.removed = (present \ F) \cup (present \ flat.kept)
    <3> HIDE DEF first, flat, preview
    <3> QED
      BY <2>2 DEF MergePruneReports, Report
  <2> HIDE DEF prune, preview, first, second, flat
  <2>5. kept = second.kept /\ second.kept \in SUBSET present
    BY <1>1, <1>2, <2>3
  <2>6. Allocated(second.kept) <= Allocated(F) /\ Allocated(second.kept) \in Nat /\ Allocated(F) \in Nat
    <3> HIDE DEF F
    <3> QED
      BY <1>1, <1>2, AllocatedMonotone DEF ExactInv
  <2>7. prune.after = Allocated(kept)
    <3>1. Min({first.bytes, second.bytes}) = second.bytes
      BY <1>1, <1>2, <2>6, MinOfTwo
    <3> QED
      BY <1>2, <2>3, <2>5, <3>1
  <2>8. \A e \in prune.removed : Unused(e)
    BY <1>1, <1>2, <2>3
  <2>9. ASSUME NEW e \in F \ second.kept PROVE e \notin flat.kept
    <3> SUFFICES ASSUME e \in flat.kept PROVE FALSE
      OBVIOUS
    <3>1. Unused(e) /\ ~Under(Late(F, e), 0)
      BY <1>2
    <3>2. Under(flat.kept, 0) /\ Late(present, e) \subseteq flat.kept
      BY <1>3, <3>1
    <3>3. Late(F, e) \in SUBSET flat.kept
      BY <1>1, <3>2 DEF Late
    <3>4. /\ Allocated(Late(F, e)) <= Allocated(flat.kept)
          /\ Allocated(Late(F, e)) \in Nat /\ Allocated(flat.kept) \in Nat
      BY <1>3, <3>3, AllocatedMonotone DEF ExactInv
    <3> QED
      BY <3>1, <3>2, <3>4, AccountingAssumption DEF Under
  <2>10. prune.removed \subseteq preview.removed
    BY <1>1, <2>3, <2>4, <2>9
  <2>11. prune.removed \in SUBSET present
    BY <1>1, <2>3
  <2>12. Under(kept, 0) \/ \A e \in kept : ~Unused(e)
    BY <1>2, <2>5
  <2> HIDE DEF kept
  <2> QED
    BY <2>7, <2>8, <2>10, <2>11, <2>12 DEF kept, prune, preview
<1> QED
  BY <1>4, <1>5

-----------------------------------------------------------------------------
(* New inodes. *)

\* Rank numbers a finite set of naturals.
LEMMA RankNumbers ==
    ASSUME NEW S \in SUBSET Nat, IsFiniteSet(S)
    PROVE  /\ \A x \in S : Rank(x, S) \in 1 .. Cardinality(S)
           /\ \A x, y \in S : Rank(x, S) = Rank(y, S) => x = y
<1> DEFINE Down(x) == {y \in S : y <= x}
<1>1. Cardinality(S) \in Nat
  BY FS_CardinalityType
<1>2. ASSUME NEW x \in S
      PROVE  IsFiniteSet(Down(x)) /\ Rank(x, S) = Cardinality(Down(x)) /\ Rank(x, S) \in 1 .. Cardinality(S)
  <2>1. Down(x) \in SUBSET S /\ x \in Down(x)
    OBVIOUS
  <2>2. Rank(x, S) = Cardinality(Down(x))
    BY DEF Rank
  <2> HIDE DEF Down
  <2>3. IsFiniteSet(Down(x)) /\ Cardinality(Down(x)) <= Cardinality(S)
    BY <2>1, FS_Subset
  <2>4. Cardinality(Down(x)) \in Nat /\ Cardinality(Down(x)) # 0
    BY <2>1, <2>3, FS_CardinalityType, FS_EmptySet
  <2> QED
    BY <1>1, <2>2, <2>3, <2>4
<1>3. ASSUME NEW x \in S, NEW y \in S, x < y PROVE Rank(x, S) # Rank(y, S)
  <2>0. x \in Nat /\ y \in Nat /\ \A z \in S : z \in Nat
    OBVIOUS
  <2>1. Down(x) \in SUBSET Down(y) /\ y \in Down(y) /\ y \notin Down(x)
    <3>1. \A z \in S : z <= x => z <= y
      BY <1>3, <2>0
    <3>2. y <= y /\ ~(y <= x)
      BY <1>3, <2>0
    <3> QED
      BY <3>1, <3>2
  <2>2. Down(x) # Down(y)
    BY <2>1
  <2> HIDE DEF Down
  <2>3. Cardinality(Down(x)) # Cardinality(Down(y))
    BY <1>2, <2>1, <2>2, FS_Subset
  <2> QED
    BY <1>2, <2>3
<1>4. ASSUME NEW x \in S, NEW y \in S, Rank(x, S) = Rank(y, S) PROVE x = y
  <2>1. x \in Nat /\ y \in Nat
    OBVIOUS
  <2> QED
    BY <1>3, <1>4, <2>1
<1> QED
  BY <1>2, <1>4

\* A finite set of naturals has an n-th member for every n up to its size.
LEMMA NthIsMember ==
    ASSUME NEW S \in SUBSET Nat, IsFiniteSet(S), NEW n \in 1 .. Cardinality(S)
    PROVE  Nth(S, n) \in S /\ Rank(Nth(S, n), S) = n
<1> DEFINE D == 1 .. Cardinality(S)
           rank == [x \in S |-> Rank(x, S)]
<1>1. Cardinality(S) \in Nat
  BY FS_CardinalityType
<1>2. IsFiniteSet(D) /\ Cardinality(D) = Cardinality(S)
  BY <1>1, FS_Interval
<1>3. rank \in Injection(S, D)
  BY RankNumbers DEF Injection, IsInjective
<1> HIDE DEF rank, D
<1>4. rank \in Surjection(S, D)
  BY <1>2, <1>3, FS_Injection
<1>5. PICK x \in S : rank[x] = n
  BY <1>4 DEF Surjection, D
<1>6. Rank(x, S) = n
  BY <1>5 DEF rank
<1> QED
  BY <1>6 DEF Nth

\* The least of some naturals.
LEMMA MinIsMember ==
    ASSUME NEW S \in SUBSET Nat, S # {}
    PROVE  Min(S) \in S
<1>1. PICK x \in S : \A y \in S : ~(<<y, x>> \in OpToRel(<, Nat))
  BY WFMin, NatLessThanWellFounded
<1>2. ASSUME NEW y \in S PROVE x =< y
  <2>1. x \in Nat /\ y \in Nat
    OBVIOUS
  <2>2. y < x => <<y, x>> \in OpToRel(<, Nat)
    BY <2>1 DEF OpToRel
  <2>3. ~(y < x)
    BY <1>1, <2>2
  <2> QED
    BY <2>1, <2>3
<1> QED
  BY <1>2 DEF Min

\* There are numbers for n new files, and no file that stays has one of them.
LEMMA FreeInodesSuffice ==
    ASSUME AccountingInv, NEW kept \in SUBSET present, NEW n \in Nat, NEW low \in {1, created + 1}
    PROVE  LET free == FreeInodes(kept, n, low) IN
           /\ free \in SUBSET Nat /\ IsFiniteSet(free)
           /\ Cardinality(free) \in Nat /\ Cardinality(free) >= n
           /\ \A i \in free : i \in 1 .. (created + n) /\ i \notin Linked(kept)
<1> DEFINE free == FreeInodes(kept, n, low)
           above == (created + 1) .. (created + n)
<1>1. created \in Nat /\ created + n \in Nat /\ kept \subseteq Entries
  BY DEF AccountingInv, Shape
<1>2. \A i \in free : i \in 1 .. (created + n) /\ i \notin Linked(kept)
  BY <1>1 DEF FreeInodes
<1>3. ASSUME NEW i \in Linked(kept) PROVE i \in Nat /\ i <= created
  <2>1. PICK e \in kept : \E r \in Walk(e) : i = r[1]
    BY DEF Linked
  <2>2. PICK r \in Walk(e) : i = r[1]
    BY <2>1
  <2>3. CASE r \in content[e]
    BY <1>1, <2>2, <2>3 DEF AccountingInv, Contents, Pairs
  <2>4. CASE r = <<access[e], StampBytes>>
    BY <1>1, <2>2, <2>4 DEF AccountingInv, Stamps
  <2> QED
    BY <2>2, <2>3, <2>4 DEF Walk
<1>4. above \in SUBSET free
  BY <1>1, <1>3 DEF FreeInodes
<1> HIDE DEF free
<1>5. free \in SUBSET (1 .. (created + n)) /\ IsFiniteSet(1 .. (created + n))
  BY <1>1, <1>2, FS_Interval
<1>6. free \in SUBSET Nat /\ IsFiniteSet(free)
  <2>1. \A i \in 1 .. (created + n) : i \in Nat
    BY <1>1
  <2> QED
    BY <1>5, <2>1, FS_Subset
<1>7. Cardinality(free) \in Nat
  BY <1>6, FS_CardinalityType
<1>8. Cardinality(above) = n
  BY <1>1, FS_Interval
<1>9. Cardinality(above) <= Cardinality(free)
  BY <1>4, <1>6, FS_Subset
<1> QED
  BY <1>2, <1>6, <1>7, <1>8, <1>9 DEF free

\* A publication's files: finitely many, of a natural size in all.
LEMMA StagedFiles ==
    ASSUME NEW N \in Publications
    PROVE  /\ N \in SUBSET Entries /\ N \in SUBSET Nat /\ IsFiniteSet(N)
           /\ Keys(N) \in SUBSET Nat /\ IsFiniteSet(Keys(N)) /\ \A k \in Keys(N) : SizeOf[k] \in Nat
           /\ Cardinality(N) \in Nat /\ Cardinality(Keys(N)) \in Nat /\ StagedBytes(N) \in Nat
<1> DEFINE keys == UNION {FilesOf[e] : e \in N}
           F == {s \in SUBSET N : IsFiniteSet(UNION {FilesOf[e] : e \in s})}
<1>1. N \in SUBSET Entries /\ N \in SUBSET Nat
  BY AccountingAssumption
<1>2. IsFiniteSet(N)
  BY <1>1, EntriesFinite
<1>3. {} \in F
  <2>1. UNION {FilesOf[e] : e \in {}} = {}
    OBVIOUS
  <2> QED
    BY <2>1, FS_EmptySet
<1>4. ASSUME NEW s \in SUBSET N, NEW x \in N, s \in F PROVE s \cup {x} \in F
  <2>1. UNION {FilesOf[e] : e \in s \cup {x}} = (UNION {FilesOf[e] : e \in s}) \cup FilesOf[x]
    OBVIOUS
  <2>2. IsFiniteSet(FilesOf[x]) /\ IsFiniteSet(UNION {FilesOf[e] : e \in s})
    BY <1>1, <1>4, AccountingAssumption
  <2>3. IsFiniteSet((UNION {FilesOf[e] : e \in s}) \cup FilesOf[x])
    BY <2>2, FS_Union
  <2> QED
    BY <2>1, <2>3
<1> HIDE DEF F
<1>5. N \in F
  BY <1>2, <1>3, <1>4, SubsetInduction
<1>6. IsFiniteSet(keys)
  BY <1>5 DEF F
<1>7. keys \in SUBSET DOMAIN SizeOf
  BY <1>1, AccountingAssumption
<1>8. keys \in SUBSET Nat /\ \A k \in keys : SizeOf[k] \in Nat
  BY <1>7, AccountingAssumption
<1> HIDE DEF keys
<1>9. SumFunctionOnSet(SizeOf, keys) \in Nat
  <2>1. Weights(SizeOf, keys)
    BY <1>6, <1>8 DEF Weights
  <2> QED
    BY <2>1, SumOfFinite
<1>10. Cardinality(N) \in Nat /\ Cardinality(keys) \in Nat /\ StampBytes \in Nat
  BY <1>2, <1>6, FS_CardinalityType, AccountingAssumption
<1>11. SumFunctionOnSet(SizeOf, keys) + StampBytes * Cardinality(N) \in Nat
  BY <1>9, <1>10
<1> QED
  BY <1>1, <1>2, <1>6, <1>8, <1>10, <1>11 DEF keys, Keys, StagedBytes

-----------------------------------------------------------------------------
(* The invariant is kept. *)

\* What prune, an inspection and a publication have in common: the entries of kept
\* stay as they are, but for listings that are cached now, those of N get new
\* inodes, and nothing is left of the others.
Stays(kept) ==
    \A e \in kept : /\ content'[e] = content[e] /\ access'[e] = access[e]
                    /\ records'[e] = records[e] \/ records'[e] = Records(e)
Arrives(N, kept) ==
    /\ \A e \in N : access'[e] \in 1 .. created' /\ access'[e] \notin Linked(kept) /\ records'[e] = Nothing
    /\ \A e, f \in N : access'[e] = access'[f] => e = f
    /\ \A e \in N : content'[e] \in SUBSET Pairs /\ IsFiniteSet(content'[e])
    /\ \A e \in N : \A r \in content'[e] : r[1] \notin Linked(kept) /\ r[1] <= created'
    /\ \A e, f \in N : \A r \in content'[e] : r[1] # access'[f]
    /\ \A e, f \in N : \A r \in content'[e], s \in content'[f] : r[1] = s[1] => r = s
Leaves(S) == \A e \in S : content'[e] = {} /\ access'[e] = 0 /\ records'[e] = Nothing
Restock(kept, N) ==
    /\ present' = kept \cup N /\ inUse' = inUse /\ clock' = clock
    /\ created' \in Nat /\ created <= created' /\ created' <= MaxFiles
    /\ lastUsed' \in [Entries -> Nat] /\ access' \in [Entries -> Nat]
    /\ Stays(kept) /\ Arrives(N, kept) /\ Leaves(Entries \ (kept \cup N))

\* Such a step keeps the invariant: no file that stays has one of the new inodes.
LEMMA RestockKeepsInv ==
    ASSUME AccountingInv, NEW kept \in SUBSET present, inUse \subseteq kept,
           NEW N \in SUBSET Entries, N \cap present = {}, Restock(kept, N)
    PROVE  AccountingInv'
<1> USE DEF AccountingInv
<1>1. /\ present \subseteq Entries /\ kept \subseteq Entries /\ N \subseteq Entries /\ created \in Nat
      /\ present' = kept \cup N /\ created' \in Nat /\ created <= created'
  BY DEF Shape, Restock
<1>2. Stays(kept) /\ Arrives(N, kept) /\ Leaves(Entries \ (kept \cup N))
  BY DEF Restock
<1>3. Shape'
  <2>1. \A e \in Entries \ (kept \cup N) : content'[e] = {} /\ access'[e] = 0 /\ records'[e] = Nothing
    BY <1>2 DEF Leaves
  <2> QED
    BY <1>1, <2>1 DEF Shape, Restock
<1>4. \A e \in Entries : e \in kept \/ e \in N \/ content'[e] = {}
  BY <1>2 DEF Leaves
<1>5. ASSUME NEW e \in kept PROVE access[e] \in Linked(kept) /\ \A r \in content[e] : r[1] \in Linked(kept)
  <2>1. <<access[e], StampBytes>> \in Walk(e) /\ \A r \in content[e] : r \in Walk(e)
    BY DEF Walk
  <2>2. <<access[e], StampBytes>>[1] = access[e]
    OBVIOUS
  <2> QED
    BY <2>1, <2>2 DEF Linked
<1>6. Contents'
  <2>1. \A e \in kept : /\ content'[e] \in SUBSET Pairs /\ IsFiniteSet(content'[e])
                        /\ \A r \in content'[e] : r[1] \in Nat /\ r[1] <= created /\ r \in content[e]
    BY <1>1, <1>2 DEF Stays, Contents, Pairs
  <2>2. \A e \in N : /\ content'[e] \in SUBSET Pairs /\ IsFiniteSet(content'[e])
                     /\ \A r \in content'[e] : r[1] \notin Linked(kept) /\ r[1] <= created'
    BY <1>2 DEF Arrives, Pairs
  <2>3. \A e \in Entries : /\ content'[e] \in SUBSET Pairs /\ IsFiniteSet(content'[e])
                           /\ \A r \in content'[e] : r[1] <= created'
    <3> SUFFICES ASSUME NEW e \in Entries
                 PROVE  /\ content'[e] \in SUBSET Pairs /\ IsFiniteSet(content'[e])
                        /\ \A r \in content'[e] : r[1] <= created'
      OBVIOUS
    <3>1. CASE e \in kept
      BY <1>1, <2>1, <3>1
    <3>2. CASE e \in N
      BY <2>2, <3>2
    <3>3. CASE content'[e] = {}
      BY <3>3, FS_EmptySet
    <3> QED
      BY <1>4, <3>1, <3>2, <3>3
  <2>4. ASSUME NEW e \in Entries, NEW f \in Entries, NEW r \in content'[e], NEW s \in content'[f], r[1] = s[1]
        PROVE  r = s
    <3>1. CASE e \in kept /\ f \in kept
      <4>1. r \in content[e] /\ s \in content[f]
        BY <2>1, <3>1
      <4> QED
        BY <2>4, <4>1 DEF Contents
    <3>2. CASE e \in N /\ f \in N
      BY <1>2, <2>4, <3>2 DEF Arrives
    <3>3. CASE e \in kept /\ f \in N
      <4>1. r[1] \in Linked(kept)
        BY <1>5, <2>1, <3>3
      <4> QED
        BY <2>2, <2>4, <3>3, <4>1
    <3>4. CASE e \in N /\ f \in kept
      <4>1. s[1] \in Linked(kept)
        BY <1>5, <2>1, <3>4
      <4> QED
        BY <2>2, <2>4, <3>4, <4>1
    <3> QED
      BY <1>4, <3>1, <3>2, <3>3, <3>4
  <2> QED
    BY <2>3, <2>4 DEF Contents
<1>7. Stamps(access)'
  <2>1. \A e \in kept : access'[e] = access[e] /\ access'[e] \in Linked(kept) /\ access'[e] \in 1 .. created
    BY <1>2, <1>5 DEF Stays, Stamps
  <2>2. \A e \in N : access'[e] \in 1 .. created' /\ access'[e] \notin Linked(kept)
    BY <1>2 DEF Arrives
  <2>3. \A e \in present' : access'[e] \in 1 .. created'
    BY <1>1, <2>1, <2>2
  <2>4. ASSUME NEW e \in present', NEW f \in Entries, NEW r \in content'[f] PROVE r[1] # access'[e]
    <3>1. CASE e \in kept /\ f \in kept
      <4>1. r \in content[f] /\ access'[e] = access[e]
        BY <1>2, <3>1 DEF Stays
      <4> QED
        BY <3>1, <4>1 DEF Stamps
    <3>2. CASE e \in N /\ f \in N
      BY <1>2, <3>2 DEF Arrives
    <3>3. CASE e \in kept /\ f \in N
      <4>1. r[1] \notin Linked(kept)
        BY <1>2, <3>3 DEF Arrives
      <4> QED
        BY <2>1, <3>3, <4>1
    <3>4. CASE e \in N /\ f \in kept
      <4>1. r[1] \in Linked(kept)
        BY <1>2, <1>5, <3>4 DEF Stays
      <4> QED
        BY <2>2, <3>4, <4>1
    <3> QED
      BY <1>1, <1>4, <3>1, <3>2, <3>3, <3>4
  <2>5. ASSUME NEW e \in present', NEW f \in present', access'[e] = access'[f] PROVE e = f
    <3>1. CASE e \in kept /\ f \in kept
      BY <2>1, <2>5, <3>1 DEF Stamps
    <3>2. CASE e \in N /\ f \in N
      BY <1>2, <2>5, <3>2 DEF Arrives
    <3>3. CASE (e \in kept /\ f \in N) \/ (e \in N /\ f \in kept)
      BY <2>1, <2>2, <2>5, <3>3
    <3> QED
      BY <1>1, <3>1, <3>2, <3>3
  <2> QED
    BY <2>3, <2>4, <2>5 DEF Stamps
<1>8. ListingShape'
  <2>1. PICK c : StampNames(c) /\ \A e \in present : Records(e) = Full(c)[e]
    BY DEF ListingShape
  <2>2. PICK d : d = [e \in Entries |-> IF e \in N THEN access'[e] ELSE c[e]]
    OBVIOUS
  <2>3. (\A e \in kept : d[e] = c[e]) /\ \A e \in N : d[e] = access'[e]
    BY <1>1, <2>2
  <2>4. StampNames(d)'
    <3>1. \A e \in kept : d[e] \in 1 .. created' /\ \A r \in content'[e] : r[1] # d[e]
      BY <1>1, <1>2, <2>1, <2>3 DEF StampNames, Stays
    <3>2. \A e \in N : d[e] \in 1 .. created' /\ \A r \in content'[e] : r[1] # d[e]
      BY <1>2, <2>3 DEF Arrives
    <3> QED
      BY <1>1, <3>1, <3>2 DEF StampNames
  <2>5. ASSUME NEW e \in kept PROVE Records(e)' = Full(d)'[e]
    <3>1. Records(e)' = Records(e)
      <4>1. Walk(e)' = Walk(e)
        BY <1>2 DEF Walk, Stays
      <4> QED
        BY <1>2, <4>1 DEF Records, Stays
    <3>2. Full(d)'[e] = Full(c)[e]
      BY <1>1, <1>2, <2>3 DEF Full, Stays
    <3> QED
      BY <2>1, <3>1, <3>2
  <2>6. ASSUME NEW e \in N PROVE Records(e)' = Full(d)'[e]
    <3>1. records'[e] = Nothing /\ d[e] = access'[e]
      BY <1>2, <2>3 DEF Arrives
    <3> QED
      BY <1>1, <3>1 DEF Records, Walk, Full
  <2> QED
    BY <1>1, <2>4, <2>5, <2>6 DEF ListingShape
<1> QED
  BY <1>3, <1>6, <1>7, <1>8

\* Sweeping drops what it removes and caches the listings of what it keeps.
LEMMA PruneKeepsInv ==
    ASSUME AccountingInv, Prune
    PROVE  AccountingInv'
<1> DEFINE gone == PruneReport(TRUE).removed
           kept == present \ gone
<1>1. gone \in SUBSET present /\ \A e \in gone : Unused(e)
  BY PruneSparesReaders
<1>2. /\ present' = present \ gone /\ records' = Cached(present \ gone) /\ Drop(gone)
      /\ UNCHANGED <<clock, inUse, created>>
  BY DEF Prune
<1> HIDE DEF gone
<1>3. /\ present \subseteq Entries /\ inUse \subseteq present /\ created \in Nat /\ created <= MaxFiles
      /\ access \in [Entries -> Nat] /\ lastUsed \in [Entries -> Nat]
      /\ \A e \in Entries \ present : content[e] = {} /\ access[e] = 0
  BY DEF AccountingInv, Shape
<1>4. inUse \subseteq kept
  BY <1>1, <1>3 DEF Unused
<1>5. Stays(kept)
  BY <1>2, <1>3 DEF Stays, Drop, Cached
<1>6. Arrives({}, kept)
  BY DEF Arrives
<1>7. Leaves(Entries \ (kept \cup {}))
  BY <1>2, <1>3 DEF Leaves, Drop, Cached
<1>8. access' \in [Entries -> Nat] /\ lastUsed' \in [Entries -> Nat]
  BY <1>2, <1>3 DEF Drop
<1>9. Restock(kept, {})
  BY <1>2, <1>3, <1>5, <1>6, <1>7, <1>8 DEF Restock
<1> QED
  BY <1>3, <1>4, <1>9, RestockKeepsInv

\* An inspection, and a preview, only cache listings.
LEMMA InspectKeepsInv ==
    ASSUME AccountingInv, Inspect
    PROVE  AccountingInv'
<1>1. /\ records' = Cached(present)
      /\ UNCHANGED <<present, content, access, lastUsed, clock, inUse, created>>
  BY DEF Inspect
<1>2. /\ present \subseteq Entries /\ inUse \subseteq present /\ created \in Nat /\ created <= MaxFiles
      /\ access \in [Entries -> Nat] /\ lastUsed \in [Entries -> Nat]
      /\ \A e \in Entries \ present : content[e] = {} /\ access[e] = 0
  BY DEF AccountingInv, Shape
<1>3. Stays(present) /\ Arrives({}, present) /\ Leaves(Entries \ (present \cup {}))
  BY <1>1, <1>2 DEF Stays, Arrives, Leaves, Cached
<1>4. Restock(present, {})
  BY <1>1, <1>2, <1>3 DEF Restock
<1> QED
  BY <1>2, <1>4, RestockKeepsInv

\* Publication stages files under inodes of their own beside what the admission
\* sweep has left.
LEMMA PublishKeepsInv ==
    ASSUME AccountingInv, NEW N \in Publications, PublishEntries(N)
    PROVE  AccountingInv'
<1> DEFINE keys == Keys(N)
           swept == ToLimits(present, StagedBytes(N)).kept
           new == Cardinality(keys) + Cardinality(N)
<1>1. /\ present \subseteq Entries /\ inUse \subseteq present /\ created \in Nat /\ created <= MaxFiles
      /\ access \in [Entries -> Nat] /\ lastUsed \in [Entries -> Nat] /\ clock \in Nat
      /\ \A e \in Entries \ present : content[e] = {} /\ access[e] = 0 /\ records[e] = Nothing
      /\ Shape
  BY DEF AccountingInv, Shape
<1>2. /\ N \in SUBSET Entries /\ StagedBytes(N) \in Nat /\ keys \in SUBSET Nat /\ new \in Nat
      /\ \A k \in keys : SizeOf[k] \in Nat
  BY StagedFiles
<1>3. swept \in SUBSET present /\ inUse \subseteq swept
  <2>1. swept \in SUBSET present /\ \A e \in present \ swept : Unused(e)
    BY <1>2, SweepsSpareReaders
  <2> QED
    BY <1>1, <2>1 DEF Unused
<1>4. PICK sweeps \in BOOLEAN, low \in {1, created + 1} :
        /\ N \cap present = {} /\ UNCHANGED <<clock, inUse>>
        /\ present' = (IF sweeps THEN swept ELSE present) \cup N
        /\ records' = IF sweeps THEN Cached(IF sweeps THEN swept ELSE present) ELSE records
        /\ Stage(N, IF sweeps THEN swept ELSE present, low)
  BY DEF PublishEntries
<1> DEFINE kept == IF sweeps THEN swept ELSE present
           free == FreeInodes(kept, new, low)
           inode == [k \in keys |-> Nth(free, Rank(k, keys))]
           stamps == [e \in N |-> Nth(free, Cardinality(keys) + Rank(e, N))]
<1>5. /\ kept \in SUBSET present /\ inUse \subseteq kept /\ N \cap present = {}
      /\ present' = kept \cup N /\ UNCHANGED <<clock, inUse>>
  BY <1>1, <1>3, <1>4
<1>6. records' = IF sweeps THEN Cached(kept) ELSE records
  BY <1>4
<1>7. \A e \in Entries :
        /\ content'[e] = CASE e \in N    -> {<<inode[k], SizeOf[k]>> : k \in FilesOf[e]}
                           [] e \in kept -> content[e]
                           [] OTHER      -> {}
        /\ access'[e] = CASE e \in N -> stamps[e] [] e \in kept -> access[e] [] OTHER -> 0
        /\ lastUsed'[e] = CASE e \in N -> clock [] e \in kept -> lastUsed[e] [] OTHER -> 0
  BY <1>4 DEF Stage
<1>8. /\ access' = [e \in Entries |-> access'[e]] /\ lastUsed' = [e \in Entries |-> lastUsed'[e]]
      /\ created' = created + new /\ created + new <= MaxFiles
  BY <1>4 DEF Stage
<1>10. /\ \A k \in keys : inode[k] \in 1 .. (created + new) /\ inode[k] \notin Linked(kept)
       /\ \A k, l \in keys : inode[k] = inode[l] => k = l
       /\ \A e \in N : stamps[e] \in 1 .. (created + new) /\ stamps[e] \notin Linked(kept)
       /\ \A e, f \in N : stamps[e] = stamps[f] => e = f
       /\ \A k \in keys, e \in N : inode[k] # stamps[e]
  <2>0. kept \in SUBSET present /\ low \in {1, created + 1}
    BY <1>5
  <2> HIDE DEF kept
  <2>1. /\ N \in SUBSET Nat /\ IsFiniteSet(N) /\ keys \in SUBSET Nat /\ IsFiniteSet(keys)
        /\ Cardinality(N) \in Nat /\ Cardinality(keys) \in Nat
    BY StagedFiles
  <2>2. new \in Nat
    BY <2>1
  <2>3. /\ free \in SUBSET Nat /\ IsFiniteSet(free)
        /\ Cardinality(free) \in Nat /\ Cardinality(free) >= new
        /\ \A i \in free : i \in 1 .. (created + new) /\ i \notin Linked(kept)
    BY <2>0, <2>2, FreeInodesSuffice
  <2>4. /\ \A k \in keys : Rank(k, keys) \in 1 .. Cardinality(keys)
        /\ \A k, l \in keys : Rank(k, keys) = Rank(l, keys) => k = l
    BY <2>1, RankNumbers
  <2>5. /\ \A e \in N : Rank(e, N) \in 1 .. Cardinality(N)
        /\ \A e, f \in N : Rank(e, N) = Rank(f, N) => e = f
    BY <2>1, RankNumbers
  <2>6. \A n \in 1 .. new : Nth(free, n) \in free /\ Rank(Nth(free, n), free) = n
    <3>1. \A n \in 1 .. new : n \in 1 .. Cardinality(free)
      BY <2>2, <2>3
    <3> QED
      BY <2>3, <3>1, NthIsMember
  <2>7. \A k \in keys : Rank(k, keys) \in 1 .. new
    BY <2>1, <2>4
  <2>8. \A e \in N : Cardinality(keys) + Rank(e, N) \in 1 .. new
    BY <2>1, <2>5
  <2>9. ASSUME NEW k \in keys PROVE inode[k] \in free /\ Rank(inode[k], free) = Rank(k, keys)
    BY <2>6, <2>7
  <2>10. ASSUME NEW e \in N PROVE stamps[e] \in free /\ Rank(stamps[e], free) = Cardinality(keys) + Rank(e, N)
    BY <2>6, <2>8
  <2>11. ASSUME NEW k \in keys, NEW l \in keys, inode[k] = inode[l] PROVE k = l
    <3>1. Rank(k, keys) = Rank(l, keys)
      BY <2>9, <2>11
    <3> QED
      BY <2>4, <3>1
  <2>12. ASSUME NEW e \in N, NEW f \in N, stamps[e] = stamps[f] PROVE e = f
    <3>1. Cardinality(keys) + Rank(e, N) = Cardinality(keys) + Rank(f, N)
      BY <2>10, <2>12
    <3>2. Rank(e, N) \in Nat /\ Rank(f, N) \in Nat
      BY <2>1, <2>5
    <3>3. Rank(e, N) = Rank(f, N)
      BY <2>1, <3>1, <3>2
    <3> QED
      BY <2>5, <3>3
  <2>13. ASSUME NEW k \in keys, NEW e \in N PROVE inode[k] # stamps[e]
    <3>1. Rank(k, keys) # Cardinality(keys) + Rank(e, N)
      BY <2>1, <2>4, <2>5
    <3> QED
      BY <2>9, <2>10, <3>1
  <2> QED
    BY <2>3, <2>9, <2>10, <2>11, <2>12, <2>13
<1>11. /\ \A e \in N : e \notin kept /\ records'[e] = Nothing
       /\ \A e \in Entries \ (kept \cup N) : records'[e] = Nothing
       /\ \A e \in kept : records'[e] = records[e] \/ records'[e] = Records(e)
  <2>1. CASE sweeps = TRUE
    BY <1>1, <1>2, <1>5, <1>6, <2>1 DEF Cached
  <2>2. CASE sweeps = FALSE
    BY <1>1, <1>2, <1>5, <1>6, <2>2
  <2> QED
    BY <2>1, <2>2
<1> HIDE DEF kept, inode, stamps, keys, free, new
<1>12. created' = created + new /\ created' \in Nat /\ created <= created' /\ created' <= MaxFiles
  BY <1>1, <1>2, <1>8
<1>14. Stays(kept)
  BY <1>1, <1>5, <1>7, <1>11 DEF Stays
<1>15. Leaves(Entries \ (kept \cup N))
  BY <1>7, <1>11 DEF Leaves
<1>16. ASSUME NEW e \in N
       PROVE  /\ content'[e] = {<<inode[k], SizeOf[k]>> : k \in FilesOf[e]}
              /\ access'[e] = stamps[e] /\ lastUsed'[e] = clock
  <2>1. e \in Entries /\ e \in N /\ e \notin kept
    BY <1>2, <1>11
  <2>2. /\ content'[e] = CASE e \in N    -> {<<inode[k], SizeOf[k]>> : k \in FilesOf[e]}
                           [] e \in kept -> content[e]
                           [] OTHER      -> {}
        /\ access'[e] = CASE e \in N -> stamps[e] [] e \in kept -> access[e] [] OTHER -> 0
        /\ lastUsed'[e] = CASE e \in N -> clock [] e \in kept -> lastUsed[e] [] OTHER -> 0
    BY <1>7, <2>1
  <2> QED
    BY <2>1, <2>2
<1>17. \A e \in N : \A r \in content'[e] : \E k \in keys : r = <<inode[k], SizeOf[k]>>
  BY <1>16 DEF keys, Keys
<1>18. Arrives(N, kept)
  <2>1. \A e \in N : access'[e] \in 1 .. created' /\ access'[e] \notin Linked(kept)
    BY <1>10, <1>12, <1>16
  <2>2. \A e, f \in N : access'[e] = access'[f] => e = f
    BY <1>10, <1>16
  <2>3. \A e \in N : content'[e] \in SUBSET Pairs
    BY <1>2, <1>10, <1>12, <1>17 DEF Pairs
  <2>4. ASSUME NEW e \in N PROVE IsFiniteSet(content'[e])
    <3> DEFINE g == [k \in FilesOf[e] |-> <<inode[k], SizeOf[k]>>]
    <3>1. IsFiniteSet(FilesOf[e])
      BY <1>2, AccountingAssumption
    <3>2. content'[e] = {<<inode[k], SizeOf[k]>> : k \in FilesOf[e]}
      BY <1>16
    <3>3. g \in Surjection(FilesOf[e], content'[e])
      BY <3>2 DEF Surjection
    <3> HIDE DEF g
    <3> QED
      BY <3>1, <3>3, FS_Surjection
  <2>5. ASSUME NEW e \in N, NEW r \in content'[e] PROVE r[1] \notin Linked(kept) /\ r[1] <= created'
    <3>1. PICK k \in keys : r = <<inode[k], SizeOf[k]>>
      BY <1>17
    <3>2. r[1] = inode[k]
      BY <3>1
    <3> QED
      BY <1>10, <1>12, <3>2
  <2>6. \A e, f \in N : \A r \in content'[e] : r[1] # access'[f]
    <3> SUFFICES ASSUME NEW e \in N, NEW f \in N, NEW r \in content'[e] PROVE r[1] # access'[f]
      OBVIOUS
    <3>1. PICK k \in keys : r = <<inode[k], SizeOf[k]>>
      BY <1>17
    <3>2. inode[k] # stamps[f] /\ access'[f] = stamps[f]
      BY <1>10, <1>16
    <3> QED
      BY <3>1, <3>2
  <2>7. \A e, f \in N : \A r \in content'[e], s \in content'[f] : r[1] = s[1] => r = s
    <3> SUFFICES ASSUME NEW e \in N, NEW f \in N, NEW r \in content'[e], NEW s \in content'[f], r[1] = s[1]
                 PROVE  r = s
      OBVIOUS
    <3>1. PICK k \in keys : r = <<inode[k], SizeOf[k]>>
      BY <1>17
    <3>2. PICK l \in keys : s = <<inode[l], SizeOf[l]>>
      BY <1>17
    <3>3. k = l
      BY <1>10, <3>1, <3>2
    <3> QED
      BY <3>1, <3>2, <3>3
  <2> QED
    BY <1>11, <2>1, <2>2, <2>3, <2>4, <2>5, <2>6, <2>7 DEF Arrives
<1>19. access' \in [Entries -> Nat] /\ lastUsed' \in [Entries -> Nat]
  <2>1. ASSUME NEW e \in Entries PROVE access'[e] \in Nat /\ lastUsed'[e] \in Nat
    <3>1. CASE e \in N
      BY <1>1, <1>10, <1>12, <1>16, <3>1
    <3>2. CASE e \notin N /\ e \in kept
      <4>1. access'[e] = access[e] /\ lastUsed'[e] = lastUsed[e]
        BY <1>7, <3>2
      <4> QED
        BY <1>1, <4>1
    <3>3. CASE e \notin N /\ e \notin kept
      <4>1. access'[e] = 0 /\ lastUsed'[e] = 0
        BY <1>7, <3>3
      <4> QED
        BY <4>1
    <3> QED
      BY <3>1, <3>2, <3>3
  <2> QED
    BY <1>8, <2>1
<1>20. Restock(kept, N)
  BY <1>5, <1>12, <1>14, <1>15, <1>18, <1>19 DEF Restock
<1> QED
  BY <1>2, <1>5, <1>20, RestockKeepsInv

\* A new access stamp gets an inode that no file has; a cached listing goes on
\* naming the old one.
LEMMA TouchKeepsInv ==
    ASSUME AccountingInv, NEW e \in Entries, Touch(e)
    PROVE  AccountingInv'
<1> USE DEF AccountingInv
<1>1. PICK low \in {1, created + 1} :
        /\ e \in present /\ created < MaxFiles
        /\ access' = [access EXCEPT ![e] = Min(FreeInodes(present, 1, low))]
        /\ lastUsed' = [lastUsed EXCEPT ![e] = clock] /\ created' = created + 1
        /\ inUse' \in {inUse, inUse \cup {e}} /\ UNCHANGED <<present, content, records, clock>>
  BY DEF Touch
<1> DEFINE free == FreeInodes(present, 1, low)
           new == Min(free)
<1>2. /\ present \subseteq Entries /\ inUse \subseteq present /\ created \in Nat /\ MaxFiles \in Nat
      /\ access \in [Entries -> Nat] /\ lastUsed \in [Entries -> Nat] /\ clock \in Nat /\ clock <= MaxClock
      /\ \A f \in Entries \ present : content[f] = {} /\ access[f] = 0 /\ records[f] = Nothing
  BY AccountingAssumption DEF Shape
<1>3. new \in 1 .. (created + 1) /\ new \notin Linked(present)
  <2>1. /\ free \in SUBSET Nat /\ IsFiniteSet(free) /\ Cardinality(free) >= 1
        /\ \A i \in free : i \in 1 .. (created + 1) /\ i \notin Linked(present)
    BY FreeInodesSuffice
  <2> HIDE DEF free
  <2>2. free # {}
    BY <2>1, FS_EmptySet
  <2> QED
    BY <2>1, <2>2, MinIsMember
<1>4. access' = [access EXCEPT ![e] = new]
  BY <1>1
<1> HIDE DEF free, new
<1>5. ASSUME NEW f \in present PROVE access[f] # new /\ \A r \in content[f] : r[1] # new
  <2>1. <<access[f], StampBytes>> \in Walk(f) /\ \A r \in content[f] : r \in Walk(f)
    BY DEF Walk
  <2>2. <<access[f], StampBytes>>[1] = access[f]
    OBVIOUS
  <2> QED
    BY <1>3, <2>1, <2>2 DEF Linked
<1>6. \A f \in Entries : \A r \in content[f] : r[1] # new
  BY <1>2, <1>5
<1>7. Shape'
  BY <1>1, <1>2, <1>3, <1>4 DEF Shape
<1>8. Contents'
  <2>1. content' = content /\ \A f \in Entries : \A r \in content[f] : r[1] \in Nat /\ r[1] <= created
    BY <1>1 DEF Contents, Pairs
  <2>2. \A f \in Entries : \A r \in content[f] : r[1] <= created'
    BY <1>1, <1>2, <2>1
  <2> QED
    BY <2>1, <2>2 DEF Contents
<1>9. Stamps(access)'
  <2>1. present' = present /\ content' = content /\ created' = created + 1
    BY <1>1
  <2>2. \A f \in present : access'[f] = IF f = e THEN new ELSE access[f]
    BY <1>2, <1>4
  <2>3. \A f \in present : access'[f] \in 1 .. created'
    BY <1>2, <1>3, <2>1, <2>2 DEF Stamps
  <2>4. \A f \in present, g \in Entries : \A r \in content[g] : r[1] # access'[f]
    BY <1>6, <2>2 DEF Stamps
  <2>5. \A f, g \in present : access'[f] = access'[g] => f = g
    BY <1>5, <2>2 DEF Stamps
  <2> QED
    BY <2>1, <2>3, <2>4, <2>5 DEF Stamps
<1>10. ListingShape'
  <2>1. PICK c : StampNames(c) /\ \A f \in present : Records(f) = Full(c)[f]
    BY DEF ListingShape
  <2>2. PICK d : d = [f \in Entries |-> IF f = e /\ records[e] = Nothing THEN new ELSE c[f]]
    OBVIOUS
  <2>3. \A f \in present : d[f] = c[f] \/ d[f] = new
    BY <1>2, <2>2
  <2>4. StampNames(d)'
    <3>1. \A f \in present : c[f] \in 1 .. (created + 1) /\ \A r \in content[f] : r[1] # c[f]
      BY <1>2, <2>1 DEF StampNames
    <3>2. \A f \in present : d[f] \in 1 .. (created + 1) /\ \A r \in content[f] : r[1] # d[f]
      BY <1>3, <1>5, <2>3, <3>1
    <3> QED
      BY <1>1, <3>2 DEF StampNames
  <2>5. ASSUME NEW f \in present PROVE Records(f)' = Full(d)'[f]
    <3>1. f \in Entries /\ content' = content /\ records' = records
      BY <1>1, <1>2
    <3>2. Full(d)'[f] = content[f] \cup {<<d[f], StampBytes>>} /\ Full(c)[f] = content[f] \cup {<<c[f], StampBytes>>}
      BY <3>1 DEF Full
    <3>3. CASE f = e /\ records[e] = Nothing
      <4>1. d[f] = new /\ access'[f] = new
        BY <1>2, <1>4, <2>2, <3>1, <3>3
      <4> QED
        BY <3>1, <3>2, <3>3, <4>1 DEF Records, Walk
    <3>4. CASE f = e /\ records[e] # Nothing
      <4>1. d[f] = c[f]
        BY <2>2, <3>1, <3>4
      <4>2. Records(f)' = records[f] /\ Records(f) = records[f]
        BY <3>1, <3>4 DEF Records
      <4> QED
        BY <2>1, <3>2, <4>1, <4>2
    <3>5. CASE f # e
      <4>1. d[f] = c[f] /\ access'[f] = access[f]
        BY <1>2, <1>4, <2>2, <3>1, <3>5
      <4>2. Records(f)' = Records(f)
        BY <3>1, <4>1 DEF Records, Walk
      <4> QED
        BY <2>1, <3>2, <4>1, <4>2
    <3> QED
      BY <3>3, <3>4, <3>5
  <2>6. present' = present
    BY <1>1
  <2> QED
    BY <2>4, <2>5, <2>6 DEF ListingShape
<1> QED
  BY <1>7, <1>8, <1>9, <1>10

\* Releasing a reader, or time passing, leaves every listing alone.
LEMMA IdleKeepsInv ==
    ASSUME AccountingInv, inUse' \subseteq inUse, clock' \in Nat, clock' <= MaxClock,
           UNCHANGED <<present, content, access, records, lastUsed, created>>
    PROVE  AccountingInv'
<1>1. Shape'
  BY DEF AccountingInv, Shape
<1>2. Contents' /\ Stamps(access)'
  BY DEF AccountingInv, Contents, Stamps
<1>3. ListingShape'
  <2>1. PICK c : StampNames(c) /\ \A f \in present : Records(f) = Full(c)[f]
    BY DEF AccountingInv, ListingShape
  <2>2. StampNames(c)'
    BY <2>1 DEF StampNames
  <2>3. \A f \in present : Records(f)' = Full(c)'[f]
    <3>1. \A f \in present : Records(f)' = Records(f)
      BY DEF Records, Walk
    <3>2. Full(c)' = Full(c)
      BY DEF Full
    <3> QED
      BY <2>1, <3>1, <3>2
  <2> QED
    BY <2>2, <2>3 DEF ListingShape
<1> QED
  BY <1>1, <1>2, <1>3 DEF AccountingInv

\* The invariant holds of an empty store and every operation keeps it.
LEMMA InitHasInv ==
    ASSUME AccountingInit
    PROVE  AccountingInv
<1> USE DEF AccountingInit
<1>1. Shape
  BY AccountingAssumption DEF Shape
<1>2. Contents /\ Stamps(access)
  BY FS_EmptySet DEF Contents, Stamps
<1>3. ListingShape
  BY DEF ListingShape, StampNames
<1> QED
  BY <1>1, <1>2, <1>3 DEF AccountingInv

\* Every operation under the manager lock keeps the invariant.
LEMMA NextKeepsInv ==
    ASSUME AccountingInv, [AccountingNext]_accountingVars
    PROVE  AccountingInv'
<1>0. clock \in Nat /\ clock <= MaxClock /\ MaxClock \in Nat
  BY AccountingAssumption DEF AccountingInv, Shape
<1>1. CASE Prune
  BY <1>1, PruneKeepsInv
<1>2. CASE Inspect
  BY <1>2, InspectKeepsInv
<1>3. CASE Tick
  BY <1>0, <1>3, IdleKeepsInv DEF Tick
<1>4. ASSUME NEW N \in Publications, PublishEntries(N) PROVE AccountingInv'
  BY <1>4, PublishKeepsInv
<1>5. ASSUME NEW e \in Entries, Touch(e) PROVE AccountingInv'
  BY <1>5, TouchKeepsInv
<1>6. ASSUME NEW e \in Entries, ReleaseLease(e) PROVE AccountingInv'
  <2>1. /\ inUse' \subseteq inUse /\ clock' = clock
        /\ UNCHANGED <<present, content, access, records, lastUsed, created>>
    BY <1>6 DEF ReleaseLease
  <2> QED
    BY <1>0, <2>1, IdleKeepsInv
<1>7. CASE UNCHANGED accountingVars
  <2>1. /\ inUse' \subseteq inUse /\ clock' = clock
        /\ UNCHANGED <<present, content, access, records, lastUsed, created>>
    BY <1>7 DEF accountingVars
  <2> QED
    BY <1>0, <2>1, IdleKeepsInv
<1> QED
  BY <1>1, <1>2, <1>3, <1>4, <1>5, <1>6, <1>7 DEF AccountingNext

-----------------------------------------------------------------------------
(* The theorems. *)

\* A cached listing of an entry is wrong about no more than its access stamp, and an
\* inode is one file: what every count of the store rests on, also where inode
\* numbers are used again.
THEOREM AccountingInvariantHolds == AccountingSpec => []AccountingInv
<1>1. AccountingInit => AccountingInv
  BY InitHasInv
<1>2. AccountingInv /\ [AccountingNext]_accountingVars => AccountingInv'
  BY NextKeepsInv
<1> QED
  BY <1>1, <1>2, PTL DEF AccountingSpec

\* Inodes, listings and stamps have their types, and readers hold entries.
THEOREM AccountingTypeHolds == AccountingSpec => []AccountingTypeOK
<1>1. AccountingInv => AccountingTypeOK
  <2> SUFFICES ASSUME AccountingInv PROVE AccountingTypeOK
    OBVIOUS
  <2>1. /\ created \in Nat /\ created <= MaxFiles /\ MaxFiles \in Nat
        /\ clock \in Nat /\ clock <= MaxClock /\ MaxClock \in Nat
        /\ present \subseteq Entries /\ inUse \subseteq present
        /\ \A e \in Entries \ present : access[e] = 0 /\ records[e] = Nothing
        /\ \A e \in present : access[e] \in 1 .. created
    BY AccountingAssumption DEF AccountingInv, Shape, Stamps
  <2>2. \A e \in present : access[e] \in 1 .. created /\ 0 \notin 1 .. created
    BY <2>1
  <2> QED
    BY <2>1, <2>2 DEF AccountingTypeOK
<1> QED
  BY <1>1, AccountingInvariantHolds, PTL

\* An inspection never reports too much, is exact while the listings agree, and
\* splits by leases exactly: InspectionIsExact, for every store and filesystem.
THEOREM InspectionsAreExact == AccountingSpec => []InspectionIsExact
<1>1. AccountingInv => InspectionIsExact
  BY InspectionFromInv
<1> QED
  BY <1>1, AccountingInvariantHolds, PTL

\* While the listings agree a prune removes nothing that preview_prune would not
\* have named and reports the bytes it leaves: PruneIsAnnounced, for every store.
THEOREM PrunesAreAnnounced == AccountingSpec => []PruneIsAnnounced
<1>1. AccountingInv => PruneIsAnnounced
  BY AgreementIsExact, PruneOutcome DEF PruneIsAnnounced
<1> QED
  BY <1>1, AccountingInvariantHolds, PTL

\* While the listings agree pruning reaches its target unless only entries with a
\* reader are left: PruneReachesTarget, for every store.
THEOREM PrunesReachTheTarget == AccountingSpec => PruneReachesTarget
<1>1. AccountingInv /\ [AccountingNext]_accountingVars => [Prune /\ ListingsAgree => Allocated(present)' <= PhysicalLimit \/ present' \subseteq inUse]_accountingVars
  <2> SUFFICES ASSUME AccountingInv, Prune, ListingsAgree
               PROVE  Allocated(present)' <= PhysicalLimit \/ present' \subseteq inUse
    OBVIOUS
  <2> DEFINE gone == PruneReport(TRUE).removed
             kept == present \ gone
  <2>1. Under(kept, 0) \/ \A e \in kept : ~Unused(e)
    BY AgreementIsExact, PruneOutcome
  <2>2. present' = kept /\ Drop(gone)
    BY DEF Prune
  <2> HIDE DEF gone
  <2>3. \A e \in kept : Walk(e)' = Walk(e)
    <3>1. present \subseteq Entries
      BY DEF AccountingInv, Shape
    <3> QED
      BY <2>2, <3>1 DEF Walk, Drop
  <2>4. Allocated(present)' = Allocated(kept) /\ Allocated(kept) \in Nat
    <3>1. UNION {Walk(e)' : e \in kept} = UNION {Walk(e) : e \in kept}
      BY <2>3
    <3>2. Allocated(present)' = BytesOf(UNION {Walk(e)' : e \in present'})
      BY DEF Allocated, BytesOf
    <3>3. Allocated(kept) \in Nat
      BY AllocatedMonotone
    <3> QED
      BY <2>2, <3>1, <3>2, <3>3 DEF Allocated
  <2> QED
    BY <2>1, <2>2, <2>4, AccountingAssumption DEF Under, Unused
<1> QED
  BY <1>1, AccountingInvariantHolds, PTL DEF AccountingSpec, PruneReachesTarget
=============================================================================
