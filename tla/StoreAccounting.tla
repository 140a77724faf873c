--------------------------- MODULE StoreAccounting ---------------------------
(***************************************************************************)
(* How an Oven store counts the disk blocks it occupies: files shared by   *)
(* hard links are charged once, by inode, from a listing cached in a       *)
(* sidecar file of the entry; the access stamp of an entry is replaced by  *)
(* a new file each time it is used.  What prune removes, what preview_prune *)
(* announces and what an inspection reports all rest on these counts.      *)
(*                                                                         *)
(* Every operation holds the manager lock (OvenStore) and is one action.   *)
(* Only the aggregate physical allowance binds here; the allowances of a   *)
(* domain are in OvenStore, the catalog that excuses a sweep in            *)
(* StoreCatalog.                                                           *)
(***************************************************************************)
EXTENDS Naturals, FiniteSets, Functions, SequencesExt

CONSTANTS
    Entries, Nothing,
    FilesOf,        \* the content keys of each entry's files; keys are numbers
    SizeOf,         \* allocated bytes of the file with a key
    StampBytes,     \* allocated bytes of an access stamp
    Publications,   \* the sets of entries that are staged together
    Superseded,     \* the entries of a superseded compiler release
    PhysicalLimit,
    MaxFiles,       \* bound: files that are created
    MaxClock        \* bound: seconds that pass

ASSUME AccountingAssumption ==
    /\ Entries \subseteq Nat /\ IsFiniteSet(Entries) /\ Superseded \subseteq Entries
    /\ DOMAIN FilesOf = Entries
    /\ \A e \in Entries : FilesOf[e] \subseteq DOMAIN SizeOf /\ IsFiniteSet(FilesOf[e])
    /\ SizeOf \in [DOMAIN SizeOf -> Nat] /\ DOMAIN SizeOf \subseteq Nat
    /\ Publications \subseteq SUBSET Entries
    /\ StampBytes \in Nat /\ PhysicalLimit \in Nat /\ MaxFiles \in Nat /\ MaxClock \in Nat

VARIABLES
    present,   \* the entries on disk
    content,   \* the <<inode, bytes>> of each entry's immutable files
    access,    \* the inode of each entry's last-used file
    records,   \* each entry's cached listing, or Nothing
    lastUsed, clock,
    inUse,     \* the entries with a live reader
    created    \* how many files were created; no inode number is higher

accountingVars == <<present, content, access, records, lastUsed, clock, inUse, created>>

AccountingInit ==
    /\ present = {}
    /\ content = [e \in Entries |-> {}]
    /\ access = [e \in Entries |-> 0]
    /\ records = [e \in Entries |-> Nothing]
    /\ lastUsed = [e \in Entries |-> 0]
    /\ clock = 0
    /\ inUse = {}
    /\ created = 0

-----------------------------------------------------------------------------
(* Files and their inodes. *)

BytesOf(R) == SumFunctionOnSet([r \in R |-> r[2]], R)

\* directory_file_records: a fresh walk, sidecar files left out.
Walk(e) == content[e] \cup {<<access[e], StampBytes>>}

\* What the entries of S occupy.
Allocated(S) == BytesOf(UNION {Walk(e) : e \in S})

Linked(S) == {r[1] : r \in UNION {Walk(e) : e \in S}}

Rank(x, S) == Cardinality({y \in S : y <= x})
Nth(S, n) == CHOOSE x \in S : Rank(x, S) = n

\* The inode numbers from low on that n new files may get while the entries of S
\* are on disk.  A filesystem hands out numbers no file has had (low = created + 1)
\* or first the ones that are free again (low = 1).
FreeInodes(S, n, low) == (low .. (created + n)) \ Linked(S)

-----------------------------------------------------------------------------
(* Counting. *)

\* The entries of S as they are listed: by identity, or by last use.
Older(e, f) == lastUsed[e] < lastUsed[f] \/ (lastUsed[e] = lastUsed[f] /\ e < f)
IdentityOrder(S) == CHOOSE s \in SetToSeqs(S) : \A i, j \in DOMAIN s : i < j => s[i] < s[j]
Oldest(S) == CHOOSE s \in SetToSeqs(S) : \A i, j \in DOMAIN s : i < j => Older(s[i], s[j])
Position(order) == [e \in ToSet(order) |-> CHOOSE i \in DOMAIN order : order[i] = e]

\* cached_directory_file_records
Records(e) == IF records[e] # Nothing THEN records[e] ELSE Walk(e)

\* Collecting the entries caches every listing that was not cached yet.
Cached(S) == [e \in Entries |-> IF e \in S THEN Records(e) ELSE Nothing]

\* assign_unique_entry_physical_bytes over the entries of S, summed: an entry is
\* charged for the files that none before it in order has linked.
Seen(order, S, e) ==
    {r[1] : r \in UNION {Records(f) : f \in {f \in S : Position(order)[f] < Position(order)[e]}}}
Own(order, S, e) == BytesOf({r \in Records(e) : r[1] \notin Seen(order, S, e)})
ChargedBytes(order, S) == SumFunctionOnSet([e \in S |-> Own(order, S, e)], S)

\* physical_bytes_by_lease: allocations by inode, protected when any entry
\* that links them is active.
LastEntryDecides(e) ==
    IF e \in inUse THEN {i \in Linked({e}) : \A f \in present : i \in Linked({f}) => f <= e} ELSE {}
ProtectedInodes(e) == IF e \in inUse THEN Linked({e}) ELSE {}
ActiveInodes == UNION {ProtectedInodes(e) : e \in present}
Reclaimable == BytesOf({r \in UNION {Walk(e) : e \in present} : r[1] \notin ActiveInodes})
Active      == BytesOf({r \in UNION {Walk(e) : e \in present} : r[1] \in ActiveInodes})

-----------------------------------------------------------------------------
(* Sweeping. *)

\* try_lock_entry
Unused(e) == e \notin inUse

\* One removal: what is left is charged anew, for a block goes with its last link.
SubtractsWhole(order, acc, e) ==
    [kept |-> acc.kept \ {e}, bytes |-> acc.bytes - BytesOf(Records(e))]
Removed(order, acc, e) ==
    LET kept == acc.kept \ {e}
    IN  [kept |-> kept, bytes |-> ChargedBytes(order, kept)]

Collection(S) == [kept |-> S, bytes |-> ChargedBytes(IdentityOrder(S), S)]

\* prune_to_limits over the entries of S with bytes pending.
LimitsVisit(S, pending, acc, e) ==
    IF acc.bytes + pending <= PhysicalLimit \/ ~Unused(e) THEN acc ELSE Removed(Oldest(S), acc, e)
ToLimits(S, pending) ==
    FoldLeft(LAMBDA acc, e : LimitsVisit(S, pending, acc, e), Collection(S), Oldest(S))

\* reclaim_superseded_release_entries
SupersededVisit(S, acc, e) ==
    IF e \notin Superseded \/ ~Unused(e) THEN acc ELSE Removed(IdentityOrder(S), acc, e)
WithoutSuperseded(S) ==
    FoldLeft(LAMBDA acc, e : SupersededVisit(S, acc, e), Collection(S), IdentityOrder(S))

Report(S, pass) == [removed |-> S \ pass.kept, after |-> pass.bytes]

\* merge_prune_reports
MergePruneReports(first, second) ==
    [removed |-> first.removed \cup second.removed, after |-> Min({first.after, second.after})]

\* Bug: a preview that finds superseded entries leaves the retention pass out.
PreviewStopsEarly(apply) ==
    LET first == WithoutSuperseded(present)
        second == ToLimits(first.kept, 0)
    IN  IF present \cap Superseded = {}
        THEN Report(present, ToLimits(present, 0))
        ELSE IF apply THEN MergePruneReports(Report(present, first), Report(first.kept, second))
        ELSE Report(present, first)

\* prune_with_superseded_release_reclamation: the second pass measures the
\* disk, where only an applied first pass has removed anything.
PruneReport(apply) ==
    LET first == WithoutSuperseded(present)
        rest  == IF apply THEN first.kept ELSE present
    IN  IF present \cap Superseded = {}
        THEN Report(present, ToLimits(present, 0))
        ELSE MergePruneReports(Report(present, first), Report(rest, ToLimits(rest, 0)))

-----------------------------------------------------------------------------
(* Operations under the manager lock. *)

Drop(gone) ==
    /\ content' = [e \in Entries |-> IF e \in gone THEN {} ELSE content[e]]
    /\ access' = [e \in Entries |-> IF e \in gone THEN 0 ELSE access[e]]
    /\ lastUsed' = [e \in Entries |-> IF e \in gone THEN 0 ELSE lastUsed[e]]

Prune ==
    LET gone == PruneReport(TRUE).removed
    IN /\ present' = present \ gone
       /\ records' = Cached(present \ gone)
       /\ Drop(gone)
       /\ UNCHANGED <<clock, inUse, created>>

\* inspect and preview_prune change nothing but the cached listings.
Inspect ==
    /\ records' = Cached(present)
    /\ UNCHANGED <<present, content, access, lastUsed, clock, inUse, created>>

\* The bytes of the files of N: one file per distinct content, linked by every
\* entry of N that has it, and one access stamp per entry.
Keys(N) == UNION {FilesOf[e] : e \in N}
StagedBytes(N) == SumFunctionOnSet(SizeOf, Keys(N)) + StampBytes * Cardinality(N)

\* Those files are created beside the entries of kept.
Stage(N, kept, low) ==
    LET new == Cardinality(Keys(N)) + Cardinality(N)
        free == FreeInodes(kept, new, low)
        inode == [k \in Keys(N) |-> Nth(free, Rank(k, Keys(N)))]
        stamps == [e \in N |-> Nth(free, Cardinality(Keys(N)) + Rank(e, N))]
    IN /\ created + new <= MaxFiles
       /\ content' = [e \in Entries |->
            CASE e \in N    -> {<<inode[k], SizeOf[k]>> : k \in FilesOf[e]}
              [] e \in kept -> content[e]
              [] OTHER      -> {}]
       /\ access' = [e \in Entries |-> CASE e \in N -> stamps[e] [] e \in kept -> access[e] [] OTHER -> 0]
       /\ lastUsed' = [e \in Entries |-> CASE e \in N -> clock [] e \in kept -> lastUsed[e] [] OTHER -> 0]
       /\ created' = created + new

\* publish and publish_batch of the entries of N, none of them retained, after
\* the admission sweep, unless a catalog excuses it.
PublishEntries(N) ==
    \E sweeps \in BOOLEAN, low \in {1, created + 1} :
    LET kept == IF sweeps THEN ToLimits(present, StagedBytes(N)).kept ELSE present
    IN /\ N \cap present = {}
       /\ ~sweeps => ChargedBytes(IdentityOrder(present), present) + StagedBytes(N) <= PhysicalLimit
       /\ present' = kept \cup N
       /\ records' = IF sweeps THEN Cached(kept) ELSE records
       /\ Stage(N, kept, low)
       /\ UNCHANGED <<clock, inUse>>

\* touch_entry writes a new file and renames it over the access stamp: by a
\* selection, which takes a lease, or by a publication that finds the entry.
Touch(e) ==
    \E low \in {1, created + 1} :
       /\ e \in present
       /\ created < MaxFiles
       /\ access' = [access EXCEPT ![e] = Min(FreeInodes(present, 1, low))]
       /\ lastUsed' = [lastUsed EXCEPT ![e] = clock]
       /\ created' = created + 1
       /\ inUse' \in {inUse, inUse \cup {e}}
       /\ UNCHANGED <<present, content, records, clock>>

ReleaseLease(e) ==
    /\ e \in inUse
    /\ inUse' = inUse \ {e}
    /\ UNCHANGED <<present, content, access, records, lastUsed, clock, created>>

Tick ==
    /\ clock < MaxClock
    /\ clock' = clock + 1
    /\ UNCHANGED <<present, content, access, records, lastUsed, inUse, created>>

AccountingNext ==
    \/ Prune \/ Inspect \/ Tick
    \/ \E N \in Publications : PublishEntries(N)
    \/ \E e \in Entries : Touch(e) \/ ReleaseLease(e)

AccountingSpec == AccountingInit /\ [][AccountingNext]_accountingVars

-----------------------------------------------------------------------------
(* Properties. *)

\* Inodes, listings and stamps have their types, and readers hold entries.
AccountingTypeOK ==
    /\ present \subseteq Entries /\ inUse \subseteq present
    /\ \A e \in Entries : /\ e \in present <=> access[e] \in 1..created
                          /\ records[e] # Nothing => e \in present
    /\ created \in 0..MaxFiles /\ clock \in 0..MaxClock

\* The inode numbers an entry's listing, cached or fresh, names.
Listed(e) == {r[1] : r \in Records(e)}

\* A number that two listings name is that of a file both entries have.  A
\* filesystem that gives the number of a replaced access stamp to another file
\* can undo this; nothing else does.
ListingsAgree ==
    \A e, f \in present : e # f => Listed(e) \cap Listed(f) \subseteq Linked({e}) \cap Linked({f})

\* Pruning really brings the store under its target, or leaves only what
\* readers hold: a removal that frees a shared block only in part is not
\* counted as if it had freed all of it.
PruneReachesTarget ==
    [][Prune /\ ListingsAgree =>
          Allocated(present)' <= PhysicalLimit \/ present' \subseteq inUse]_accountingVars

\* An inspection never charges more than the store's files occupy, and as long
\* as the listings agree exactly that, although cached listings name access
\* stamps that have since been replaced.  Its split by leases is exact whatever
\* the listings say: the two parts add up, and the reclaimable part is what
\* removing every entry without a reader would free.
InspectionIsExact ==
    /\ ChargedBytes(IdentityOrder(present), present) <= Allocated(present)
    /\ ListingsAgree => ChargedBytes(IdentityOrder(present), present) = Allocated(present)
    /\ Reclaimable + Active = Allocated(present)
    /\ Reclaimable = Allocated(present) - Allocated(inUse)

\* A prune keeps to its word while the listings agree: the bytes it reports are
\* those it leaves, and every entry it removes is one preview_prune would have
\* named, although the preview's second pass sweeps a store the first pass did
\* not change.
PruneIsAnnounced ==
    LET prune == PruneReport(TRUE)
    IN  ListingsAgree =>
        /\ prune.after = Allocated(present \ prune.removed)
        /\ prune.removed \subseteq PruneReport(FALSE).removed

-----------------------------------------------------------------------------
(* What a doc or a comment says and the code does not do. *)

\* A listing taken once stays valid for the entry's lifetime: counting by cached
\* listings gives what a fresh walk would.
ListingsStayValid == ChargedBytes(IdentityOrder(present), present) = Allocated(present)

\* A dry run reports the allocation the user would actually be left with, also
\* when its first pass only pretends to remove the superseded entries.
PreviewReportsWhatIsLeft ==
    ListingsAgree => PruneReport(FALSE).after = Allocated(present \ PruneReport(TRUE).removed)
=============================================================================
