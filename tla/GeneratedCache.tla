--------------------------- MODULE GeneratedCache ---------------------------
(***************************************************************************)
(* The shared cache of generated Cargo targets.  Processes acquire a       *)
(* compatibility domain under the cache-wide manager lock, build in it     *)
(* under a shared lock of its activity file, and on release measure it     *)
(* and prune the cache.  The manager lock covers acquisition and pruning   *)
(* but not the measurement at release.                                     *)
(*                                                                         *)
(* Locks belong to open files, so each is held on the inode that was       *)
(* opened, which need not be the one the path names by then.               *)
(***************************************************************************)
EXTENDS Naturals, Sequences, FiniteSets, FiniteSetsExt

CONSTANTS
  Procs,         \* processes and tasks that use the cache
  Domains,       \* compatibility domains (identities)
  Inodes,        \* inode numbers of activity files; 0 is none
  MaxBytes,      \* the cache's soft limit
  MaxEntryBytes, \* the bound of one idle domain
  MaxSize,       \* bound: how far a build grows a target
  None           \* nobody, no metadata

ASSUME CacheAssumption ==
  /\ IsFiniteSet(Procs) /\ IsFiniteSet(Domains)
  /\ Inodes \subseteq Nat \ {0} /\ Cardinality(Inodes) > 2 * Cardinality(Procs) + Cardinality(Domains)
  /\ MaxBytes \in Nat /\ MaxEntryBytes \in Nat /\ MaxSize \in Nat
  /\ None \notin Procs

VARIABLES
  manager,  \* holder of .manager.lock
  present,  \* domains whose directory exists
  active,   \* domain -> inode its .active.lock names, 0 if it has none
  meta,     \* domain -> entry.json: size on record and whether it was measured, or None
  size,     \* domain -> bytes below its directory
  lru,      \* domains, least recently used first
  pc,       \* process -> where it is
  op,       \* process -> "acquire", "release", "prune", "select" or "inspect"
  dom,      \* process -> the domain it acquires, uses, releases or was told to remove
  fd,       \* process -> inode of that domain's activity file it has open
  known,    \* process -> logical_bytes it will put on record
  plan,     \* process -> entries its sweep has yet to visit, with their sizes
  total,    \* process -> projected_bytes of its sweep
  victim,   \* process -> inode of the entry it removes
  raced     \* history: a release measured a domain that another process used

files == <<present, active, meta, size, lru>>
sweep == <<plan, total, victim>>
task == <<op, dom, known>>
vars == <<manager, files, pc, task, fd, sweep, raced>>

SweepPcs == {"collect", "sweep", "unlink", "recount"}

TypeOK ==
  /\ manager \in Procs \cup {None}
  /\ present \subseteq Domains
  /\ active \in [Domains -> Inodes \cup {0}]
  /\ \A d \in Domains : meta[d] = None \/ meta[d] \in [bytes: Nat, measured: BOOLEAN]
  /\ size \in [Domains -> Nat]
  /\ pc \in [Procs -> SweepPcs \cup {"idle", "manager", "open", "try", "measure", "shared",
                                     "record", "leased", "reopen", "retry", "refresh", "discard",
                                     "write"}]
  /\ fd \in [Procs -> Inodes \cup {0}] /\ victim \in [Procs -> Inodes \cup {0}]
  /\ total \in [Procs -> Nat] /\ known \in [Procs -> Nat]

Init ==
  /\ manager = None
  /\ present = {} /\ active = [d \in Domains |-> 0]
  /\ meta = [d \in Domains |-> None] /\ size = [d \in Domains |-> 0]
  /\ lru \in {s \in [1 .. Cardinality(Domains) -> Domains] : \A i, j \in DOMAIN s : s[i] = s[j] => i = j}
  /\ pc = [p \in Procs |-> "idle"]
  /\ op = [p \in Procs |-> None] /\ dom = [p \in Procs |-> None]
  /\ fd = [p \in Procs |-> 0] /\ victim = [p \in Procs |-> 0]
  /\ known = [p \in Procs |-> 0]
  /\ plan = [p \in Procs |-> <<>>] /\ total = [p \in Procs |-> 0]
  /\ raced = FALSE

-----------------------------------------------------------------------------
(* Files and advisory locks. *)

Set(f, p, v) == [f EXCEPT ![p] = v]

\* The operation of p is over and its files are closed.
Idle(p) ==
  /\ pc' = Set(pc, p, "idle") /\ op' = Set(op, p, None) /\ dom' = Set(dom, p, None)
  /\ known' = Set(known, p, 0) /\ fd' = Set(fd, p, 0)
  /\ plan' = Set(plan, p, <<>>) /\ total' = Set(total, p, 0) /\ victim' = Set(victim, p, 0)
  /\ manager' = IF manager = p THEN None ELSE manager

\* After lock_shared, until the lease's file is closed.
Leases(p) == pc[p] \in SweepPcs \cup {"record", "leased"} /\ op[p] = "acquire"

\* After its try_lock, until a release has written what it measured.
Measures(p) == pc[p] \in {"refresh", "discard", "write"} /\ op[p] = "release"

InUse(d)     == \E p \in Procs : Leases(p) /\ dom[p] = d
Refreshed(d) == \E p \in Procs : Measures(p) /\ dom[p] = d

Shared(i)    == {p \in Procs : fd[p] = i /\ Leases(p)}
Exclusive(i) == {p \in Procs : \/ fd[p] = i /\ pc[p] \in {"measure", "refresh", "discard", "write"}
                               \/ victim[p] = i /\ pc[p] = "unlink"}
Unlocked(i)  == Shared(i) = {} /\ Exclusive(i) = {}

\* collect_entries takes each activity lock for an instant to see who holds it,
\* so for another process's try_lock the lock may seem taken.
Probed(p) == \E q \in Procs \ {p} : pc[q] \in {"collect", "recount"}

\* An inode that no path names and nobody has open.
FreshInode ==
  CHOOSE i \in Inodes : /\ \A d \in Domains : active[d] # i
                        /\ \A p \in Procs : fd[p] # i /\ victim[p] # i

\* open_active_lock creates the file if it is missing.
OpenedInode(d) == IF active[d] = 0 THEN FreshInode ELSE active[d]

\* A domain whose metadata is written now was used last.
UsedNow(d) == Append(SelectSeq(lru, LAMBDA e : e # d), d)

\* measure_and_enforce_entry_bound: a domain within the bound is measured at
\* once, the target of a larger one is discarded first.
MeasureAndEnforce(p, then) ==
  IF size[dom[p]] <= MaxEntryBytes
  THEN known' = Set(known, p, size[dom[p]]) /\ pc' = Set(pc, p, then)
  ELSE pc' = Set(pc, p, "discard") /\ UNCHANGED known

-----------------------------------------------------------------------------
(* acquire_managed_target, up to the lease. *)

Acquire(p, d) ==
  /\ pc[p] = "idle"
  /\ pc' = Set(pc, p, "manager") /\ op' = Set(op, p, "acquire") /\ dom' = Set(dom, p, d)
  /\ UNCHANGED <<manager, files, fd, known, sweep, raced>>

\* acquire_manager_lock blocks; a sweep or the opening of the domain follows.
LockManager(p) ==
  /\ pc[p] = "manager" /\ manager = None
  /\ manager' = p
  /\ pc' = Set(pc, p, IF op[p] = "acquire" THEN "open" ELSE "collect")
  /\ UNCHANGED <<files, task, fd, sweep, raced>>

\* create_dir_all and open_active_lock.
OpenDomain(p) ==
  LET d == dom[p]
  IN /\ pc[p] = "open"
     /\ present' = present \cup {d}
     /\ active' = Set(active, d, OpenedInode(d))
     /\ lru' = IF d \in present THEN lru ELSE UsedNow(d)
     /\ fd' = Set(fd, p, OpenedInode(d))
     /\ pc' = Set(pc, p, "try")
     /\ UNCHANGED <<manager, meta, size, task, sweep, raced>>

\* try_lock: an idle domain is looked at before it is used; of one in use the
\* size on record is taken over.
TryLock(p) ==
  LET d == dom[p]
  IN /\ pc[p] = "try"
     /\ \/ Unlocked(fd[p]) /\ pc' = Set(pc, p, "measure") /\ UNCHANGED known
        \/ /\ ~Unlocked(fd[p]) \/ Probed(p)
           /\ known' = Set(known, p, IF meta[d] = None THEN 0 ELSE meta[d].bytes)
           /\ pc' = Set(pc, p, "shared")
     /\ UNCHANGED <<manager, files, op, dom, fd, sweep, raced>>

\* A domain never measured, or larger than the bound when it was, is measured;
\* of any other the record is taken over.  Then the lock is given up.
MeasureDomain(p) ==
  LET d == dom[p]
      measured == meta[d] # None /\ meta[d].measured /\ meta[d].bytes <= MaxEntryBytes
  IN /\ pc[p] = "measure"
     /\ IF measured
        THEN known' = Set(known, p, meta[d].bytes) /\ pc' = Set(pc, p, "shared")
        ELSE MeasureAndEnforce(p, "shared")
     /\ UNCHANGED <<manager, files, op, dom, fd, sweep, raced>>

\* remove_dir_all of the target, file by file, and the second measurement.
Discard(p) ==
  /\ pc[p] = "discard"
  /\ \E left \in 0 .. MaxSize :
       /\ left < size[dom[p]] \/ left = 0
       /\ size' = Set(size, dom[p], left)
       /\ IF left = 0
          THEN known' = Set(known, p, 0) /\ pc' = Set(pc, p, IF op[p] = "acquire" THEN "shared" ELSE "write")
          ELSE UNCHANGED <<known, pc>>
  /\ UNCHANGED <<manager, present, active, meta, lru, op, dom, fd, sweep, raced>>

\* lock_shared waits for a process that measures the domain.
LockShared(p) ==
  /\ pc[p] = "shared" /\ Exclusive(fd[p]) = {}
  /\ pc' = Set(pc, p, "collect") /\ raced' = (raced \/ Refreshed(dom[p]))
  /\ UNCHANGED <<manager, files, task, fd, sweep>>

\* Mutant: the flag of the last measurement is carried over.
RecordKeepsFlag(p) ==
  LET d == dom[p]
  IN /\ pc[p] = "record"
     /\ meta' = Set(meta, d, [bytes |-> known[p], measured |-> meta[d] # None])
     /\ lru' = UsedNow(d)
     /\ manager' = None
     /\ pc' = Set(pc, p, "leased") /\ known' = Set(known, p, 0)
     /\ UNCHANGED <<present, active, size, op, dom, fd, sweep, raced>>

\* write_metadata, flagged as unmeasured while in use; the manager is released.
Record(p) ==
  LET d == dom[p]
  IN /\ pc[p] = "record"
     /\ meta' = Set(meta, d, [bytes |-> known[p], measured |-> FALSE])
     /\ lru' = UsedNow(d)
     /\ manager' = None
     /\ pc' = Set(pc, p, "leased") /\ known' = Set(known, p, 0)
     /\ UNCHANGED <<present, active, size, op, dom, fd, sweep, raced>>

\* Cargo writes below the target directory while the lease is held.
Build(p) ==
  /\ pc[p] = "leased" /\ size[dom[p]] < MaxSize
  /\ size' = [size EXCEPT ![dom[p]] = @ + 1]
  /\ UNCHANGED <<manager, present, active, meta, lru, pc, task, fd, sweep, raced>>

-----------------------------------------------------------------------------
(* Drop of a lease. *)

\* release_activity_lock.
Release(p) ==
  /\ pc[p] = "leased"
  /\ pc' = Set(pc, p, "reopen") /\ op' = Set(op, p, "release") /\ fd' = Set(fd, p, 0)
  /\ UNCHANGED <<manager, files, dom, known, sweep, raced>>

\* refresh_size_if_idle opens the activity file again, without the manager
\* lock; a directory that is gone ends the refresh.
Reopen(p) ==
  LET d == dom[p]
  IN /\ pc[p] = "reopen"
     /\ IF d \in present
        THEN /\ active' = Set(active, d, OpenedInode(d))
             /\ fd' = Set(fd, p, OpenedInode(d)) /\ pc' = Set(pc, p, "retry")
        ELSE pc' = Set(pc, p, "manager") /\ UNCHANGED <<active, fd>>
     /\ UNCHANGED <<manager, present, meta, size, lru, task, sweep, raced>>

\* Whoever still holds the domain leaves the measurement to its last user.
Retry(p) ==
  /\ pc[p] = "retry"
  /\ \/ /\ Unlocked(fd[p])
        /\ pc' = Set(pc, p, "refresh") /\ raced' = (raced \/ InUse(dom[p]))
        /\ UNCHANGED fd
     \/ /\ ~Unlocked(fd[p]) \/ Probed(p)
        /\ pc' = Set(pc, p, "manager") /\ fd' = Set(fd, p, 0) /\ UNCHANGED raced
  /\ UNCHANGED <<manager, files, task, sweep>>

\* Mutant: the measurement waits for the manager lock with the domain locked.
RefreshUnderManager(p) ==
  /\ pc[p] = "refresh" /\ manager = None
  /\ MeasureAndEnforce(p, "write")
  /\ UNCHANGED <<manager, files, op, dom, fd, sweep, raced>>

\* The release is through with the domain and goes on to prune.
LeaveDomain(p) == pc' = Set(pc, p, "manager") /\ fd' = Set(fd, p, 0) /\ known' = Set(known, p, 0)

\* The measurement, unless there is no metadata or the domain was measured
\* within the interval, as it may be whenever it was measured at all.
Refresh(p) ==
  LET d == dom[p]
  IN /\ pc[p] = "refresh"
     /\ \/ meta[d] # None /\ MeasureAndEnforce(p, "write") /\ UNCHANGED fd
        \/ (meta[d] # None => meta[d].measured) /\ LeaveDomain(p)
     /\ UNCHANGED <<manager, files, op, dom, sweep, raced>>

\* The metadata is read again and written with the size; if it is gone by
\* then, that error ends the refresh.
WriteMeasured(p) ==
  LET d == dom[p]
  IN /\ pc[p] = "write"
     /\ IF meta[d] = None
        THEN UNCHANGED <<meta, lru>>
        ELSE meta' = Set(meta, d, [bytes |-> known[p], measured |-> TRUE]) /\ lru' = UsedNow(d)
     /\ LeaveDomain(p)
     /\ UNCHANGED <<manager, present, active, size, op, dom, sweep, raced>>

\* An I/O error ends the refresh where it stands; the drop ignores it.
RefreshFails(p) ==
  /\ Measures(p)
  /\ LeaveDomain(p)
  /\ UNCHANGED <<manager, files, op, dom, sweep, raced>>

-----------------------------------------------------------------------------
(* Inspection and pruning. *)

\* The prune command, to the limit or of one named domain, and the inspect
\* command, which takes no lock.
Prune(p) ==
  /\ pc[p] = "idle"
  /\ pc' = Set(pc, p, "manager") /\ op' = Set(op, p, "prune")
  /\ UNCHANGED <<manager, files, dom, known, fd, sweep, raced>>

PruneSelected(p, d) ==
  /\ pc[p] = "idle"
  /\ pc' = Set(pc, p, "manager") /\ op' = Set(op, p, "select") /\ dom' = Set(dom, p, d)
  /\ UNCHANGED <<manager, files, known, fd, sweep, raced>>

Inspect(p) ==
  /\ pc[p] = "idle"
  /\ pc' = Set(pc, p, "collect") /\ op' = Set(op, p, "inspect")
  /\ UNCHANGED <<manager, files, dom, known, fd, sweep, raced>>

\* What collect_entries takes a domain's size to be: what it measures when it
\* is asked to, or when nobody uses a domain of unknown size, else the record.
EntryBytes(p, d) ==
  LET used == active[d] # 0 /\ ~Unlocked(active[d])
  IN IF op[p] \in {"prune", "select", "inspect"} \/ (~used /\ (meta[d] = None \/ ~meta[d].measured))
     THEN size[d]
     ELSE IF meta[d] = None THEN 0 ELSE meta[d].bytes

Collect(p) ==
  LET found == SelectSeq(lru, LAMBDA d : d \in present /\ (op[p] = "select" => d = dom[p]))
  IN /\ pc[p] = "collect"
     /\ IF op[p] = "inspect"
        THEN Idle(p)
        ELSE /\ plan' = Set(plan, p, [i \in DOMAIN found |-> <<found[i], EntryBytes(p, found[i])>>])
             /\ total' = Set(total, p, MapThenSumSet(LAMBDA d : EntryBytes(p, d), present))
             /\ pc' = Set(pc, p, "sweep")
             /\ UNCHANGED <<manager, task, fd, victim>>
     /\ UNCHANGED <<files, raced>>

\* A sweep of named domains visits them all.
Fits(p) == op[p] # "select" /\ total[p] <= MaxBytes

\* prune_entries_while_locked stops once the projection fits,
SweepEnds(p) ==
  /\ pc[p] = "sweep" /\ (plan[p] = <<>> \/ Fits(p))
  /\ pc' = Set(pc, p, "recount") /\ plan' = Set(plan, p, <<>>) /\ total' = Set(total, p, 0)
  /\ UNCHANGED <<manager, files, task, fd, victim, raced>>

\* and collects the entries again for its report.
Recount(p) ==
  /\ pc[p] = "recount"
  /\ IF op[p] = "acquire"
     THEN pc' = Set(pc, p, "record") /\ UNCHANGED <<manager, task, fd, sweep>>
     ELSE Idle(p)
  /\ UNCHANGED <<files, raced>>

\* Mutant: a candidate is removed whoever holds its activity lock.
SweepNextTakesAll(p) ==
  LET i == OpenedInode(Head(plan[p])[1])
  IN /\ pc[p] = "sweep" /\ plan[p] # <<>> /\ ~Fits(p)
     /\ active' = Set(active, Head(plan[p])[1], i)
     /\ victim' = Set(victim, p, i) /\ pc' = Set(pc, p, "unlink")
     /\ total' = [total EXCEPT ![p] = @ - Head(plan[p])[2]]
     /\ UNCHANGED <<manager, present, meta, size, lru, plan, task, fd, raced>>

\* The next candidate: a domain in use is skipped, an idle one is locked.
SweepNext(p) ==
  LET d == Head(plan[p])[1]
      i == OpenedInode(d)
  IN /\ pc[p] = "sweep" /\ plan[p] # <<>> /\ ~Fits(p)
     /\ active' = Set(active, d, i)
     /\ \/ /\ Unlocked(i)
           /\ victim' = Set(victim, p, i) /\ pc' = Set(pc, p, "unlink")
           /\ total' = [total EXCEPT ![p] = @ - Head(plan[p])[2]]
           /\ UNCHANGED plan
        \/ /\ ~Unlocked(i) \/ Probed(p)
           /\ plan' = [plan EXCEPT ![p] = Tail(@)]
           /\ UNCHANGED <<pc, victim, total>>
     /\ UNCHANGED <<manager, present, meta, size, lru, task, fd, raced>>

\* remove_dir_all: the activity file, the record and the target's files go one
\* by one, in any order; what a release has created meanwhile may go too.
UnlinkEntry(p) ==
  LET d == Head(plan[p])[1]
  IN /\ pc[p] = "unlink"
     /\ \/ active[d] # 0 /\ active' = Set(active, d, 0) /\ UNCHANGED <<meta, size, lru>>
        \/ /\ meta[d] # None /\ meta' = Set(meta, d, None) /\ lru' = UsedNow(d)
           /\ UNCHANGED <<active, size>>
        \/ /\ \E left \in 0 .. MaxSize : left < size[d] /\ size' = Set(size, d, left)
           /\ UNCHANGED <<active, meta, lru>>
     /\ UNCHANGED <<manager, present, pc, task, fd, sweep, raced>>

\* The directory itself, once nothing is in it.  If a release has created a
\* file in it again, removing it is an error, which ends the operation (Fails).
RemoveDirectory(p) ==
  LET d == Head(plan[p])[1]
  IN /\ pc[p] = "unlink" /\ active[d] = 0 /\ meta[d] = None /\ size[d] = 0
     /\ present' = present \ {d}
     /\ plan' = [plan EXCEPT ![p] = Tail(@)] /\ victim' = Set(victim, p, 0)
     /\ pc' = Set(pc, p, "sweep")
     /\ UNCHANGED <<manager, active, meta, size, lru, task, fd, total, raced>>

\* An I/O error ends an acquisition or a sweep where it stands.
Fails(p) ==
  /\ pc[p] \in SweepPcs \cup {"manager", "open", "try", "measure", "discard", "shared", "record"}
  /\ ~Measures(p)
  /\ Idle(p) /\ UNCHANGED <<files, raced>>

\* A process dies: the system closes its files, and no lease is dropped in order.
Die(p) == pc[p] # "idle" /\ Idle(p) /\ UNCHANGED <<files, raced>>

-----------------------------------------------------------------------------
\* The steps a process owes once it has begun.
Steps(p) ==
  \/ LockManager(p) \/ OpenDomain(p) \/ TryLock(p) \/ MeasureDomain(p) \/ Discard(p) \/ LockShared(p)
  \/ Record(p) \/ Reopen(p) \/ Retry(p) \/ Refresh(p) \/ WriteMeasured(p)
  \/ Collect(p) \/ SweepEnds(p) \/ SweepNext(p) \/ UnlinkEntry(p) \/ RemoveDirectory(p)
  \/ Recount(p)

-----------------------------------------------------------------------------
(* Properties *)

\* Cleanup skips domains in use: a domain that a sweep is removing is leased by
\* no process from the first file to the directory itself, not even by the
\* sweeping one, which has just acquired a domain it has not yet recorded.
PruneSparesLeased ==
  \A p, q \in Procs : pc[p] = "unlink" /\ Leases(q) => dom[q] # Head(plan[p])[1]

\* A record that claims to be measured hides nothing: the domain holds no more
\* bytes than it says, whatever processes died or failed in a build, in a
\* measurement or half-way through a removal.  (It may hold less: a removal
\* interrupted after some of the target's files.  And not once a release has
\* measured a domain in use, see RefreshOnlyWhenIdle.)
MeasuredHidesNothing ==
  ~raced => \A d \in Domains : meta[d] # None /\ meta[d].measured => size[d] <= meta[d].bytes

\* The doc of refresh_size_if_idle: "Refresh metadata only when no other process
\* is actively using this compatibility domain", neither measuring nor
\* discarding a target in use.  It is violated: the activity file it locks may
\* no longer be the one the domain's users lock.
RefreshOnlyWhenIdle == \A d \in Domains : ~(Refreshed(d) /\ InUse(d))

\* The manager lock is given back again and again, although its holder waits for
\* the activity lock, whose holders go on to take the manager lock.
CacheManagerIsReleased == []<>(manager = None)
=============================================================================
