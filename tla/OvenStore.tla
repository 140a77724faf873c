------------------------------ MODULE OvenStore ------------------------------
(***************************************************************************)
(* The Oven artifact store (oven_store/src/store.rs) as several processes  *)
(* use it at once: publication by private staging and rename, selection    *)
(* with an execution lease, retention sweeps, and crashes between any two  *)
(* filesystem effects.                                                     *)
(*                                                                         *)
(* Every mutating operation holds the exclusive flock of .manager.lock;    *)
(* published readers hold it shared.  A lease is a shared flock of the     *)
(* entry's .active.lock, held until its last consumer drops it.  What is   *)
(* removed is removed file by file, so an interrupted removal leaves       *)
(*   "gutted": manifest, payload and access stamp intact, files missing;   *)
(*   "wreck":  too little left for the entry to be measured.               *)
(* Identities are numbers because the store orders them.  Hard-link        *)
(* accounting is in StoreAccounting, related batches in OvenBatch.         *)
(***************************************************************************)
EXTENDS Naturals, FiniteSets, FiniteSetsExt

CONSTANTS
    Procs, Ids, Domains,
    Ops,                 \* the operations the processes call
    Batches,             \* the identity sets an execution selection asks for
    None,                \* no process, no domain, no identity
    DomainOf,            \* the compatibility domain of each identity
    Content,             \* what a direct-rustc plan carries apart from its receipt
    Plans,               \* the identities of kind DirectRustcPlan
    Logical, Physical,   \* measured bytes of each entry
    Reserve,             \* conservative_physical_reservation of each entry
    MaxPhysical, MaxDomainPhysical, MaxDomainLogical,   \* OvenStoreLimits
    ReleaseDomains,      \* domains named incan-release-*
    ActiveRelease,       \* OvenStore.active_release, or None
    Floor,               \* staging_floor_bytes of a publisher reservation
    MaxClock             \* bound: seconds that pass

ASSUME StoreAssumption ==
    /\ Ids \subseteq Nat /\ IsFiniteSet(Ids)
    /\ None \notin Procs /\ None \notin Domains
    /\ DomainOf \in [Ids -> Domains]
    /\ Plans \subseteq Ids
    /\ Batches \subseteq SUBSET Ids
    /\ Ops \subseteq {"publish", "select", "execute", "published", "prune", "reserve"}
    /\ Logical \in [Ids -> Nat] /\ Physical \in [Ids -> Nat] /\ Reserve \in [Ids -> Nat]
    /\ MaxPhysical \in Nat /\ MaxDomainPhysical \in Nat /\ MaxDomainLogical \in Nat
    /\ ReleaseDomains \subseteq Domains
    /\ ActiveRelease \in Domains \cup {None}
    /\ Floor \in Nat /\ MaxClock \in Nat

VARIABLES
    dir,        \* what entries/<identity> holds
    lastUsed,   \* the last-used stamp of each entry
    clock,      \* now_unix_seconds
    staging,    \* the identities with a private staging directory
    holder,     \* the process with the exclusive manager lock
    readers,    \* the processes with the shared manager lock
    pc, req,    \* each process's place in its operation, and the operation
    left,       \* identities a selection has still to lease
    leases,     \* the entries whose .active.lock each process holds shared
    running,    \* the entries each process was handed and still consumes
    sweep       \* the lock holder's sweep: what it wants and where it is

vars == <<dir, lastUsed, clock, staging, holder, readers, pc, req, left,
          leases, running, sweep>>

Nothing == [pass |-> "limits", dom |-> None, logical |-> 0, physical |-> 0,
            todo |-> {}, kept |-> {}, skipped |-> {}, victim |-> None]
NoRequest == [kind |-> "none", id |-> None, reuse |-> TRUE, ids |-> {}, dom |-> None]

Init ==
    /\ dir = [e \in Ids |-> "absent"]
    /\ lastUsed = [e \in Ids |-> 0]
    /\ clock = 0
    /\ staging = {}
    /\ holder = None
    /\ readers = {}
    /\ pc = [p \in Procs |-> "idle"]
    /\ req = [p \in Procs |-> NoRequest]
    /\ left = [p \in Procs |-> {}]
    /\ leases = [p \in Procs |-> {}]
    /\ running = [p \in Procs |-> {}]
    /\ sweep = Nothing

-----------------------------------------------------------------------------
(* The retention policy. *)

PhysicalOf(S) == MapThenSumSet(LAMBDA e : Physical[e], S)
LogicalOf(S)  == MapThenSumSet(LAMBDA e : Logical[e], S)
InDomain(S, d) == {e \in S : DomainOf[e] = d}

DomainFits(S, d, l, ph) ==
    /\ LogicalOf(InDomain(S, d)) + l <= MaxDomainLogical
    /\ PhysicalOf(InDomain(S, d)) + ph <= MaxDomainPhysical

\* capacity_policy_satisfied: aggregate bytes and, if one is pending, its domain.
Satisfied(S, d, l, ph) ==
    /\ PhysicalOf(S) + ph <= MaxPhysical
    /\ d # None => DomainFits(S, d, l, ph)

Present == {e \in Ids : dir[e] # "absent"}
Leased(e) == \E p \in Procs : e \in leases[p]

\* try_lock_entry: an exclusive lock is granted when no shared one is held.
TryLockIgnoresReaders(e) == e \in Ids
TryLockEntry(e) == ~Leased(e)

Superseded(d, active) == {d, active} \subseteq ReleaseDomains /\ d # active

\* reusable_manifest_equivalent
Equivalent(e, f) == {e, f} \subseteq Plans /\ Content[e] = Content[f]
                    /\ DomainOf[e] = DomainOf[f]
Readable(e) == dir[e] \in {"whole", "gutted"}

Subject(p) == req[p].id

-----------------------------------------------------------------------------
(* Entering and leaving an operation. *)

Start(p, r) ==
    /\ pc[p] = "idle"
    /\ r.kind \in Ops
    /\ req' = [req EXCEPT ![p] = r]
    /\ left' = [left EXCEPT ![p] = r.ids]
    /\ pc' = [pc EXCEPT ![p] = "waiting"]
    /\ UNCHANGED <<dir, lastUsed, clock, staging, holder, readers, leases, running, sweep>>

\* publish and publish_verified_import, which does not accept an equivalent
\* direct plan for the one it brings (reuse_equivalent_direct_plan = false); of
\* anything else an import is a publication.  An artifact larger than its
\* domain's logical allowance is refused here.
StartPublish(p) ==
    \E e \in Ids, reuse \in BOOLEAN :
        /\ reuse \/ e \in Plans
        /\ Logical[e] <= MaxDomainLogical
        /\ Start(p, [NoRequest EXCEPT !.kind = "publish", !.id = e, !.reuse = reuse])

\* select verifies the whole closure of one entry, the execution selections
\* only manifest and payload; a published reader takes the manager lock shared.
StartSelect(p) ==
    \/ \E e \in Ids : Start(p, [NoRequest EXCEPT !.kind = "select", !.ids = {e}])
    \/ \E k \in {"execute", "published"}, S \in Batches :
           Start(p, [NoRequest EXCEPT !.kind = k, !.ids = S])

StartPrune(p) == Start(p, [NoRequest EXCEPT !.kind = "prune", !.dom = ActiveRelease])

StartReserve(p) ==
    \E d \in Domains : Start(p, [NoRequest EXCEPT !.kind = "reserve", !.dom = d])

\* Blocking acquisition of .manager.lock.
EnterWithoutWaiting(p) ==
    /\ pc[p] = "waiting"
    /\ req[p].kind # "published"
    /\ holder' = p
    /\ pc' = [pc EXCEPT ![p] = "reclaim"]
    /\ UNCHANGED <<dir, lastUsed, clock, staging, readers, req, left, leases, running, sweep>>

EnterManager(p) ==
    /\ pc[p] = "waiting"
    /\ req[p].kind # "published"
    /\ holder = None /\ readers = {}
    /\ holder' = p
    /\ pc' = [pc EXCEPT ![p] = "reclaim"]
    /\ UNCHANGED <<dir, lastUsed, clock, staging, readers, req, left, leases, running, sweep>>

EnterShared(p) ==
    /\ pc[p] = "waiting"
    /\ req[p].kind = "published"
    /\ holder = None
    /\ readers' = readers \cup {p}
    /\ pc' = [pc EXCEPT ![p] = "leasing"]
    /\ UNCHANGED <<dir, lastUsed, clock, staging, holder, req, left, leases, running, sweep>>

\* Dropping the manager lock file and every local on the way out.
Return(p) ==
    /\ holder' = IF holder = p THEN None ELSE holder
    /\ readers' = readers \ {p}
    /\ pc' = [pc EXCEPT ![p] = "idle"]
    /\ req' = [req EXCEPT ![p] = NoRequest]
    /\ left' = [left EXCEPT ![p] = {}]
    /\ sweep' = IF holder = p THEN Nothing ELSE sweep

\* reclaim_stale_staging: whatever lies in staging belongs to a dead publisher.
\* An access stamp goes with the directory it was in.
ReclaimStaleStaging(p) ==
    /\ pc[p] = "reclaim"
    /\ staging' = {}
    /\ lastUsed' = [e \in Ids |-> IF dir[e] = "absent" THEN 0 ELSE lastUsed[e]]
    /\ pc' = [pc EXCEPT ![p] = CASE req[p].kind = "publish" -> "lookup"
                                 [] req[p].kind \in {"prune", "reserve"} -> "collect"
                                 [] OTHER -> "leasing"]
    /\ sweep' = [Nothing EXCEPT !.pass =
                   IF req[p].kind \in {"prune", "reserve"} THEN "superseded" ELSE "limits"]
    /\ UNCHANGED <<dir, clock, holder, readers, req, left, leases, running>>

\* A directory that cannot be removed ends the operation; some may be gone.
ReclaimFails(p) ==
    /\ pc[p] = "reclaim"
    /\ staging' \in SUBSET staging
    /\ Return(p)
    /\ UNCHANGED <<dir, lastUsed, clock, leases, running>>

-----------------------------------------------------------------------------
(* Publication up to the admission sweep. *)

\* touch_entry: the stamp orders eviction and nothing else.
Touch(e) == lastUsed' = [lastUsed EXCEPT ![e] = clock]

\* reusable_existing_manifest reads every manifest until one is equivalent.
SearchIgnoresGutted(e) == \E f \in Ids : dir[f] = "whole" /\ Equivalent(f, e)
SearchHits(e)  == \E f \in Ids : Readable(f) /\ Equivalent(f, e)
SearchFails(e) == e \in Plans /\ \E f \in Ids : dir[f] = "wreck"

\* The identity is retained or, which an import does not ask for, a direct plan
\* with equivalent content.
PublishReuse(p) ==
    /\ pc[p] = "lookup"
    /\ \/ dir[Subject(p)] = "whole" /\ Touch(Subject(p))
       \/ /\ dir[Subject(p)] = "absent" /\ req[p].reuse
          /\ \E e \in Ids : Readable(e) /\ Equivalent(e, Subject(p)) /\ Touch(e)
    /\ Return(p)
    /\ UNCHANGED <<dir, clock, staging, leases, running>>

\* The retained identity does not verify, the search for an equivalent plan
\* meets an unreadable manifest, or the reservation exceeds the allowance.
PublishRefused(p) ==
    /\ pc[p] = "lookup"
    /\ \/ dir[Subject(p)] \in {"gutted", "wreck"}
       \/ dir[Subject(p)] = "absent" /\ req[p].reuse /\ SearchFails(Subject(p))
       \/ /\ dir[Subject(p)] = "absent" /\ (req[p].reuse => ~SearchHits(Subject(p)))
          /\ Reserve[Subject(p)] > MaxDomainPhysical
    /\ Return(p)
    /\ UNCHANGED <<dir, lastUsed, clock, staging, leases, running>>

Want(d, l, ph) == [Nothing EXCEPT !.dom = d, !.logical = l, !.physical = ph]

PublishAdmit(p) ==
    LET e == Subject(p) IN
    /\ pc[p] = "lookup"
    /\ dir[e] = "absent"
    /\ req[p].reuse => ~SearchHits(e) /\ ~SearchFails(e)
    /\ Reserve[e] <= MaxDomainPhysical
    /\ sweep' = Want(DomainOf[e], Logical[e], Reserve[e])
    /\ pc' = [pc EXCEPT ![p] = "collect"]
    /\ UNCHANGED <<dir, lastUsed, clock, staging, holder, readers, req, left, leases, running>>

-----------------------------------------------------------------------------
(* The sweep.  Only the holder of the manager lock runs one. *)

\* collect_entries_for_admission: one entry that cannot be measured fails it.
Collect(p) ==
    /\ pc[p] = "collect"
    /\ \A e \in Ids : dir[e] # "wreck"
    /\ sweep' = [sweep EXCEPT !.todo = Present, !.kept = Present, !.skipped = {}]
    /\ pc' = [pc EXCEPT ![p] = "sweep"]
    /\ UNCHANGED <<dir, lastUsed, clock, staging, holder, readers, req, left, leases, running>>

CollectFails(p) ==
    /\ pc[p] = "collect"
    /\ \E e \in Ids : dir[e] = "wreck"
    /\ Return(p)
    /\ UNCHANGED <<dir, lastUsed, clock, staging, leases, running>>

\* prune_for_admission with a capacity catalog of the current membership:
\* nothing is walked, and an unmeasurable entry goes unnoticed.
SkipSweep(p) ==
    /\ pc[p] = "collect"
    /\ req[p].kind = "publish"
    /\ Satisfied(Present, sweep.dom, sweep.logical, sweep.physical)
    /\ sweep' = [sweep EXCEPT !.kept = Present, !.todo = {}, !.skipped = {}]
    /\ pc' = [pc EXCEPT ![p] = "swept"]
    /\ UNCHANGED <<dir, lastUsed, clock, staging, holder, readers, req, left, leases, running>>

PolicyMet == Satisfied(sweep.kept, sweep.dom, sweep.logical, sweep.physical)
DomainIsOver == /\ sweep.dom # None
                /\ ~DomainFits(sweep.kept, sweep.dom, sweep.logical, sweep.physical)

SweepEndsAtFirstLease == \/ sweep.todo = {}
                         \/ sweep.pass = "limits" /\ (PolicyMet \/ sweep.skipped # {})
SweepEnds == \/ sweep.todo = {}
             \/ sweep.pass = "limits" /\ PolicyMet

\* Oldest first, by identity within a second; the superseded pass by identity.
BeforeByIdentity(e, f) == e < f
Before(e, f) == \/ sweep.pass = "limits" /\ lastUsed[e] < lastUsed[f]
                \/ (sweep.pass = "limits" => lastUsed[e] = lastUsed[f]) /\ e < f
IsNext(e) == \A f \in sweep.todo \ {e} : Before(e, f)

\* The loop body's continue.
PassedOver(p, e) ==
    IF sweep.pass = "limits" THEN DomainIsOver /\ DomainOf[e] # sweep.dom
                             ELSE ~Superseded(DomainOf[e], req[p].dom)

SweepDone(p) ==
    /\ pc[p] = "sweep"
    /\ SweepEnds
    /\ pc' = [pc EXCEPT ![p] = "swept"]
    /\ UNCHANGED <<dir, lastUsed, clock, staging, holder, readers, req, left, leases, running, sweep>>

SweepSkip(p) ==
    /\ pc[p] = "sweep"
    /\ ~SweepEnds
    /\ \E e \in sweep.todo :
         /\ IsNext(e)
         /\ PassedOver(p, e) \/ ~TryLockEntry(e)
         /\ sweep' = [sweep EXCEPT
                        !.todo = @ \ {e},
                        !.skipped = IF PassedOver(p, e) THEN @ ELSE @ \cup {e}]
    /\ UNCHANGED <<dir, lastUsed, clock, staging, holder, readers, pc, req, left, leases, running>>

\* try_lock_entry succeeds, and remove_dir_all starts unlinking.
SweepRemove(p) ==
    /\ pc[p] = "sweep"
    /\ ~SweepEnds
    /\ \E e \in sweep.todo :
         /\ IsNext(e)
         /\ ~PassedOver(p, e) /\ TryLockEntry(e)
         /\ dir' = [dir EXCEPT ![e] = "removing"]
         /\ sweep' = [sweep EXCEPT !.todo = @ \ {e}, !.victim = e]
    /\ pc' = [pc EXCEPT ![p] = "removing"]
    /\ UNCHANGED <<lastUsed, clock, staging, holder, readers, req, left, leases, running>>

RemoveDone(p) ==
    /\ pc[p] = "removing"
    /\ dir' = [dir EXCEPT ![sweep.victim] = "absent"]
    /\ lastUsed' = [lastUsed EXCEPT ![sweep.victim] = 0]
    /\ sweep' = [sweep EXCEPT !.kept = @ \ {sweep.victim}, !.victim = None]
    /\ pc' = [pc EXCEPT ![p] = "sweep"]
    /\ UNCHANGED <<clock, staging, holder, readers, req, left, leases, running>>

\* What an unlink loop that stopped anywhere leaves behind.
Interrupted(e) == \E d \in {"whole", "gutted", "wreck"} : dir' = [dir EXCEPT ![e] = d]

RemoveFails(p) ==
    /\ pc[p] = "removing"
    /\ Interrupted(sweep.victim)
    /\ Return(p)
    /\ UNCHANGED <<lastUsed, clock, staging, leases, running>>

-----------------------------------------------------------------------------
(* What follows a sweep. *)

Resweep(p, want) == sweep' = want /\ pc' = [pc EXCEPT ![p] = "collect"]

\* prune and the publisher reservation: the limits pass follows the superseded one.
RetentionPass(p) ==
    /\ pc[p] = "swept"
    /\ sweep.pass = "superseded"
    /\ Resweep(p, Nothing)
    /\ UNCHANGED <<dir, lastUsed, clock, staging, holder, readers, req, left, leases, running>>

\* remaining_publisher_capacity(domain) < staging_floor_bytes
FloorDoesNotFit(d) ==
    \/ PhysicalOf(Present) + Floor > MaxPhysical
    \/ PhysicalOf(InDomain(Present, d)) + Floor > MaxDomainPhysical

FloorPass(p) ==
    /\ pc[p] = "swept"
    /\ req[p].kind = "reserve" /\ sweep.pass = "limits" /\ sweep.dom = None
    /\ Floor > 0 /\ FloorDoesNotFit(req[p].dom)
    /\ Resweep(p, Want(req[p].dom, 0, Floor))
    /\ UNCHANGED <<dir, lastUsed, clock, staging, holder, readers, req, left, leases, running>>

PruneReturns(p) ==
    /\ pc[p] = "swept"
    /\ req[p].kind # "publish" /\ sweep.pass = "limits"
    /\ req[p].kind = "reserve" /\ sweep.dom = None =>
           ~(Floor > 0 /\ FloorDoesNotFit(req[p].dom))
    /\ Return(p)
    /\ UNCHANGED <<dir, lastUsed, clock, staging, leases, running>>

\* Neither pass rejects a publication: retained totals are targets.
StageAgain(p) ==
    /\ pc[p] = "swept"
    /\ req[p].kind = "publish"
    /\ pc' = [pc EXCEPT ![p] = "stage"]
    /\ UNCHANGED <<dir, lastUsed, clock, staging, holder, readers, req, left, leases, running, sweep>>

PublishSwept(p) ==
    /\ pc[p] = "swept"
    /\ req[p].kind = "publish"
    /\ pc' = [pc EXCEPT ![p] = IF Subject(p) \in staging THEN "commit" ELSE "stage"]
    /\ UNCHANGED <<dir, lastUsed, clock, staging, holder, readers, req, left, leases, running, sweep>>

\* create_dir and write_staged_entry, which ends with the access stamp.
Stage(p) ==
    /\ pc[p] = "stage"
    /\ staging' = staging \cup {Subject(p)}
    /\ Touch(Subject(p))
    /\ pc' = [pc EXCEPT ![p] = "staged"]
    /\ UNCHANGED <<dir, clock, holder, readers, req, left, leases, running, sweep>>

\* The removal of a staging directory that is given up may fail itself, and
\* its result is ignored.
Abandon(p) == staging' \in {staging \ {Subject(p)}, staging \cup {Subject(p)}}

StageFails(p) ==
    /\ pc[p] = "stage"
    /\ Abandon(p)
    /\ Return(p)
    /\ UNCHANGED <<dir, lastUsed, clock, leases, running>>

\* measure_staged_entry_for_admission and the decisions taken on its result.
MeasureRefused(p) ==
    /\ pc[p] = "staged"
    /\ Physical[Subject(p)] > MaxDomainPhysical
    /\ Abandon(p)
    /\ Return(p)
    /\ UNCHANGED <<dir, lastUsed, clock, leases, running>>

MeasureLarger(p) ==
    LET e == Subject(p) IN
    /\ pc[p] = "staged"
    /\ Physical[e] <= MaxDomainPhysical
    /\ Physical[e] > Reserve[e]
    /\ Resweep(p, Want(DomainOf[e], Logical[e], Physical[e]))
    /\ UNCHANGED <<dir, lastUsed, clock, staging, holder, readers, req, left, leases, running>>

MeasureAdmitted(p) ==
    /\ pc[p] = "staged"
    /\ Physical[Subject(p)] <= MaxDomainPhysical
    /\ Physical[Subject(p)] <= Reserve[Subject(p)]
    /\ pc' = [pc EXCEPT ![p] = "commit"]
    /\ UNCHANGED <<dir, lastUsed, clock, staging, holder, readers, req, left, leases, running, sweep>>

\* An I/O error while measuring or renaming returns with the staging directory left.
StagingStays(p) ==
    /\ pc[p] \in {"staged", "commit"}
    /\ Return(p)
    /\ UNCHANGED <<dir, lastUsed, clock, staging, leases, running>>

\* The rename makes the entry visible at once.
Commit(p) ==
    LET e == Subject(p) IN
    /\ pc[p] = "commit"
    /\ staging' = staging \ {e}
    /\ dir' = [dir EXCEPT ![e] = "whole"]
    /\ pc' = [pc EXCEPT ![p] = "sync"]
    /\ UNCHANGED <<lastUsed, clock, holder, readers, req, left, leases, running, sweep>>

\* sync_directory; its failure is reported, and the entry stays visible.
Sync(p) ==
    /\ pc[p] = "sync"
    /\ Return(p)
    /\ UNCHANGED <<dir, lastUsed, clock, staging, leases, running>>

-----------------------------------------------------------------------------
(* Selection: every lease of a batch under one manager lock. *)

Selectable(p, e) == IF req[p].kind = "select" THEN dir[e] = "whole" ELSE Readable(e)

Lease(p) ==
    /\ pc[p] = "leasing"
    /\ \E e \in left[p] :
         /\ Selectable(p, e)
         /\ leases' = [leases EXCEPT ![p] = @ \cup {e}]
         /\ left' = [left EXCEPT ![p] = @ \ {e}]
         /\ IF req[p].kind = "published" THEN UNCHANGED lastUsed ELSE Touch(e)
    /\ UNCHANGED <<dir, clock, staging, holder, readers, pc, req, running, sweep>>

\* Mutant: the members that were leased before the failure are handed out.
LeaseFailsPartly(p) ==
    /\ pc[p] = "leasing"
    /\ \E e \in left[p] : ~Selectable(p, e)
    /\ running' = [running EXCEPT ![p] = @ \cup (req[p].ids \ left[p])]
    /\ Return(p)
    /\ UNCHANGED <<dir, lastUsed, clock, staging, leases>>

\* An absent or damaged member: the payloads already selected are dropped, and
\* with them the locks no earlier payload of this process shares.
LeaseFails(p) ==
    /\ pc[p] = "leasing"
    /\ \E e \in left[p] : ~Selectable(p, e)
    /\ leases' = [leases EXCEPT ![p] = running[p]]
    /\ Return(p)
    /\ UNCHANGED <<dir, lastUsed, clock, staging, running>>

LeaseDone(p) ==
    /\ pc[p] = "leasing"
    /\ left[p] = {}
    /\ running' = [running EXCEPT ![p] = @ \cup req[p].ids]
    /\ Return(p)
    /\ UNCHANGED <<dir, lastUsed, clock, staging, leases>>

\* The last consumer of an entry closes the lock file, unless the selection
\* under way has taken a handle of the same file from the registry.
FinishUnlocks(p) ==
    \E e \in running[p] :
        /\ running' = [running EXCEPT ![p] = @ \ {e}]
        /\ leases' = [leases EXCEPT ![p] = @ \ {e}]
        /\ UNCHANGED <<dir, lastUsed, clock, staging, holder, readers, pc, req, left, sweep>>

Finish(p) ==
    \E e \in running[p] :
        /\ running' = [running EXCEPT ![p] = @ \ {e}]
        /\ leases' = [leases EXCEPT ![p] =
                        IF pc[p] = "leasing" /\ e \in req[p].ids \ left[p] THEN @ ELSE @ \ {e}]
        /\ UNCHANGED <<dir, lastUsed, clock, staging, holder, readers, pc, req, left, sweep>>

-----------------------------------------------------------------------------
\* The kernel releases a dead process's locks; the disk stays as it was left.
Crash(p) ==
    /\ pc[p] # "idle" \/ leases[p] # {}
    /\ IF pc[p] = "removing" THEN Interrupted(sweep.victim) ELSE UNCHANGED dir
    /\ IF pc[p] = "stage" THEN Abandon(p) ELSE UNCHANGED staging
    /\ leases' = [leases EXCEPT ![p] = {}]
    /\ running' = [running EXCEPT ![p] = {}]
    /\ Return(p)
    /\ UNCHANGED <<lastUsed, clock>>

Tick ==
    /\ clock < MaxClock
    /\ clock' = clock + 1
    /\ UNCHANGED <<dir, lastUsed, staging, holder, readers, pc, req, left, leases, running, sweep>>

\* The steps of a process inside the manager lock.
ManagerStep(p) ==
    \/ ReclaimStaleStaging(p) \/ ReclaimFails(p)
    \/ PublishReuse(p) \/ PublishRefused(p) \/ PublishAdmit(p)
    \/ Collect(p) \/ CollectFails(p) \/ SkipSweep(p)
    \/ SweepDone(p) \/ SweepSkip(p) \/ SweepRemove(p) \/ RemoveDone(p) \/ RemoveFails(p)
    \/ RetentionPass(p) \/ FloorPass(p) \/ PruneReturns(p) \/ PublishSwept(p)
    \/ Stage(p) \/ StageFails(p)
    \/ MeasureRefused(p) \/ MeasureLarger(p) \/ MeasureAdmitted(p) \/ StagingStays(p)
    \/ Commit(p) \/ Sync(p)
    \/ Lease(p) \/ LeaseFails(p) \/ LeaseDone(p)

Next ==
    \/ \E p \in Procs :
         \/ StartPublish(p) \/ StartSelect(p) \/ StartPrune(p) \/ StartReserve(p)
         \/ EnterManager(p) \/ EnterShared(p)
         \/ ManagerStep(p)
         \/ Finish(p) \/ Crash(p)
    \/ Tick

\* A process inside the lock keeps running, unless it dies.
Spec == Init /\ [][Next]_vars
LiveSpec == Spec /\ \A p \in Procs : WF_vars(ManagerStep(p))

-----------------------------------------------------------------------------
(* Properties. *)

InLock == {"reclaim", "lookup", "collect", "sweep", "removing", "swept",
           "stage", "staged", "commit", "sync"}
Kinds == {"none", "publish", "select", "execute", "published", "prune", "reserve"}
Requests == [kind : Kinds, id : Ids \cup {None}, reuse : BOOLEAN, ids : SUBSET Ids,
             dom : Domains \cup {None}]
Sweeps == [pass : {"superseded", "limits"}, dom : Domains \cup {None},
           logical : Nat, physical : Nat, todo : SUBSET Ids, kept : SUBSET Ids,
           skipped : SUBSET Ids, victim : Ids \cup {None}]

\* Every variable has its type: at most one entry is being removed, and what a
\* sweep remembers are identities of the store.
TypeOK ==
    /\ dir \in [Ids -> {"absent", "whole", "removing", "gutted", "wreck"}]
    /\ lastUsed \in [Ids -> Nat]
    /\ clock \in Nat
    /\ staging \in SUBSET Ids
    /\ holder \in Procs \cup {None}
    /\ readers \in SUBSET Procs
    /\ pc \in [Procs -> InLock \cup {"idle", "waiting", "leasing"}]
    /\ req \in [Procs -> Requests]
    /\ left \in [Procs -> SUBSET Ids]
    /\ leases \in [Procs -> SUBSET Ids]
    /\ running \in [Procs -> SUBSET Ids]
    /\ sweep \in Sweeps

\* No step of any process changes what an entry holds while some process has a
\* lease of it: a sweep skips it, a publisher does not overwrite it.
LeaseProtects == [][\A e \in Ids : Leased(e) => dir'[e] = dir[e]]_vars

\* Whatever a process was handed by a selection it still holds the lock of, and
\* every locked entry still has its manifest and payload, although consumers of
\* one process share a lock file and may finish while another selection runs.
HandedOutIsLeased ==
    \A p \in Procs : /\ running[p] \subseteq leases[p]
                     /\ \A e \in leases[p] : Readable(e)

\* An entry is only ever seen half removed by the one process removing it.
RemovalIsPrivate ==
    \A e \in Ids : dir[e] = "removing" =>
        /\ readers = {}
        /\ \E p \in Procs : holder = p /\ pc[p] = "removing" /\ sweep.victim = e

\* The staging directory a publisher is about to measure or rename is there:
\* no other process's reclaim_stale_staging has taken it for a dead one's.
OwnStagingSurvives ==
    \A p \in Procs : pc[p] \in {"staged", "commit"} => Subject(p) \in staging

\* A direct plan appears beside one of equal content only as an import, which
\* must keep its own receipt: between the search of an ordinary publication and
\* its rename no equal plan comes to the store, however publishers interleave
\* and die and whatever interrupted removals have left.
OnlyImportsDuplicate ==
    [][\A e \in Ids, f \in Present :
          dir[e] = "absent" /\ dir'[e] # "absent" /\ Equivalent(e, f) =>
            \E p \in Procs : pc[p] = "commit" /\ Subject(p) = e /\ ~req[p].reuse]_vars

\* When a limits pass ends, either the policy is met by what is on disk or all
\* that is left is leased, or lies outside the pending domain.
SweepIsExhaustive ==
    \A p \in Procs : pc[p] = "swept" /\ sweep.pass = "limits" =>
        \/ Satisfied(Present, sweep.dom, sweep.logical, sweep.physical)
        \/ \A e \in Present \ sweep.skipped : sweep.dom # None /\ DomainOf[e] # sweep.dom

\* A limits pass starts a removal only when what is on disk exceeds the policy,
\* and in the pending domain (everywhere, if none is pending) never while an
\* older entry is left that it did not find leased.
EvictsOldestFirst ==
    [][\A e \in Ids :
          dir'[e] = "removing" /\ dir[e] # "removing" /\ sweep.pass = "limits" =>
            /\ ~Satisfied(Present, sweep.dom, sweep.logical, sweep.physical)
            /\ \A f \in Present \ sweep.skipped :
                  sweep.dom \in {None, DomainOf[e]} /\ sweep.dom \in {None, DomainOf[f]}
                    => lastUsed[e] <= lastUsed[f]]_vars

\* The manager lock is always released again: a publication's second sweep, a
\* reservation's two passes and a batch selection all come to an end.
ManagerIsReleased == \A p \in Procs : holder = p ~> holder # p

-----------------------------------------------------------------------------
(* The promise. *)

\* An entry counts as visible until its removal is over: nobody else can look.
Visible == {e \in Ids : dir[e] \in {"whole", "gutted", "removing"}}

Promise == INSTANCE StorePromise
             WITH visible <- Visible, asked <- [p \in Procs |-> req[p].ids], held <- running

\* Every step of the store, with its locks, sweeps, interrupted removals and
\* deaths, is one of the promise: a selection is answered with all it asked for
\* or with nothing, entries appear at once, and they go only while nobody has
\* them.
KeepsPromise == Promise!Spec

-----------------------------------------------------------------------------
(* What a doc or a comment says and the code does not do. *)

\* A publisher reservation reclaims until the floor fits or only leases are
\* left (a domain that its own leases keep over its limit is excused).
FloorFitsOrLeased ==
    \A p \in Procs : pc[p] = "swept" /\ req[p].kind = "reserve" /\ sweep.dom # None =>
        \/ PolicyMet \/ DomainIsOver
        \/ \A e \in sweep.kept : e \in sweep.skipped \/ Leased(e)
=============================================================================
