# Verification of Incan's concurrent and persistent core

Incan is a statically typed language that compiles to Rust. Most of the repository is a sequential
compiler. The parts in which order, failure and concurrency decide correctness are the **Oven
artifact store** with the **compatibility publisher** that bakes into it, and the **cache of generated
Cargo targets**, which several compiler processes share on one disk; the **supervision of child
processes**; the **language server**, whose handlers share one map and one work queue; and the
**std.async** runtime library, whose primitives every asynchronous Incan program uses. This directory
models those parts in TLA+, checks them with TLC and proves the central safety results with TLAPS.

Paths below are relative to the repository; `store.rs` and `process.rs` are in
`loaves/oven/oven_store/src/`, `sync.rs` and `channel.rs` in `loaves/stdlib/async/rust/src/`,
`compat.rs` stands for `loaves/oven/oven_cargo_compat/src/lib.rs`, `generated_cache.rs` is in
`loaves/compiler/incan_driver/src/` and `backend.rs` in `loaves/toolchain/incan-lsp/src/`.

1. [Inventory](#1-inventory) — the parts of the system and what is hard about them
2. [Modules](#2-modules) — which module models what, and how
3. [Runs](#3-runs) — what TLC checks, the bounds, the fairness
4. [Proofs](#4-proofs) — what holds for every instance, and why
5. [Findings](#5-findings) — where the code and its documentation disagree
6. [Not modelled](#6-not-modelled)
7. [Plan](#7-plan)

## 1. Inventory

### Oven artifact store (`store.rs`, `payload_index.rs`)

State. One directory per store: `entries/<identity>/` with a manifest, a payload, files, a `last-used`
stamp and an `.active.lock`; `staging/` with private half-written entries; `.manager.lock`. Per
process: leases (shared locks of `.active.lock`, shared through a registry of weak handles), a catalog
of the manifests with capacity totals and payload indexes, and sidecar listings of inodes on disk.

Operations. `publish` and `publish_verified_import` (reclaim stale staging, look for the entry and, unless it is an import, for an equivalent one, sweep for the
reserved bytes, stage, measure, sweep again if it measures larger, rename, synchronize),
`publish_batch` (the same for an index and its members, members first), `select` and the execution
selections (verify, lease, touch), published readers under a shared manager lock, `prune` (superseded
releases, then retention) and `preview_prune`, `reserve_publisher` (up to three sweeps for a staging
floor), inspection.

Interaction. Processes meet only on the disk: through `flock` on `.manager.lock`, through `flock` on an
entry's `.active.lock`, through what `readdir` shows, and through the modification stamp of the entries
directory that tells a process whether its catalog is still good.

What is hard. Removal is file by file and can stop anywhere; a publisher may die at any system call;
leases are taken under the manager lock but dropped outside it; two sweeps separate a publisher's
lookup from its commit; cached listings and catalogs are used long after they were made; rename is
atomic but durable only after the directory is synchronized; the retention policy has to choose among
leased, foreign-domain and idle entries at its limits.

Correct means: what a process was handed stays readable until it drops it; nobody sees a half-removed
entry; nobody deletes staging somebody is writing; only a verified import, which must keep its own receipt,
stores a plan beside an equal one; a sweep removes what the policy asks for, oldest first, and nothing else;
an index never becomes visible before its members are durable; a catalog that is trusted is right; the bytes
charged never exceed the bytes allocated, and equal them unless reused inode numbers mislead the cached
listings; whoever has the manager lock gives it back.

### std.async (`sync.rs`, `channel.rs`)

State. `Barrier`: a generation with its participants and slots behind a std mutex, and a tokio
`Notify`. Channels: a tokio channel, its receiver in an async mutex that clones share, permits. Oneshot:
an `Option` of either half behind a mutex.

Operations. `Barrier::wait`; `send`, `try_send`, `reserve`, `SenderPermit.send`, `recv`, `try_recv`,
`close`; `OneshotSender.send`, `OneshotReceiver.recv`; clone and drop of every handle.

What is hard. Any future can be dropped while it is suspended, also after what it waited for happened;
a wake-up between check and park must not be lost; a slot or value in the hands of a future that is
dropped must not disappear; closing races with sends that were already granted.

Correct means: slots of a barrier generation are a permutation and everyone of a completed generation
gets out; no channel slot leaks; no value is lost, doubled or reordered; `None` is final; a closed
channel keeps nobody waiting.

### Compatibility publisher (`compat.rs`, `store.rs`)

State. `legacy-cargo-staging/` with `.publisher.lock` and one private directory per bake; Cargo in a
process group of its own. Operations: `prepare_direct_rustc_plan` and `prepare_compiler_test_suite`
(look up, take the publisher lock, look up again, reclaim what dead publishers left, reserve, create a
directory, run and watch Cargo, hand off, clean up), and the probe with which an ordinary publication
refuses to overlap them.

What is hard. Two locks are taken in opposite orders, one of them only tried; the probe gives the lock
back before the publication has done anything; the lookup is old when the lock is granted; Cargo outlives
a publisher that dies, and one whose monitor returned an error. Correct means: nobody reclaims a live
publisher's directory; ordinary publications do not overlap it; no plan is baked beside a winner; no lock
is kept.

### Supervision of child processes (`process.rs`)

State. The supervisor's loop variables, three flags shared with two reader threads, the child's process
group and its two pipes. What is hard. Limits, cancellation, timeout, exit and I/O errors in any order;
descendants that keep the pipes; late output after a refusal. Correct means: nobody of the group survives
the call, the reported termination is true of the output, the call ends.

### Generated target cache and prewarm queue (`generated_cache.rs`, `backend.rs`)

State. Per domain a directory, an `.active.lock`, `entry.json` with the size on record; a cache-wide
`.manager.lock`; in the server one queue entry per workspace. Operations: acquire, release (which
measures without the manager lock), prune, inspect; request, take a batch, extract.

What is hard. A lock stays with the inode that was opened, also after the path names another; the
manager lock is held while waiting for an activity lock; processes die in a build; a request races with
the end of the worker; a removal goes file by file and can stop half-way. Correct means: a domain in use is
not swept, a size recorded as measured hides nothing that is on disk, one worker serves all requests and keeps its lease, the manager lock is given back.

### Open documents of the language server (`backend.rs`)

State. A map of analysed documents behind a fair read-write lock. Handlers run concurrently and are
suspended at every publication. Correct would mean: once a document's notifications are handled, the map
says what the editor shows. It does not (section 5).

### Everything else

Listed with its status in `PROJECT.json`; section 6 says why it is not modelled, section 7 what is next.
The hazards the models are aimed at, each at its source line, are under `hazards` there.

## 2. Modules

| Module | Code | State | One action is |
|---|---|---|---|
| `OvenStore` | `publish`, selections, published readers, `prune`, reservations, staging reclamation, leases, crashes (`store.rs`) | directories, stamps, staging, manager lock, and per process its place, request, leases and running consumers; the lock holder's sweep | one filesystem effect, lock operation or lookup |
| `OvenBatch` | `publish_batch` (`store.rs`) | visible and durable entries, stamps, leases, the publisher's place and pending members | one sweep visit, one rename, one synchronization |
| `StoreCatalog` | manifest memo, capacity totals, payload indexes (`store.rs`, `payload_index.rs`) | allocations on disk, the directory's stamp, leases, each process's catalog | one operation under the manager lock |
| `StoreAccounting` | inode listings, attribution, `inspect`, `prune`, `preview_prune` (`store.rs`) | inodes of every file, cached listings, access stamps, how many files were created | one operation under the manager lock |
| `StorePromise` | what a user of the store may rely on; abstract | visible entries, what each process asks for and holds | one visible effect |
| `LegacyPublisher` | publisher transaction and the probe of ordinary publications (`compat.rs`, `store.rs`) | both locks, staging, running Cargo groups, receipts with an entry, each process's place | one lock operation, one effect on staging, one locked operation of the store |
| `BoundedProcess` | `run_bounded_process` (`process.rs`) | the loop's variables and place, group, pipes, readers | one check of the poll loop, one read, one step of a process |
| `GeneratedCache` | acquisition, release, pruning, inspection (`generated_cache.rs`) | directories, inodes of activity files, records, per process its place, open file and sweep, and `raced`, a history | one lock or filesystem operation |
| `LspPrewarm` | the prewarm queue (`backend.rs`), composed with `GeneratedCache` | the queue's entry, the workers, who belongs to the server | one critical section of the queue, or a step of the cache |
| `LspDocuments` | `analyze_document`, `collect_dependency_modules`, `did_open`, `did_change`, `did_close` (`backend.rs`) | the map, notifications, each handler's place, who waits for the lock | what a handler does from one await to the next |
| `AsyncBarrier` | `Barrier` and `BarrierRegistration` (`sync.rs`) | the fields of `BarrierGeneration`, the notify counter, each task's locals, and `seats`, a history | one critical section or one call on the `Notify` |
| `AsyncChannel` | bounded and unbounded channels (`channel.rs`) | queue, slots, waiting senders, handles, permits, the receiver's mutex | one poll, call or drop |
| `AsyncOneshot` | `oneshot` (`channel.rs`) | both `Option`s, tokio's cell, the receiver's mutex | one poll, call or drop |

`MC<Module>` gives each its constants. Four MC modules run several parts side by side, each on its own: a
behaviour picks one part and leaves the variables of the others as they are. `MCStdAsync` has the barrier, the
channel and the oneshot, `MCOven` the batches and the supervision of processes, `MCBookkeeping` the catalogs
and the accounting, `MCCargo` the compatibility publisher and the cache with the prewarm queue. The `...Proofs` modules hold the theorems about the module they
are named after; `StdAsyncProofs` has those of `AsyncBarrier`, `AsyncChannel` and `AsyncOneshot`, `CargoProofs`
those of `BoundedProcess`, `GeneratedCache` and `LspPrewarm`, and `FoldLemmas` what the two store modules that
count bytes need of sums, orderings and folds. Definitions
whose comment begins with "Mutant:" or which stand just before the definition they vary are mutated
forms: every property has one that breaks it, paired under `mutants`.

**Refinement.** `StorePromise` is the store as its users see it: entries appear at once, under a
name that was free; a request is answered with all it asked for or with nothing; an entry goes only while nobody has
it. `OvenStore` instantiates it with the entries that are whole, gutted or being removed as `visible`, the
current request of a selection as `asked` and the running consumers as `held`, and `KeepsPromise` states
that every behaviour of `OvenStore`, interrupted removals and deaths included, is one of `StorePromise`.

How the store's four modules divide it. `OvenStore` has the interleavings: every step between two
effects of any two processes. There, entries do not share blocks and a process has no catalog, so every
sweep walks the disk. `StoreCatalog` and `StoreAccounting` have what `OvenStore` leaves out. Since every
operation they model holds the manager lock from its first to its last effect, which is what
`OvenStore` is about, an operation is one action there. `OvenBatch` has one publisher with two sweeps
and adds what a power loss can undo; what others do meanwhile is `TakeLease`, `DropLease`, and
`OtherSweep` between two batches.

### Abstractions

- *Entries* are numbers, since the store sorts identities; content, files and digests are constants.
  Verification succeeds exactly on what an interrupted removal left alone: `"whole"`, `"gutted"`
  (manifest, payload and stamp there, files missing), `"wreck"` (cannot be measured), `"absent"`.
- *Bytes* are small naturals. A reservation may be smaller than the measurement, which causes the
  second sweep. In `StoreCatalog` reservations are exact.
- *Time* is a clock in seconds bounded by `MaxClock`; equal stamps, which the code breaks by identity,
  are therefore reached easily. `StoreCatalog` lets a sweep visit in any order instead.
- *Leases* are sets: `OvenStore` has who holds them, the single-actor modules only that someone does.
- *Failure*: reclaiming, staging, measuring, renaming and removing may fail wherever the code returns an error.
  A removal that fails or dies leaves any of the four forms; a reclamation that fails leaves some of the stale
  staging (`ReclaimFails`), a measurement or rename that fails leaves the publisher's own (`StagingStays`).
- *Imports*: a publication in `OvenStore` carries `reuse`, the code's `reuse_equivalent_direct_plan`. Where it is
  false, the search for an equivalent plan is skipped.
- *Stamps of the entries directory* in `StoreCatalog` are names that differ after each change. Names nobody remembers are used again, which keeps
  the state space finite without bounding the number of changes.
- *Inode numbers* in `StoreAccounting` are, at each creation of files, either the lowest free ones or numbers no
  file has had, which covers filesystems that reuse numbers at once and ones that never do. `MaxFiles` bounds
  the files created. Only the aggregate allowance binds there.
- *Retention in `LegacyPublisher`* is any removal: whoever sweeps there may take any entries, which covers
  every policy. `OvenStore` has the policy. Its `entries` are the reusable ones: an entry of the receipt that the
  lookup cannot reuse (`compat.rs:1054`, `1745`) counts as none, so a second one may be baked beside it.
- *Signals* in `BoundedProcess` reach every member of the group at once, and no member leaves the group;
  the comment at `process.rs:287` says none of the supported children does. That the signal is refused or fails
  (`process.rs:296`, `449`) is left out. Bytes are counted.
- *Inodes of activity files* in `GeneratedCache` are numbers that are used again once no path and no open
  file has them. The history variable `raced` records that a release has measured a domain somebody else was
  using, which the code does not exclude (section 5); `MeasuredHidesNothing` is stated for what happens before.
  A removal unlinks the activity file, the record and parts of the target one by one in any order, and can fail,
  die or meet a release in between; the second collection after a sweep is a step of its own.
- *Leases of an analysis* in `LspPrewarm`: `Analyse` takes one lease. The code takes two (`backend.rs:1107`,
  `1115`), or none for an explicit target; the other is like that of a process of its own.
- *Texts* in `LspDocuments` are a version, what they import, and where their analysis gives up. `tower-lsp`
  is external: it starts handlers in the order of the notifications, up to four at a time (two here). A
  dependency that is not open can always be read from disk; the code skips one that cannot (`backend.rs:628`).
- *tokio* is external and modelled from what the code relies on: `notify_waiters` wakes every
  `Notified` created before the call; the semaphore and the async mutex are fair; closing refuses
  waiting senders and honours granted slots.

## 3. Runs

Passing runs:

| Run | Instance | Checks |
|---|---|---|
| `std_async` | barrier: 3 tasks, 3 parties, 2 generations; channel: 2 producers, 2 receiver clones, one slot or unbounded, 3 values; oneshot: 2 sender and 3 receiver clones | `SlotsAccountedFor`, `CompletedSlotsArePermutation`, `NoLostWakeup`, `EveryoneIsReleased`; `SlotsConserved`, `NothingLost`, `NoneIsFinal`, `WaitersLeaveClosedChannel`, `ReceiversSeeTheEnd`; `DeliveredOnce`, `EveryReceiveEnds` |
| `store_safety` | 2 processes, 4 entries of two releases, two of them equivalent plans, one over its domain's allowance; publication, import, execution, published readers, reservation | `HandedOutIsLeased`, `OwnStagingSurvives`, `LeaseProtects`, `OnlyImportsDuplicate`, `ManagerIsReleased`, and the refinement `KeepsPromise` |
| `store_policy` | 2 processes, 3 entries of two domains; publication, selection, pruning, reservation; 2 clock values | `SweepIsExhaustive`, `EvictsOldestFirst` |
| `oven` | batches: 2 members, 2 indexes of the same suite, 4 batches, 2 clock values; supervision: a child and a descendant, limits of one byte and none, pipes of two bytes | `AuthorityAfterDurableMembers`, `LeasedSurvives`; `NobodySurvives`, `TerminationIsTruthful`, `CompletedIsUndisturbed`, `SupervisionEnds` |
| `bookkeeping` | catalogs: 2 processes, 3 entries of two domains, two of them sharing a file, one batch; accounting: 3 entries, one shared file, one superseded entry, 8 files created, 2 clock values, both allocations of inode numbers | `CatalogIsCurrent`, `CapacityNeverUnderstates`, `AdmissionIsSwept`; `InspectionIsExact`, `PruneIsAnnounced`, `PruneReachesTarget` |
| `cargo` | compatibility publisher: 2 processes, a plan and a suite, 2 staging names; cache: 2 processes or server tasks, one domain, one path, a limit of 0 and a bound of 1 on targets of up to 2 bytes | `LiveStagingSurvives`, `PublicationsDoNotOverlap`, `NoSecondBake`, `LocksAreReleased`; `PruneSparesLeased`, `MeasuredHidesNothing`, `OneWorkerServesAll`, `CacheManagerIsReleased` |

A semicolon separates the parts a run has side by side; their state spaces add up and do not multiply. The six
runs that end in a violation are in section 5.

Of the accounting, what is about `ListingsAgree` is stated for stores in which no two cached listings name
one number for different files. TLC reaches such stores and others; what the others break is the run `listings`.
That an inspection does not overcharge, and its split by leases, are checked in both.

**Why the bounds are enough.** *Barrier*: with three tasks on three parties a cancelled slot is taken over
while others wait, a task of a completed generation can be overtaken by others that arrive for the next one,
and its late cancellation then meets that open generation. *Store*: two processes are a holder of the manager lock and somebody else, and the lock lets no third
one in. In `store_safety` any two entries of a domain fill it, so publications sweep; entry 2 measures
larger than reserved and is swept for twice, entry 4 is refused after it was measured, entries 2 and 3 are
equivalent plans, each published ordinarily or imported. Its properties do not look at ages, and no time passes. `store_policy` needs time to pass
once, so that the age order and the identity order differ, and a domain besides the pending one. *Batch*:
suites of two, so that a crash or a failed rename can fall between the members; a batch of two indexes meets
the refusal of a second authority. *Catalog*: two processes with a catalog each; a third would be another
"somebody else". Two entries share a file, so that the totals depend on which of them is visited first.
*Accounting*: three entries with all their files are seven files at most, and one more replaces a stamp, whose
number a later publication may get; with fewer entries more stamps are replaced. *Channel*: the
buffer is -1, which the code turns into one slot; three values fill the slot, wait for it and come after a
close. *Legacy publisher*: two processes are a publisher and an ordinary publication, two publishers, or a
publisher and whoever died before it; two staging names are the live directory and one a Cargo without a
publisher still writes to. *Process*: one byte is enough to stay within, meet or exceed a limit of one or
none; a descendant that inherits the pipes is the case the code is written for, more of them would do the
same. *Prewarm*: a limit of 0 makes every release sweep, and a bound of 1 makes a target of 2 bytes one
that is discarded; two actors are the user of a domain and one who removes it, or a worker and a request.

Process symmetry is used in `store_policy`, `store_floor` and `bookkeeping`, which check no liveness.

**Deadlock** is checked for all but `std_async`: some process can always start, finish or die. It is
switched off there, since the barrier's last generation is a bound and all handles of a channel may be
dropped.

**Fairness** is weak fairness, with one exception, of these actions only:

- `ManagerStep(p)` in `OvenStore`: a process that holds the manager lock goes on with its operation or
  dies (death releases a `flock`). The steps contain no wait for another process: entry locks are only
  tried. Nothing is assumed of a process that waits for the manager lock, and none is promised to get
  it, since `flock` is not fair.
- the steps of a barrier task that is not suspended, and of one that was woken; a task that arrives or
  cancels does so freely. Tokio polls what is woken.
- `PollSender` and `PollReceiver`, `Answer` in `AsyncOneshot`: polls of a future that can make progress.
  Sends, closes, drops and cancellations are not fair: the properties are about waiters, and hold
  whether or not anybody else does something again.
- `Supervisor` and `Reads` in `BoundedProcess`: two threads and the caller's are scheduled. The group, the
  caller, the clock and errors owe nothing.
- the steps of a cache operation and of the prewarm worker, once begun; whether a build or an analysis
  starts or ends is open.
- `Step(p)` in `LegacyPublisher`, which includes that Cargo ends: the code sets no limit to its time, only
  to its bytes. The exception is strong fairness of `WaitsForManager(p)`: a publisher asks for the manager
  lock while it holds its own, and `LocksAreReleased` needs that a stream of ordinary publications, each
  of which takes the manager lock and is refused, does not pass it over for ever. Kernel lock queues serve
  waiters in order, but the code does not insist on it.

## 4. Proofs

`tlapm` checks every theorem of the eight proof modules, for any number of processes, tasks and entries and
any limits. Together they state every property of the passing runs that is not a liveness property.

The assumptions are those of the modules (`BarrierAssumption`, `ChannelAssumption`, `StoreAssumption`,
`BatchAssumption`, `CatalogAssumption`, `AccountingAssumption`, `LegacyAssumption`, `ConstantsAssumption`,
`CacheAssumption`): finite
sets where something is counted, natural sizes and limits, functions with the right domains, `None` (`Unset` in
the supervision) unlike what it is told apart from, at least one party, no task that is both producer and consumer,
and in the cache
more inode numbers than paths and open files can use. TLC evaluates them in every run. The
bounds (`MaxGeneration`, `MaxClock`, `MaxSends`, `MaxWritten`, ...) are arbitrary naturals in the proofs.

Each argument has an inductive invariant, a conjunction of named parts; one lemma per part says that every
step preserves it, with one proof step per action.

| Module | Invariant | Theorems that state properties of the runs |
|---|---|---|
| `StdAsyncProofs` | `IInv` (barrier), `ChInv`, `OneshotInv` | `SlotsAreAccountedFor`, `CompletedSlotsUnique`, `WakeupNeverLost`; `SlotsAreConserved`, `NoValueIsLost`, `NoneStaysFinal`, `OneshotDeliversOnce` |
| `OvenStoreProofs` | `IInv`, `SInv` | `HandedOutStaysLeased`, `LiveStagingSurvives`, `LeasesProtect`, `OrdinaryPlansStayUnique`, `SweepsAreExhaustive`, `EvictionIsByAge`, `StoreKeepsPromise` |
| `OvenBatchProofs` | `BatchInv` | `IndexFollowsDurableMembers`, `LeasedEntriesSurvive` |
| `StoreCatalogProofs` | `CatalogInv`, `CapacityInv` | `CatalogsAreCurrent`, `CapacitiesNeverUnderstate`, `AdmissionsAreSwept` |
| `StoreAccountingProofs` | `AccountingInv` | `InspectionsAreExact`, `PrunesAreAnnounced`, `PrunesReachTheTarget` |
| `FoldLemmas` | | lemmas only |
| `LegacyPublisherProofs` | `LInv` | `StagingSurvives`, `PublicationsStayApart`, `BakesAreNeeded` |
| `CargoProofs` | `PInv` (supervision), `CInv`, `QueueInv` | `NobodyIsLeft`, `TerminationTellsTheTruth`, `CompletionIsUndisturbed`; `MeasuredRecordsHideNothing`, `LeasesAreSpared`, `OneLeasedWorker` |

Type correctness is a theorem of its own where the types say something (`TypeCorrect`, `StoreTypeCorrect`,
`BatchTypeCorrect`, `CatalogTypeCorrect`, `AccountingTypeHolds`, `LegacyTypeCorrect`, `ProcessTypeCorrect`,
`ChannelTypeCorrect`). In the two store modules whose sweep is a fold, it includes that leased entries stay on
disk.

**Barrier.** That completed generations have distinct slots does not follow from itself: a step
completes a generation, and one must know that the slots held and free are, without repetition, exactly
`0 .. nextSlot-1` (`SlotsAccountedFor`), and that the history `seats` shows for the open generation just
those who are registered (`SeatsMatchRegistrations`), which in turn needs that nobody's local generation
is ahead (`LocalsBehind`). The completing step then has `parties` distinct slots below `parties`. The
lost-wakeup argument is separate: whoever checked in an old generation created its `Notified` before the
generation advanced, so either the notify counter has moved since or the completer has yet to notify.

**Channels.** Slots are counted, so a step that moves one must move exactly one: a sender stands in line
once, and without a slot (`LineInv`), and only tasks that wait are in line (`TaskInv`). Whoever gives a slot
back then either frees it or grants it to one sender who had none. `NoneIsFinal` is the deeper one: it needs
that a channel once drained stays drained (`EndInv`), and for a closed bounded channel this rests on the
count: if every slot is free and the queue is empty, nobody has a permit or a granted slot left with which to
add a value after the close (`SlotInv`). That no more slots are free than there are follows from the count
too. *Oneshot*: the cell holds the value exactly if a sender was told so, and the value leaves it together
with the receiver, so a receive that is cancelled leaves both.

**Store.** The first invariant says who is where: `LockInv` (a process in the critical section has the
manager lock, alone; published readers exclude a holder), `RequestInv` (which requests occur at which
place), `LeaseInv` (what is handed out or collected by a selection is leased and readable), `RemovalInv`
(the sweep's victim is leased by nobody while it is being removed, since leases are only granted
under the manager lock) and `AdmissionInv` (what is being published is not there). From these a half-removed
entry is private to the remover (`RemovalStaysPrivate`), staging is private to its publisher, and
`LeasesProtect` follows action by action: the only steps that change a directory are the removals of an
unleased victim and the rename onto a free name.

The second, `SInv`, is about sweeps and searches in progress. `ScanInv`: what a sweep takes for kept is what
is on disk, although it measured before it began to remove, and whatever it is done with and did not find
leased lies outside the pending domain. The end of a pass then is `SweepIsExhaustive`, and since a pass
visits by age, `EvictsOldestFirst` follows from the same part. `PlanInv`: from the search of an ordinary
publication to its commit its content is nowhere else, which the second sweep in between cannot disturb since
sweeps only remove, and which no other publisher or import can, since the manager lock is held throughout. An
import makes no search and has no such fact, so a commit that adds an equal plan is an import's
(`OnlyImportsDuplicate`).

`StoreKeepsPromise` is the refinement. `PromiseInit` maps the initial states; `StartsPromise`, `GoesPromise`
and `EndsPromise` map the steps that begin an operation, advance it and end it. Beginning a removal, a
removal that fails or dies, commits, leases and deaths are steps of `StorePromise` or change nothing it sees.
The invariant is needed where the promise has a guard: an entry goes while nobody holds it (`RemovalInv`),
appears under a free name (`AdmissionInv`), and is handed out whole (`LeaseInv`).

**Batch.** `PhaseInv` ties the publisher's place to what is pending and renamed; `DurableInv`
says that after `SyncMembers` every visible member is durable, *including members an earlier, dead publisher had
renamed without synchronizing*, which is why the synchronization may not be skipped when no member is
pending (that shortcut is the mutant); `RenameTargetsAreFree` (proved as `RenameTargetsStayFree`) gives that
the rollback removes only what the batch has itself renamed, and `LeaseInv` that nobody can have leased it yet.

**Catalog.** A catalog whose stamp is the directory's describes the directory. Every change takes a stamp
nobody remembers; that there is one is a counting argument (`FreshIsNew`). So after a change no catalog is
current but the publisher's own, and that one is only carried over if it was current just before the rename:
its own admission sweep may have changed the directory after it was read. `CatalogsAreCurrent` does not depend
on what a sweep removes or on the totals.

The totals are about bytes. In whichever order entries are listed, the charges of a set of entries add up to the
bytes of the allocations below them (`ChargedOnce`). A new entry raises nobody else's charge, and its own is at
most its whole stage, which is what `StoreCapacity::add` adds to the totals; so they cover the canonical count,
of the store and of each domain, publication by publication (`CapacityInv`).
`AdmissionIsSwept` has two cases. An excused publication fits, since the retained totals cover what is there. A
sweep either stops because the store fits, and then it fits by the canonical count too, although the sweep counts
by recency once it has removed something; or it has visited everything, and an entry of the pending domain is
passed over only if it is leased, since a domain over its allowance excludes only the others.

**Accounting.** A cached listing may be wrong: it names an access stamp that has since been replaced. The
invariant says that it is wrong about nothing else: each listing is its entry's files with one number in the
place of the stamp (`ListingShape`), while the files and stamps that are there have numbers and sizes as a
filesystem gives them (`Contents`, `Stamps`). This holds however numbers are handed out, and gives the upper
bound of an inspection and its split by leases. If the listings agree besides, the numbers they name for stamps
are as distinct from one another and from all immutable files as the real ones (`Listings`). Charging either then
gives the same bytes, because the sum over distinct inodes does not depend on which numbers the stamps have.
`PrunesReachTheTarget` follows from the
exactness of the count at each visit and from what a completed sweep leaves. `PrunesAreAnnounced` compares the
retention pass of the prune with that of the preview, which starts from more entries. It rests on what such a pass
does, said without the pass (`LimitsOutcome`): an idle entry goes just if removing every older idle one is not
enough. Fewer entries to begin with can only make it enough sooner.

**Sums, orderings and folds.** A theorem with an operator parameter, as the library's induction principles have,
cannot be used here. `FoldLemmas` therefore states induction with a *set* of naturals (`NatSetInduction`) or of
finite sets (`SubsetInduction`), and proves with it that the recursive functions behind `SumFunctionOnSet`
and `FoldLeft` exist and satisfy their equations (`FoldExists`, `FoldLeftExists`), that a sum over
disjoint sets is the sum of the sums, that the charges of a listing add up to the whole (`ChargedOnce`), and that
a finite set has a listing in any strict order (`SortedSeqExists`). The operators of the models are those of the
community modules; the lemmas are about their definitions there.

**Compatibility publisher.** The publisher lock surrounds all a compatibility publisher owns (`HoldInv`,
`OwnerInv`), but an ordinary publication only probes it and gives it back. What keeps the two apart is the
manager lock, which the ordinary publication holds while it stages and without which a publisher gets neither
past its second lookup nor past its reservation: `MeetingInv` says exactly where a publisher can be
while somebody stages. `NoSecondBake` is part of the invariant, since the second lookup is what establishes it.

**Supervision.** A group that was killed stays empty, since only members fork (`QuietInv`). What a reader
retained and noted accounts for every byte written (`StreamInv`): without an excess, what is kept and what is
in the pipe is what was written; with one, exactly the limit is kept. A result is only formed when both
readers are done (`DoneInv`), so nothing is left in a pipe that could contradict it, and a child that is
reaped without a request ended by itself (`ChildInv`).

**Cache and prewarm queue.** Locks belong to inodes, and paths change what they name. The invariant therefore
relates three things: who holds which lock at which place (`LockInv`), that the open file of an acquired
domain is the one its path names (`LeaseInv`), and what a sweep may be removing (`PruneSparesLeased`): a leased
domain cannot be a victim, as its lock is shared and the sweep's is exclusive. `RecordInv` is about records: until
a release has measured a domain in use (`RacedInv`), every record that claims to be measured, and every size about to
be written as one, covers what the domain holds, and no domain in use has such a record. A build can therefore
not falsify one, dying in it included, and a removal that stops half-way leaves less than the record says, never
more. The queue's flag, its worker and the worker's lease are `QueueInv`, over
the invariant of the cache. A file can always be created under a new inode number, again by counting
(`FreshInodeExists`).

**Only model-checked.** The liveness properties, for want of fairness reasoning in the prover:
`EveryoneIsReleased`, `WaitersLeaveClosedChannel`, `ReceiversSeeTheEnd`, `EveryReceiveEnds`,
`ManagerIsReleased`, `LocksAreReleased`, `SupervisionEnds`, `CacheManagerIsReleased`. `LspDocuments` has no
theorem: the property its run is about does not hold.

## 5. Findings

Each is a run in which TLC finds the quoted sentence violated; the counterexample is a history of the
code as it is.

- `store_floor` — `FloorFitsOrLeased`. A reservation is to reclaim "until the floor fits or only live
  leases are left" (`store.rs:1797`). `prune_to_limits` passes over entries of other domains while the
  pending domain is over its allowance, and does not return to them once it is not. The pass may end with
  neither.
- `batch_partial` — `NeverExposesPartialSuite`. `publish_batch` "can never expose a selectable partial
  suite" (`store.rs:1176`). It finds a member retained, sweeps for the remaining ones, evicts the retained
  one, and commits the index.
- `listings` — `ListingsStayValid`. "Entries under [`ENTRIES_DIRECTORY`] never change after publication, so a
  listing taken once stays valid for the entry's lifetime" (`store.rs:5106`). The listing contains the inode of
  the access stamp, which each use replaces; the freed number, given to another entry's file, makes that file look
  like a hard link that is already charged, and the store is taken to be smaller than it is. A test comment
  records that the equality "failed on ext4 while passing on APFS" (`store.rs:7363`).
- `preview` — `PreviewReportsWhatIsLeft`. A dry run is to report "the allocation the user would actually be left
  with" (`store.rs:4812`). Its second pass sweeps a store from which the first has removed nothing. With a superseded
  entry and an older ordinary one, a prune removes the first and is within the limit; the preview names both and
  reports what would then be left. `PruneIsAnnounced` is what holds: a prune removes nothing the preview did not
  name.
- `cache_refresh` — `RefreshOnlyWhenIdle`. A release is to "refresh metadata only when no other process is
  actively using this compatibility domain" (`generated_cache.rs:108`, also `723`). `refresh_size_if_idle` opens the
  activity file without the manager lock. If the domain is removed and acquired again before it locks the file
  it has opened, it measures, and may discard, a target in use.
- `lsp_documents` — `DependencyUsesOpenContents`. "If a dependency is currently open in the editor, uses
  its in-memory contents" (`backend.rs:568`). `analyze_document` stores its result without asking whether
  the document was changed again or closed while it waited for the client; afterwards those who import the
  document read a text the editor does not show, until it is analysed again.

Met while modelling, and described here without a run of their own:

- `SenderPermit.send` "either delivers the value or returns it" (`channel.incn:20`, `172`), but a bounded
  permit whose receivers are gone answers `Ok`: `PermitSend` adds to a queue nobody will read.
- An error while Cargo is watched returns without ending Cargo (`compat.rs:3525`), which goes on writing to its
  staging directory. The model has such a Cargo, but no property is about it: nobody reads that directory again,
  and a reclamation that meets it removes it, or fails and is repeated by the next publisher.
- `cli_reference.md:314` says a publication is refused when a domain exceeds its limit or when leases prevent
  reclaiming enough. `prune_for_admission` publishes above the limits when leases keep entries in place; its
  own comment (`store.rs:1946`) calls the limits targets, and `SweepIsExhaustive` is what holds.
- `StoreCatalog` assumes that two changes of the entries directory have different stamps. Where the
  filesystem's clock is too coarse for that, `CatalogIsCurrent` does not hold.
- An entry whose manifest an interrupted removal took away makes `collect_entries_with` fail, and with it
  every later sweep of the store (`CollectFails`; `store.rs:2394`).

## 6. Not modelled

- *Compiler* (syntax, frontend, IR, emission, formatter, driver), *rustc and Cargo planning*, *registry*,
  *interop*, *Rust inspection*: sequential translations of large data. Their correctness is about the
  meaning of programs and the content of plans, not about steps, and their inputs are out of TLC's reach.
- *Publisher execution, closure proofs, source archives, progress output*, the command line: I/O,
  encodings and reports.
- *`Mutex`, `RwLock`, `Semaphore`, tasks, timers and the runtime of std.async*: forwards to tokio without
  state of their own. *The other standard library loaves*: sequential library code.
- *The project lockfile*: one guard around a write to a private file and its rename. The guard of older
  compilers, which would make it interesting, is inert for `oven.lock` (`lock.rs:474`).
- Of the store: what a mirror transfers before a verified import publishes it, the read-only inspections other than the one
  `StoreAccounting` has. Of the compatibility publisher: what it builds. Of the language server: the
  requests, each of which reads one snapshot of the map. Of the cache: dry runs and reports.
- Symbolic links, permissions and foreign files below a store, which the code refuses.

## 7. Plan

Done: the store (`OvenStore` implementing `StorePromise`, `OvenBatch`, `StoreCatalog`, `StoreAccounting`),
the compatibility publisher, process supervision, the generated cache with the prewarm queue, the open
documents, and the primitives of std.async; proofs of all their safety properties. Next, in this order:

1. **AsyncRace** (`race.rs`, `time.rs`): `race` and `race_timeout`, cancellation of the losers.
2. Mirrors (`store_mirror.rs`): imports from a second store while it is swept.
