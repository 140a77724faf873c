--------------------------- MODULE LegacyPublisher ---------------------------
(***************************************************************************)
(* The compatibility publisher, which runs Cargo in a private staging      *)
(* directory of the store, beside ordinary publications.  Two locks are    *)
(* involved, in opposite orders: a compatibility publisher holds           *)
(* .publisher.lock for its whole transaction and takes the manager lock    *)
(* three times on the way; an ordinary publication holds the manager lock  *)
(* and tries the publisher's to see whether the staging there is dead.     *)
(*                                                                         *)
(* Retention is abstract here: any manager holder that sweeps may remove   *)
(* any entries (OvenStore has the policy).  Cargo runs in a process group  *)
(* of its own, so it outlives a publisher that dies or gives up on it, and *)
(* while it runs it may create its directory again.                        *)
(***************************************************************************)
EXTENDS Naturals, FiniteSets

CONSTANTS
  Processes, \* those that prepare or publish
  Receipts,  \* what is prepared or published
  Suites,    \* the receipts of the compiler's own test suite
  Dirs,      \* names of staging directories; 0 is none
  Nobody     \* holder of a free lock, request of an idle process

ASSUME LegacyAssumption ==
  /\ Nobody \notin Processes /\ Suites \subseteq Receipts /\ Dirs \subseteq Nat \ {0}

VARIABLES
  publisherLock, \* the holder of legacy-cargo-staging/.publisher.lock
  managerLock,   \* the holder of .manager.lock
  root,          \* legacy-cargo-staging exists
  staging,       \* the .legacy-cargo-* directories in it
  cargo,         \* directories in which a Cargo process group is running
  entries,       \* receipts with an entry their requests can reuse: one that
                 \* exists and does not serve the request counts as none
  at,            \* process -> where it is
  req,           \* process -> the receipt it works for
  mine           \* process -> its PublisherStagingCleanup's directory, or 0

legacyVars == <<publisherLock, managerLock, root, staging, cargo, entries, at, req, mine>>

\* A compatibility publisher past its reservation, and up to its hand-off.
Baking == {"create", "spawn", "monitor", "ensure", "publish", "publishing"}
Owning == {"spawn", "monitor", "ensure", "publish", "publishing", "cleanup"}
WithPublisher == {"recheck", "reclaim", "reserve", "sweep", "unlock", "oReclaim"}
                   \cup Baking \cup Owning
WithManager   == {"sweep", "publishing", "oProbe", "oReclaim", "oStage"}

LegacyTypeOK ==
  /\ publisherLock \in Processes \cup {Nobody} /\ managerLock \in Processes \cup {Nobody}
  /\ root \in BOOLEAN
  /\ staging \subseteq Dirs /\ cargo \subseteq Dirs /\ entries \subseteq Receipts
  /\ at \in [Processes -> {"idle", "lookup", "open", "lock", "oLock"} \cup WithPublisher \cup WithManager]
  /\ req \in [Processes -> Receipts \cup {Nobody}]
  /\ mine \in [Processes -> Dirs \cup {0}]

LegacyInit ==
  /\ publisherLock = Nobody /\ managerLock = Nobody
  /\ root = FALSE /\ staging = {} /\ cargo = {}
  /\ entries = {}
  /\ at = [p \in Processes |-> "idle"]
  /\ req = [p \in Processes |-> Nobody]
  /\ mine = [p \in Processes |-> 0]

-----------------------------------------------------------------------------
Goto(p, next) == at' = [at EXCEPT ![p] = next]

\* A return: locks held by p are given back.
Leave(p) ==
  /\ at' = [at EXCEPT ![p] = "idle"] /\ req' = [req EXCEPT ![p] = Nobody]
  /\ publisherLock' = IF publisherLock = p THEN Nobody ELSE publisherLock
  /\ managerLock' = IF managerLock = p THEN Nobody ELSE managerLock

(* A compatibility publication: prepare of one plan or of the suite. *)

Prepare(p, r) ==
  /\ at[p] = "idle"
  /\ Goto(p, "lookup") /\ req' = [req EXCEPT ![p] = r]
  /\ UNCHANGED <<publisherLock, managerLock, root, staging, cargo, entries, mine>>

\* The fast lookup, a selection under the manager lock, before any manifest is
\* inspected; the inspection may refuse the request.
Lookup(p) ==
  /\ at[p] = "lookup" /\ managerLock = Nobody
  /\ \/ req[p] \notin entries /\ Goto(p, "open") /\ UNCHANGED <<publisherLock, managerLock, req>>
     \/ Leave(p)
  /\ UNCHANGED <<root, staging, cargo, entries, mine>>

\* acquire_publisher_lock creates the staging root, then waits for the lock.
OpenRoot(p) ==
  /\ at[p] = "open"
  /\ root' = TRUE /\ Goto(p, "lock")
  /\ UNCHANGED <<publisherLock, managerLock, staging, cargo, entries, req, mine>>

\* Mutant: a plan's publisher does not look again once it has the lock.
LockPublisherWithoutRecheck(p) ==
  /\ at[p] = "lock" /\ publisherLock = Nobody
  /\ publisherLock' = p
  /\ Goto(p, "reclaim")
  /\ UNCHANGED <<managerLock, root, staging, cargo, entries, req, mine>>

\* The suite's publisher does not look for a winner, a plan's does.
LockPublisher(p) ==
  /\ at[p] = "lock" /\ publisherLock = Nobody
  /\ publisherLock' = p
  /\ Goto(p, IF req[p] \in Suites THEN "reclaim" ELSE "recheck")
  /\ UNCHANGED <<managerLock, root, staging, cargo, entries, req, mine>>

Recheck(p) ==
  /\ at[p] = "recheck" /\ managerLock = Nobody
  /\ \/ req[p] \notin entries /\ Goto(p, "reclaim") /\ UNCHANGED <<publisherLock, managerLock, req>>
     \/ Leave(p)
  /\ UNCHANGED <<root, staging, cargo, entries, mine>>

\* reclaim_stale_publisher_staging; a Cargo that still writes may make the
\* removal of its directory fail.
ReclaimStale(p) ==
  /\ at[p] = "reclaim"
  /\ \/ staging' = {} /\ Goto(p, "reserve") /\ UNCHANGED <<publisherLock, managerLock, req>>
     \/ staging' \in SUBSET staging /\ Leave(p)
  /\ UNCHANGED <<root, cargo, entries, mine>>

\* Mutant: the reservation does not wait for the manager lock.
LockForReservationAtOnce(p) ==
  /\ at[p] = "reserve"
  /\ Goto(p, "create")
  /\ UNCHANGED <<publisherLock, managerLock, root, staging, cargo, entries, req, mine>>

\* reserve_legacy_cargo_publisher_capacity sweeps under the manager lock.
LockForReservation(p) ==
  /\ at[p] = "reserve" /\ managerLock = Nobody
  /\ managerLock' = p /\ Goto(p, "sweep")
  /\ UNCHANGED <<publisherLock, root, staging, cargo, entries, req, mine>>

ReserveCapacity(p) ==
  /\ at[p] = "sweep"
  /\ entries' \in SUBSET entries
  /\ \/ managerLock' = Nobody /\ Goto(p, "create") /\ UNCHANGED <<publisherLock, req>>
     \/ Leave(p)
  /\ UNCHANGED <<root, staging, cargo, mine>>

\* create_publisher_staging picks a name nobody has; the cleanup guard follows.
CreateStaging(p) ==
  /\ at[p] = "create"
  /\ \/ \E d \in Dirs \ (staging \cup cargo \cup {mine[q] : q \in Processes}) :
          /\ staging' = staging \cup {d} /\ mine' = [mine EXCEPT ![p] = d]
          /\ Goto(p, "spawn")
          /\ UNCHANGED <<publisherLock, managerLock, req>>
     \/ Leave(p) /\ UNCHANGED <<staging, mine>>
  /\ UNCHANGED <<root, cargo, entries>>

SpawnCargo(p) ==
  /\ at[p] = "spawn"
  /\ \/ cargo' = cargo \cup {mine[p]} /\ Goto(p, "monitor")
     \/ Goto(p, "cleanup") /\ UNCHANGED cargo
  /\ UNCHANGED <<publisherLock, managerLock, root, staging, entries, req, mine>>

\* The monitor sees Cargo's process end, although descendants may go on; its
\* output is captured, or it failed.
CargoEnds(p) ==
  /\ at[p] = "monitor"
  /\ cargo' \in {cargo, cargo \ {mine[p]}}
  /\ Goto(p, "ensure") \/ Goto(p, "cleanup")
  /\ UNCHANGED <<publisherLock, managerLock, root, staging, entries, req, mine>>

\* The staging tree outgrew the allowance: the group is killed.
CargoExceeds(p) ==
  /\ at[p] = "monitor"
  /\ cargo' = cargo \ {mine[p]} /\ Goto(p, "cleanup")
  /\ UNCHANGED <<publisherLock, managerLock, root, staging, entries, req, mine>>

\* A poll or a scan fails: the error is returned and Cargo is left alone.
MonitorFails(p) ==
  /\ at[p] = "monitor"
  /\ Goto(p, "cleanup")
  /\ UNCHANGED <<publisherLock, managerLock, root, staging, cargo, entries, req, mine>>

\* ensure_legacy_cargo_batch_physical_capacity under the manager lock.
EnsureCapacity(p) ==
  /\ at[p] = "ensure" /\ managerLock = Nobody
  /\ Goto(p, "publish") \/ Goto(p, "cleanup")
  /\ UNCHANGED <<publisherLock, managerLock, root, staging, cargo, entries, req, mine>>

\* publish_from_legacy_cargo, or the batch of a suite: the permission skips
\* the probe of the publisher's own lock.
LockForHandOff(p) ==
  /\ at[p] = "publish" /\ managerLock = Nobody
  /\ managerLock' = p /\ Goto(p, "publishing")
  /\ UNCHANGED <<publisherLock, root, staging, cargo, entries, req, mine>>

HandOff(p) ==
  /\ at[p] = "publishing"
  /\ \E kept \in SUBSET entries : entries' \in {kept, kept \cup {req[p]}}
  /\ managerLock' = Nobody /\ Goto(p, "cleanup")
  /\ UNCHANGED <<publisherLock, root, staging, cargo, req, mine>>

\* PublisherStagingCleanup gives up after three attempts.
CleanUp(p) ==
  /\ at[p] = "cleanup"
  /\ staging' \in {staging, staging \ {mine[p]}}
  /\ mine' = [mine EXCEPT ![p] = 0] /\ Goto(p, "unlock")
  /\ UNCHANGED <<publisherLock, managerLock, root, cargo, entries, req>>

UnlockPublisher(p) ==
  /\ at[p] = "unlock"
  /\ Leave(p)
  /\ UNCHANGED <<root, staging, cargo, entries, mine>>

-----------------------------------------------------------------------------
(* An ordinary publication. *)

Publish(p, r) ==
  /\ at[p] = "idle"
  /\ Goto(p, "oLock") /\ req' = [req EXCEPT ![p] = r]
  /\ UNCHANGED <<publisherLock, managerLock, root, staging, cargo, entries, mine>>

LockForPublish(p) ==
  /\ at[p] = "oLock" /\ managerLock = Nobody
  /\ managerLock' = p /\ Goto(p, "oProbe")
  /\ UNCHANGED <<publisherLock, root, staging, cargo, entries, req, mine>>

\* Mutant: the publisher's lock is waited for.
ProbeWaits(p) ==
  /\ at[p] = "oProbe" /\ publisherLock = Nobody
  /\ IF root THEN publisherLock' = p /\ Goto(p, "oReclaim")
             ELSE Goto(p, "oStage") /\ UNCHANGED publisherLock
  /\ UNCHANGED <<root, staging, cargo, entries, mine, managerLock, req>>

\* Mutant: the staging is taken for a dead publisher's without trying the lock.
ProbeSkipsLock(p) ==
  /\ at[p] = "oProbe"
  /\ staging' = {} /\ Goto(p, "oStage")
  /\ UNCHANGED <<publisherLock, managerLock, root, cargo, entries, req, mine>>

\* reject_active_legacy_cargo_publisher: no staging root, no publisher; a lock
\* that would block refuses the publication; a free one is taken.
Probe(p) ==
  /\ at[p] = "oProbe"
  /\ \/ ~root /\ Goto(p, "oStage") /\ UNCHANGED <<publisherLock, managerLock, req>>
     \/ /\ root /\ publisherLock = Nobody
        /\ publisherLock' = p /\ Goto(p, "oReclaim")
        /\ UNCHANGED <<managerLock, req>>
     \/ root /\ publisherLock # Nobody /\ Leave(p)
  /\ UNCHANGED <<root, staging, cargo, entries, mine>>

\* It removes what dead publishers left and gives the lock back.
ProbeReclaims(p) ==
  /\ at[p] = "oReclaim"
  /\ \/ staging' = {} /\ publisherLock' = Nobody /\ Goto(p, "oStage") /\ UNCHANGED <<managerLock, req>>
     \/ staging' \in SUBSET staging /\ Leave(p)
  /\ UNCHANGED <<root, cargo, entries, mine>>

\* Admission, staging and rename.
PublishEnds(p) ==
  /\ at[p] = "oStage"
  /\ \E kept \in SUBSET entries : entries' \in {kept, kept \cup {req[p]}}
  /\ Leave(p)
  /\ UNCHANGED <<root, staging, cargo, mine>>

-----------------------------------------------------------------------------
(* Deaths, and Cargo on its own. *)

PublisherDies(p) ==
  /\ at[p] # "idle"
  /\ Leave(p) /\ mine' = [mine EXCEPT ![p] = 0]
  /\ UNCHANGED <<root, staging, cargo, entries>>

CargoWrites(d) ==
  /\ d \in cargo
  /\ staging' = staging \cup {d}
  /\ UNCHANGED <<publisherLock, managerLock, root, cargo, entries, at, req, mine>>

CargoStops(d) ==
  /\ d \in cargo
  /\ cargo' = cargo \ {d}
  /\ UNCHANGED <<publisherLock, managerLock, root, staging, entries, at, req, mine>>

-----------------------------------------------------------------------------
Step(p) ==
  \/ Lookup(p) \/ OpenRoot(p) \/ LockPublisher(p) \/ Recheck(p) \/ ReclaimStale(p)
  \/ LockForReservation(p) \/ ReserveCapacity(p) \/ CreateStaging(p) \/ SpawnCargo(p)
  \/ CargoEnds(p) \/ CargoExceeds(p) \/ MonitorFails(p)
  \/ EnsureCapacity(p) \/ LockForHandOff(p) \/ HandOff(p) \/ CleanUp(p) \/ UnlockPublisher(p)
  \/ LockForPublish(p) \/ Probe(p) \/ ProbeReclaims(p) \/ PublishEnds(p)

LegacyNext ==
  \/ \E p \in Processes : \/ \E r \in Receipts : Prepare(p, r) \/ Publish(p, r)
                          \/ Step(p) \/ PublisherDies(p)
  \/ \E d \in Dirs : CargoWrites(d) \/ CargoStops(d)

LegacySpec == LegacyInit /\ [][LegacyNext]_legacyVars

\* Steps that wait for the manager lock.
WaitsForManager(p) ==
  Lookup(p) \/ Recheck(p) \/ LockForReservation(p) \/ EnsureCapacity(p) \/ LockForHandOff(p)

\* A process that has begun goes on, unless it dies, and Cargo ends: the code
\* sets no limit to the time it may take.  File locks are not handed over in
\* order, but one who waits is not passed over for ever.
LegacyFairness ==
  \A p \in Processes : WF_legacyVars(Step(p)) /\ SF_legacyVars(WaitsForManager(p))

-----------------------------------------------------------------------------
(* Properties *)

\* Reclamation of stale staging, by ordinary publications and by other
\* compatibility publishers, never takes the directory of one that is alive,
\* whatever Cargo processes outlived their publishers.
LiveStagingSurvives == \A p \in Processes : mine[p] # 0 => mine[p] \in staging

\* Ordinary publishers "refuse to overlap its private staging allocation": no
\* ordinary publication is between its probe and its rename while a
\* compatibility publisher owns staging, although the probe gives the lock
\* back at once.
PublicationsDoNotOverlap ==
  \A p, q \in Processes : mine[p] # 0 => at[q] \notin {"oReclaim", "oStage"}

\* Once a plan's publisher has found nothing to reuse under its lock nobody
\* publishes that receipt but itself: a concurrent winner cannot make it
\* "rebuild and publish a second" plan for the same receipt.
NoSecondBake ==
  \A p \in Processes : at[p] \in Baking \cup {"reclaim", "reserve", "sweep"} /\ req[p] \notin Suites
                     => req[p] \notin entries

\* Both locks are given back again and again, although they are taken in opposite
\* orders: nobody keeps one for ever.
LocksAreReleased == []<>(managerLock = Nobody) /\ []<>(publisherLock = Nobody)
=============================================================================
