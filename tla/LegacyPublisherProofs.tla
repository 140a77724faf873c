------------------------ MODULE LegacyPublisherProofs ------------------------
(***************************************************************************)
(* Proofs about compatibility publishers beside ordinary publications, for *)
(* any processes, receipts and staging directories.  The publisher lock is *)
(* held around everything a compatibility publisher owns; an ordinary      *)
(* publication does not keep it, but while it stages it keeps the manager  *)
(* lock, without which a compatibility publisher does not get past its     *)
(* second look or its reservation (MeetingInv).                            *)
(***************************************************************************)
EXTENDS LegacyPublisher, TLAPS

\* A process at work knows its receipt, and an owner its directory.
WorkInv ==
  \A p \in Processes : /\ at[p] # "idle" => req[p] \in Receipts
                       /\ at[p] \in Owning => mine[p] \in Dirs

\* Where a process is tells which locks it holds.
HoldInv ==
  \A p \in Processes : /\ at[p] \in WithPublisher <=> publisherLock = p
                       /\ at[p] \in WithManager <=> managerLock = p

\* The lock file is below the staging root.
RootInv == root \/ \A p \in Processes : at[p] # "lock" /\ publisherLock # p

\* Staging is owned under the publisher lock only, and is there.
OwnerInv == \A p \in Processes : mine[p] # 0 => at[p] \in Owning /\ mine[p] \in staging

\* Who may hold the publisher lock while an ordinary publication stages: one
\* that has still to look for a winner, or that never does and has still to
\* reserve.
MeetingInv ==
  \A p, q \in Processes :
    publisherLock = p /\ at[q] = "oStage" =>
      \/ at[p] = "recheck"
      \/ at[p] \in {"reclaim", "reserve"} /\ req[p] \in Suites

LInv == LegacyTypeOK /\ WorkInv /\ HoldInv /\ RootInv /\ OwnerInv /\ MeetingInv /\ NoSecondBake

-----------------------------------------------------------------------------
\* Every step preserves the types.
LEMMA TypeStep ==
    ASSUME LegacyTypeOK, WorkInv, [LegacyNext]_legacyVars PROVE LegacyTypeOK'
<1> USE LegacyAssumption DEF WorkInv, LegacyTypeOK, WithPublisher, WithManager, Baking, Owning, Goto, Leave
<1>1. ASSUME NEW p \in Processes, NEW r \in Receipts, Prepare(p, r) \/ Publish(p, r) PROVE LegacyTypeOK'
  <2>1. at' \in [Processes -> {"idle", "lookup", "open", "lock", "oLock"} \cup WithPublisher \cup WithManager]
    BY <1>1 DEF Prepare, Publish
  <2>2. req' \in [Processes -> Receipts \cup {Nobody}]
    BY <1>1 DEF Prepare, Publish
  <2> QED
    BY <1>1, <2>1, <2>2 DEF Prepare, Publish
<1>2. ASSUME NEW p \in Processes, Lookup(p) \/ OpenRoot(p) PROVE LegacyTypeOK'
  BY <1>2 DEF Lookup, OpenRoot
<1>3. ASSUME NEW p \in Processes, LockPublisher(p) \/ Recheck(p) PROVE LegacyTypeOK'
  BY <1>3 DEF LockPublisher, Recheck
<1>4. ASSUME NEW p \in Processes, ReclaimStale(p) \/ LockForReservation(p) \/ ReserveCapacity(p) PROVE LegacyTypeOK'
  BY <1>4 DEF ReclaimStale, LockForReservation, ReserveCapacity
<1>5. ASSUME NEW p \in Processes, CreateStaging(p) PROVE LegacyTypeOK'
  <2>1. \/ \E d \in Dirs : staging' = staging \cup {d} /\ mine' = [mine EXCEPT ![p] = d]
        \/ UNCHANGED <<staging, mine>>
    BY <1>5, Zenon DEF CreateStaging
  <2>2. staging' \subseteq Dirs /\ mine' \in [Processes -> Dirs \cup {0}]
    <3>1. ASSUME NEW d \in Dirs, staging' = staging \cup {d}, mine' = [mine EXCEPT ![p] = d]
          PROVE  staging' \subseteq Dirs /\ mine' \in [Processes -> Dirs \cup {0}]
      BY <3>1
    <3>2. CASE UNCHANGED <<staging, mine>>
      BY <3>2
    <3> QED
      BY <2>1, <3>1, <3>2
  <2>3. at' \in [Processes -> {"idle", "lookup", "open", "lock", "oLock"} \cup WithPublisher \cup WithManager]
    BY <1>5 DEF CreateStaging
  <2>4. /\ publisherLock' \in Processes \cup {Nobody} /\ managerLock' \in Processes \cup {Nobody}
        /\ req' \in [Processes -> Receipts \cup {Nobody}]
        /\ UNCHANGED <<root, cargo, entries>>
    BY <1>5 DEF CreateStaging
  <2> QED
    BY <2>2, <2>3, <2>4
<1>6. ASSUME NEW p \in Processes, SpawnCargo(p) \/ CargoEnds(p) \/ CargoExceeds(p) \/ MonitorFails(p) PROVE LegacyTypeOK'
  BY <1>6 DEF SpawnCargo, CargoEnds, CargoExceeds, MonitorFails
<1>7. ASSUME NEW p \in Processes, EnsureCapacity(p) \/ LockForHandOff(p) PROVE LegacyTypeOK'
  BY <1>7 DEF EnsureCapacity, LockForHandOff
<1>8. ASSUME NEW p \in Processes, HandOff(p) PROVE LegacyTypeOK'
  BY <1>8 DEF HandOff
<1>9. ASSUME NEW p \in Processes, CleanUp(p) \/ UnlockPublisher(p) PROVE LegacyTypeOK'
  BY <1>9 DEF CleanUp, UnlockPublisher
<1>10. ASSUME NEW p \in Processes, LockForPublish(p) \/ Probe(p) PROVE LegacyTypeOK'
  BY <1>10 DEF LockForPublish, Probe
<1>11. ASSUME NEW p \in Processes, ProbeReclaims(p) PROVE LegacyTypeOK'
  BY <1>11 DEF ProbeReclaims
<1>12. ASSUME NEW p \in Processes, PublishEnds(p) PROVE LegacyTypeOK'
  BY <1>12 DEF PublishEnds
<1>13. ASSUME NEW p \in Processes, PublisherDies(p) PROVE LegacyTypeOK'
  BY <1>13 DEF PublisherDies
<1>14. ASSUME NEW d \in Dirs, CargoWrites(d) \/ CargoStops(d) PROVE LegacyTypeOK'
  BY <1>14 DEF CargoWrites, CargoStops
<1>15. CASE UNCHANGED legacyVars
  BY <1>15 DEF legacyVars
<1> QED
  BY <1>1, <1>2, <1>3, <1>4, <1>5, <1>6, <1>7, <1>8, <1>9, <1>10, <1>11, <1>12, <1>13,
     <1>14, <1>15 DEF LegacyNext, Step

\* Every step knows its receipt and its directory.
LEMMA WorkStep ==
    ASSUME LegacyTypeOK, WorkInv, [LegacyNext]_legacyVars PROVE WorkInv'
<1> USE LegacyAssumption DEF LegacyTypeOK, WorkInv, Owning, Goto, Leave
<1>1. ASSUME NEW p \in Processes, NEW r \in Receipts, Prepare(p, r) \/ Publish(p, r) PROVE WorkInv'
  BY <1>1 DEF Prepare, Publish
<1>2. ASSUME NEW p \in Processes, Lookup(p) \/ OpenRoot(p) PROVE WorkInv'
  BY <1>2 DEF Lookup, OpenRoot
<1>3. ASSUME NEW p \in Processes, LockPublisher(p) \/ Recheck(p) PROVE WorkInv'
  BY <1>3 DEF LockPublisher, Recheck
<1>4. ASSUME NEW p \in Processes, ReclaimStale(p) \/ LockForReservation(p) \/ ReserveCapacity(p) PROVE WorkInv'
  BY <1>4 DEF ReclaimStale, LockForReservation, ReserveCapacity
<1>5. ASSUME NEW p \in Processes, CreateStaging(p) PROVE WorkInv'
  BY <1>5 DEF CreateStaging
<1>6. ASSUME NEW p \in Processes, SpawnCargo(p) \/ CargoEnds(p) \/ CargoExceeds(p) \/ MonitorFails(p) PROVE WorkInv'
  BY <1>6 DEF SpawnCargo, CargoEnds, CargoExceeds, MonitorFails
<1>7. ASSUME NEW p \in Processes, EnsureCapacity(p) \/ LockForHandOff(p) PROVE WorkInv'
  BY <1>7 DEF EnsureCapacity, LockForHandOff
<1>8. ASSUME NEW p \in Processes, HandOff(p) PROVE WorkInv'
  BY <1>8 DEF HandOff
<1>9. ASSUME NEW p \in Processes, CleanUp(p) \/ UnlockPublisher(p) PROVE WorkInv'
  BY <1>9 DEF CleanUp, UnlockPublisher
<1>10. ASSUME NEW p \in Processes, LockForPublish(p) \/ Probe(p) PROVE WorkInv'
  BY <1>10 DEF LockForPublish, Probe
<1>11. ASSUME NEW p \in Processes, ProbeReclaims(p) PROVE WorkInv'
  BY <1>11 DEF ProbeReclaims
<1>12. ASSUME NEW p \in Processes, PublishEnds(p) PROVE WorkInv'
  BY <1>12 DEF PublishEnds
<1>13. ASSUME NEW p \in Processes, PublisherDies(p) PROVE WorkInv'
  BY <1>13 DEF PublisherDies
<1>14. ASSUME NEW d \in Dirs, CargoWrites(d) \/ CargoStops(d) PROVE WorkInv'
  BY <1>14 DEF CargoWrites, CargoStops
<1>15. CASE UNCHANGED legacyVars
  BY <1>15 DEF legacyVars
<1> QED
  BY <1>1, <1>2, <1>3, <1>4, <1>5, <1>6, <1>7, <1>8, <1>9, <1>10, <1>11, <1>12, <1>13,
     <1>14, <1>15 DEF LegacyNext, Step

\* Every step leaves the locks where the program counters say.
LEMMA HoldStep ==
    ASSUME LegacyTypeOK, HoldInv, [LegacyNext]_legacyVars PROVE HoldInv'
<1> USE LegacyAssumption DEF LegacyTypeOK, HoldInv, WithPublisher, WithManager, Baking, Owning, Goto, Leave
<1>1. ASSUME NEW p \in Processes, NEW r \in Receipts, Prepare(p, r) \/ Publish(p, r) PROVE HoldInv'
  BY <1>1 DEF Prepare, Publish
<1>2. ASSUME NEW p \in Processes, Lookup(p) \/ OpenRoot(p) PROVE HoldInv'
  BY <1>2 DEF Lookup, OpenRoot
<1>3. ASSUME NEW p \in Processes, LockPublisher(p) \/ Recheck(p) PROVE HoldInv'
  BY <1>3 DEF LockPublisher, Recheck
<1>4. ASSUME NEW p \in Processes, ReclaimStale(p) \/ LockForReservation(p) \/ ReserveCapacity(p) PROVE HoldInv'
  BY <1>4 DEF ReclaimStale, LockForReservation, ReserveCapacity
<1>5. ASSUME NEW p \in Processes, CreateStaging(p) PROVE HoldInv'
  BY <1>5 DEF CreateStaging
<1>6. ASSUME NEW p \in Processes, SpawnCargo(p) \/ CargoEnds(p) \/ CargoExceeds(p) \/ MonitorFails(p) PROVE HoldInv'
  BY <1>6 DEF SpawnCargo, CargoEnds, CargoExceeds, MonitorFails
<1>7. ASSUME NEW p \in Processes, EnsureCapacity(p) \/ LockForHandOff(p) PROVE HoldInv'
  BY <1>7 DEF EnsureCapacity, LockForHandOff
<1>8. ASSUME NEW p \in Processes, HandOff(p) PROVE HoldInv'
  BY <1>8 DEF HandOff
<1>9. ASSUME NEW p \in Processes, CleanUp(p) \/ UnlockPublisher(p) PROVE HoldInv'
  BY <1>9 DEF CleanUp, UnlockPublisher
<1>10. ASSUME NEW p \in Processes, LockForPublish(p) \/ Probe(p) PROVE HoldInv'
  BY <1>10 DEF LockForPublish, Probe
<1>11. ASSUME NEW p \in Processes, ProbeReclaims(p) PROVE HoldInv'
  BY <1>11 DEF ProbeReclaims
<1>12. ASSUME NEW p \in Processes, PublishEnds(p) PROVE HoldInv'
  BY <1>12 DEF PublishEnds
<1>13. ASSUME NEW p \in Processes, PublisherDies(p) PROVE HoldInv'
  BY <1>13 DEF PublisherDies
<1>14. ASSUME NEW d \in Dirs, CargoWrites(d) \/ CargoStops(d) PROVE HoldInv'
  BY <1>14 DEF CargoWrites, CargoStops
<1>15. CASE UNCHANGED legacyVars
  BY <1>15 DEF legacyVars
<1> QED
  BY <1>1, <1>2, <1>3, <1>4, <1>5, <1>6, <1>7, <1>8, <1>9, <1>10, <1>11, <1>12, <1>13,
     <1>14, <1>15 DEF LegacyNext, Step

\* Every step keeps the lock file below the staging root.
LEMMA RootStep ==
    ASSUME LegacyTypeOK, HoldInv, RootInv, [LegacyNext]_legacyVars PROVE RootInv'
<1> USE LegacyAssumption DEF LegacyTypeOK, HoldInv, RootInv, WithPublisher, Baking, Owning, Goto, Leave
<1>1. ASSUME NEW p \in Processes, NEW r \in Receipts, Prepare(p, r) \/ Publish(p, r) PROVE RootInv'
  BY <1>1 DEF Prepare, Publish
<1>2. ASSUME NEW p \in Processes, Lookup(p) \/ OpenRoot(p) PROVE RootInv'
  BY <1>2 DEF Lookup, OpenRoot
<1>3. ASSUME NEW p \in Processes, LockPublisher(p) \/ Recheck(p) PROVE RootInv'
  BY <1>3 DEF LockPublisher, Recheck
<1>4. ASSUME NEW p \in Processes, ReclaimStale(p) \/ LockForReservation(p) \/ ReserveCapacity(p) PROVE RootInv'
  BY <1>4 DEF ReclaimStale, LockForReservation, ReserveCapacity
<1>5. ASSUME NEW p \in Processes, CreateStaging(p) PROVE RootInv'
  BY <1>5 DEF CreateStaging
<1>6. ASSUME NEW p \in Processes, SpawnCargo(p) \/ CargoEnds(p) \/ CargoExceeds(p) \/ MonitorFails(p) PROVE RootInv'
  BY <1>6 DEF SpawnCargo, CargoEnds, CargoExceeds, MonitorFails
<1>7. ASSUME NEW p \in Processes, EnsureCapacity(p) \/ LockForHandOff(p) PROVE RootInv'
  BY <1>7 DEF EnsureCapacity, LockForHandOff
<1>8. ASSUME NEW p \in Processes, HandOff(p) PROVE RootInv'
  BY <1>8 DEF HandOff
<1>9. ASSUME NEW p \in Processes, CleanUp(p) \/ UnlockPublisher(p) PROVE RootInv'
  BY <1>9 DEF CleanUp, UnlockPublisher
<1>10. ASSUME NEW p \in Processes, LockForPublish(p) \/ Probe(p) PROVE RootInv'
  BY <1>10 DEF LockForPublish, Probe
<1>11. ASSUME NEW p \in Processes, ProbeReclaims(p) PROVE RootInv'
  BY <1>11 DEF ProbeReclaims
<1>12. ASSUME NEW p \in Processes, PublishEnds(p) PROVE RootInv'
  BY <1>12 DEF PublishEnds
<1>13. ASSUME NEW p \in Processes, PublisherDies(p) PROVE RootInv'
  BY <1>13 DEF PublisherDies
<1>14. ASSUME NEW d \in Dirs, CargoWrites(d) \/ CargoStops(d) PROVE RootInv'
  BY <1>14 DEF CargoWrites, CargoStops
<1>15. CASE UNCHANGED legacyVars
  BY <1>15 DEF legacyVars
<1> QED
  BY <1>1, <1>2, <1>3, <1>4, <1>5, <1>6, <1>7, <1>8, <1>9, <1>10, <1>11, <1>12, <1>13,
     <1>14, <1>15 DEF LegacyNext, Step

\* Every step spares the staging of a live publisher.
LEMMA OwnerStep ==
    ASSUME LegacyTypeOK, HoldInv, OwnerInv, [LegacyNext]_legacyVars PROVE OwnerInv'
<1> USE LegacyAssumption DEF LegacyTypeOK, HoldInv, OwnerInv, WithPublisher, Baking, Owning, Goto, Leave
<1>1. ASSUME NEW p \in Processes, NEW r \in Receipts, Prepare(p, r) \/ Publish(p, r) PROVE OwnerInv'
  BY <1>1 DEF Prepare, Publish
<1>2. ASSUME NEW p \in Processes, Lookup(p) \/ OpenRoot(p) PROVE OwnerInv'
  BY <1>2 DEF Lookup, OpenRoot
<1>3. ASSUME NEW p \in Processes, LockPublisher(p) \/ Recheck(p) PROVE OwnerInv'
  BY <1>3 DEF LockPublisher, Recheck
<1>4. ASSUME NEW p \in Processes, ReclaimStale(p) \/ LockForReservation(p) \/ ReserveCapacity(p) PROVE OwnerInv'
  BY <1>4 DEF ReclaimStale, LockForReservation, ReserveCapacity
<1>5. ASSUME NEW p \in Processes, CreateStaging(p) PROVE OwnerInv'
  BY <1>5 DEF CreateStaging
<1>6. ASSUME NEW p \in Processes, SpawnCargo(p) \/ CargoEnds(p) \/ CargoExceeds(p) \/ MonitorFails(p) PROVE OwnerInv'
  BY <1>6 DEF SpawnCargo, CargoEnds, CargoExceeds, MonitorFails
<1>7. ASSUME NEW p \in Processes, EnsureCapacity(p) \/ LockForHandOff(p) PROVE OwnerInv'
  BY <1>7 DEF EnsureCapacity, LockForHandOff
<1>8. ASSUME NEW p \in Processes, HandOff(p) PROVE OwnerInv'
  BY <1>8 DEF HandOff
<1>9. ASSUME NEW p \in Processes, CleanUp(p) \/ UnlockPublisher(p) PROVE OwnerInv'
  BY <1>9 DEF CleanUp, UnlockPublisher
<1>10. ASSUME NEW p \in Processes, LockForPublish(p) \/ Probe(p) PROVE OwnerInv'
  BY <1>10 DEF LockForPublish, Probe
<1>11. ASSUME NEW p \in Processes, ProbeReclaims(p) PROVE OwnerInv'
  BY <1>11 DEF ProbeReclaims
<1>12. ASSUME NEW p \in Processes, PublishEnds(p) PROVE OwnerInv'
  BY <1>12 DEF PublishEnds
<1>13. ASSUME NEW p \in Processes, PublisherDies(p) PROVE OwnerInv'
  BY <1>13 DEF PublisherDies
<1>14. ASSUME NEW d \in Dirs, CargoWrites(d) \/ CargoStops(d) PROVE OwnerInv'
  BY <1>14 DEF CargoWrites, CargoStops
<1>15. CASE UNCHANGED legacyVars
  BY <1>15 DEF legacyVars
<1> QED
  BY <1>1, <1>2, <1>3, <1>4, <1>5, <1>6, <1>7, <1>8, <1>9, <1>10, <1>11, <1>12, <1>13,
     <1>14, <1>15 DEF LegacyNext, Step

\* Every step keeps a compatibility publisher from passing an ordinary one.
LEMMA MeetingStep ==
    ASSUME LegacyTypeOK, HoldInv, RootInv, MeetingInv, [LegacyNext]_legacyVars PROVE MeetingInv'
<1> USE LegacyAssumption DEF LegacyTypeOK, HoldInv, RootInv, MeetingInv, WithPublisher, WithManager, Baking, Owning,
     Goto, Leave
<1>1. ASSUME NEW p \in Processes, NEW r \in Receipts, Prepare(p, r) \/ Publish(p, r) PROVE MeetingInv'
  BY <1>1 DEF Prepare, Publish
<1>2. ASSUME NEW p \in Processes, Lookup(p) \/ OpenRoot(p) PROVE MeetingInv'
  BY <1>2 DEF Lookup, OpenRoot
<1>3. ASSUME NEW p \in Processes, LockPublisher(p) \/ Recheck(p) PROVE MeetingInv'
  BY <1>3 DEF LockPublisher, Recheck
<1>4. ASSUME NEW p \in Processes, ReclaimStale(p) \/ LockForReservation(p) \/ ReserveCapacity(p) PROVE MeetingInv'
  BY <1>4 DEF ReclaimStale, LockForReservation, ReserveCapacity
<1>5. ASSUME NEW p \in Processes, CreateStaging(p) PROVE MeetingInv'
  BY <1>5 DEF CreateStaging
<1>6. ASSUME NEW p \in Processes, SpawnCargo(p) \/ CargoEnds(p) \/ CargoExceeds(p) \/ MonitorFails(p) PROVE MeetingInv'
  BY <1>6 DEF SpawnCargo, CargoEnds, CargoExceeds, MonitorFails
<1>7. ASSUME NEW p \in Processes, EnsureCapacity(p) \/ LockForHandOff(p) PROVE MeetingInv'
  BY <1>7 DEF EnsureCapacity, LockForHandOff
<1>8. ASSUME NEW p \in Processes, HandOff(p) PROVE MeetingInv'
  BY <1>8 DEF HandOff
<1>9. ASSUME NEW p \in Processes, CleanUp(p) \/ UnlockPublisher(p) PROVE MeetingInv'
  BY <1>9 DEF CleanUp, UnlockPublisher
<1>10. ASSUME NEW p \in Processes, LockForPublish(p) \/ Probe(p) PROVE MeetingInv'
  BY <1>10 DEF LockForPublish, Probe
<1>11. ASSUME NEW p \in Processes, ProbeReclaims(p) PROVE MeetingInv'
  BY <1>11 DEF ProbeReclaims
<1>12. ASSUME NEW p \in Processes, PublishEnds(p) PROVE MeetingInv'
  BY <1>12 DEF PublishEnds
<1>13. ASSUME NEW p \in Processes, PublisherDies(p) PROVE MeetingInv'
  BY <1>13 DEF PublisherDies
<1>14. ASSUME NEW d \in Dirs, CargoWrites(d) \/ CargoStops(d) PROVE MeetingInv'
  BY <1>14 DEF CargoWrites, CargoStops
<1>15. CASE UNCHANGED legacyVars
  BY <1>15 DEF legacyVars
<1> QED
  BY <1>1, <1>2, <1>3, <1>4, <1>5, <1>6, <1>7, <1>8, <1>9, <1>10, <1>11, <1>12, <1>13,
     <1>14, <1>15 DEF LegacyNext, Step

\* Every step keeps the receipt of a bake unpublished.
LEMMA BakeStep ==
    ASSUME LegacyTypeOK, HoldInv, MeetingInv, NoSecondBake, [LegacyNext]_legacyVars PROVE NoSecondBake'
<1> USE LegacyAssumption DEF LegacyTypeOK, HoldInv, MeetingInv, NoSecondBake, WithPublisher, WithManager, Baking, Owning,
     Goto, Leave
<1>1. ASSUME NEW p \in Processes, NEW r \in Receipts, Prepare(p, r) \/ Publish(p, r) PROVE NoSecondBake'
  BY <1>1 DEF Prepare, Publish
<1>2. ASSUME NEW p \in Processes, Lookup(p) \/ OpenRoot(p) PROVE NoSecondBake'
  BY <1>2 DEF Lookup, OpenRoot
<1>3. ASSUME NEW p \in Processes, LockPublisher(p) \/ Recheck(p) PROVE NoSecondBake'
  BY <1>3 DEF LockPublisher, Recheck
<1>4. ASSUME NEW p \in Processes, ReclaimStale(p) \/ LockForReservation(p) \/ ReserveCapacity(p) PROVE NoSecondBake'
  BY <1>4 DEF ReclaimStale, LockForReservation, ReserveCapacity
<1>5. ASSUME NEW p \in Processes, CreateStaging(p) PROVE NoSecondBake'
  BY <1>5 DEF CreateStaging
<1>6. ASSUME NEW p \in Processes, SpawnCargo(p) \/ CargoEnds(p) \/ CargoExceeds(p) \/ MonitorFails(p) PROVE NoSecondBake'
  BY <1>6 DEF SpawnCargo, CargoEnds, CargoExceeds, MonitorFails
<1>7. ASSUME NEW p \in Processes, EnsureCapacity(p) \/ LockForHandOff(p) PROVE NoSecondBake'
  BY <1>7 DEF EnsureCapacity, LockForHandOff
<1>8. ASSUME NEW p \in Processes, HandOff(p) PROVE NoSecondBake'
  BY <1>8 DEF HandOff
<1>9. ASSUME NEW p \in Processes, CleanUp(p) \/ UnlockPublisher(p) PROVE NoSecondBake'
  BY <1>9 DEF CleanUp, UnlockPublisher
<1>10. ASSUME NEW p \in Processes, LockForPublish(p) \/ Probe(p) PROVE NoSecondBake'
  BY <1>10 DEF LockForPublish, Probe
<1>11. ASSUME NEW p \in Processes, ProbeReclaims(p) PROVE NoSecondBake'
  BY <1>11 DEF ProbeReclaims
<1>12. ASSUME NEW p \in Processes, PublishEnds(p) PROVE NoSecondBake'
  BY <1>12 DEF PublishEnds
<1>13. ASSUME NEW p \in Processes, PublisherDies(p) PROVE NoSecondBake'
  BY <1>13 DEF PublisherDies
<1>14. ASSUME NEW d \in Dirs, CargoWrites(d) \/ CargoStops(d) PROVE NoSecondBake'
  BY <1>14 DEF CargoWrites, CargoStops
<1>15. CASE UNCHANGED legacyVars
  BY <1>15 DEF legacyVars
<1> QED
  BY <1>1, <1>2, <1>3, <1>4, <1>5, <1>6, <1>7, <1>8, <1>9, <1>10, <1>11, <1>12, <1>13,
     <1>14, <1>15 DEF LegacyNext, Step

\* The inductive invariant holds of every behaviour.
THEOREM LegacyInvariantHolds == LegacySpec => []LInv
<1>1. LegacyInit => LInv
  BY LegacyAssumption DEF LegacyInit, LInv, LegacyTypeOK, WorkInv, HoldInv, RootInv, OwnerInv, MeetingInv, NoSecondBake,
     WithPublisher, WithManager, Baking, Owning
<1>2. LInv /\ [LegacyNext]_legacyVars => LInv'
  BY TypeStep, WorkStep, HoldStep, RootStep, OwnerStep, MeetingStep, BakeStep DEF LInv
<1> QED
  BY <1>1, <1>2, PTL DEF LegacySpec

\* The variables of the two kinds of publication keep their types.
THEOREM LegacyTypeCorrect == LegacySpec => []LegacyTypeOK
<1>1. LInv => LegacyTypeOK
  BY DEF LInv
<1> QED
  BY <1>1, LegacyInvariantHolds, PTL

\* No reclamation, by either kind of publisher, takes the staging of a live
\* compatibility publisher (LiveStagingSurvives).
THEOREM StagingSurvives == LegacySpec => []LiveStagingSurvives
<1>1. LInv => LiveStagingSurvives
  BY DEF LInv, OwnerInv, LiveStagingSurvives
<1> QED
  BY <1>1, LegacyInvariantHolds, PTL

\* No ordinary publication is past its probe while a compatibility publisher
\* owns staging (PublicationsDoNotOverlap).
THEOREM PublicationsStayApart == LegacySpec => []PublicationsDoNotOverlap
<1>1. LInv => PublicationsDoNotOverlap
  <2> SUFFICES ASSUME LInv, NEW p \in Processes, NEW q \in Processes, mine[p] # 0,
                      at[q] \in {"oReclaim", "oStage"}
               PROVE  FALSE
    BY DEF PublicationsDoNotOverlap
  <2>1. at[p] \in Owning /\ publisherLock = p
    BY DEF LInv, OwnerInv, HoldInv, WithPublisher
  <2>2. CASE at[q] = "oReclaim"
    BY <2>1, <2>2 DEF LInv, HoldInv, WithPublisher, Owning
  <2>3. CASE at[q] = "oStage"
    BY <2>1, <2>3 DEF LInv, MeetingInv, Owning
  <2> QED
    BY <2>2, <2>3
<1> QED
  BY <1>1, LegacyInvariantHolds, PTL

\* A plan whose publisher found nothing to reuse under its lock is published
\* by nobody else (NoSecondBake).
THEOREM BakesAreNeeded == LegacySpec => []NoSecondBake
<1>1. LInv => NoSecondBake
  BY DEF LInv
<1> QED
  BY <1>1, LegacyInvariantHolds, PTL
=============================================================================
