--------------------------- MODULE OvenStoreProofs ---------------------------
(***************************************************************************)
(* Proofs about the artifact store, for any number of processes, entries   *)
(* and domains.  Everything rests on the manager lock: whoever is inside   *)
(* an operation holds it (LockInv), so a removal, a staging directory and  *)
(* an identity found absent stay as their owner left them.  A second       *)
(* invariant (SInv) follows a sweep and a publisher's search, and with it  *)
(* every step of the store is shown to be one of StorePromise.             *)
(***************************************************************************)
EXTENDS OvenStore, TLAPS

\* What the code relies on between its lines.  Whoever is inside an operation
\* holds the manager lock, exclusively unless it is a published reader.
LockInv ==
    /\ \A p \in Procs : pc[p] \in InLock => holder = p
    /\ \A p \in Procs : pc[p] = "leasing" =>
           IF req[p].kind = "published" THEN p \in readers ELSE holder = p
    /\ \A p \in Procs : holder = p => pc[p] \in InLock \cup {"leasing"}
    /\ \A p \in readers : pc[p] = "leasing" /\ req[p].kind = "published"
    /\ readers # {} => holder = None

RequestInv ==
    \A p \in Procs :
        /\ pc[p] \in {"lookup", "stage", "staged", "commit", "sync"} => req[p].kind = "publish"
        /\ req[p].kind = "publish" => req[p].id \in Ids
        /\ pc[p] \in InLock => req[p].kind # "published"
        /\ pc[p] \in {"waiting", "reclaim"} => left[p] = req[p].ids
        /\ pc[p] = "leasing" => req[p].ids \ left[p] \subseteq leases[p]

\* A lease protects a readable entry, and is owned by a consumer or by the
\* selection under way.
LeaseInv ==
    \A p \in Procs :
        /\ running[p] \subseteq leases[p]
        /\ \A e \in leases[p] : Readable(e)

RemovalInv ==
    \A p \in Procs :
        /\ pc[p] = "removing" =>
              sweep.victim \in Ids /\ dir[sweep.victim] = "removing" /\ sweep.victim \notin sweep.todo
        /\ pc[p] \in {"sweep", "removing"} => \A e \in sweep.todo : dir[e] # "absent"

\* The identity being published stays absent until its commit.
AdmissionInv ==
    \A p \in Procs :
        pc[p] \in {"collect", "sweep", "removing", "swept", "stage", "staged", "commit"}
        /\ req[p].kind = "publish" => dir[Subject(p)] = "absent"

IInv == /\ TypeOK /\ LockInv /\ RequestInv /\ LeaseInv /\ RemovalInv
        /\ RemovalIsPrivate /\ OwnStagingSurvives /\ AdmissionInv

-----------------------------------------------------------------------------
(* Facts used by several actions. *)

\* Dropping the locals of an operation leaves every variable in its type.
LEMMA ReturnTypes ==
    ASSUME TypeOK, NEW p \in Procs, Return(p)
    PROVE  /\ holder' \in Procs \cup {None} /\ readers' \in SUBSET Procs
           /\ left' \in [Procs -> SUBSET Ids]
           /\ req' \in [Procs -> Requests] /\ sweep' \in Sweeps
           /\ pc' \in [Procs -> InLock \cup {"idle", "waiting", "leasing"}]
<1>1. NoRequest \in Requests /\ Nothing \in Sweeps
  BY DEF NoRequest, Nothing, Requests, Sweeps, Kinds
<1> QED
  BY <1>1 DEF Return, TypeOK

\* Calling any operation preserves the invariant.
LEMMA StartKeeps ==
    ASSUME IInv, NEW p \in Procs, NEW r \in Requests,
           r.kind = "publish" => r.id \in Ids, Start(p, r)
    PROVE  IInv'
<1>1. TypeOK'
  BY StoreAssumption DEF Start, IInv, TypeOK, RequestInv, RemovalInv, InLock, Requests
<1>2. LockInv'
  BY StoreAssumption DEF Start, IInv, LockInv, TypeOK, RequestInv, InLock, Requests
<1>3. RequestInv'
  BY StoreAssumption DEF Start, IInv, RequestInv, TypeOK, LockInv, InLock, Requests
<1>4. LeaseInv'
  BY StoreAssumption DEF Start, IInv, LeaseInv, TypeOK, LockInv, RequestInv, RemovalInv,
      RemovalIsPrivate, AdmissionInv, Readable, InLock, Subject, Requests
<1>5. RemovalInv'
  BY StoreAssumption DEF Start, IInv, RemovalInv, TypeOK, LockInv, AdmissionInv,
      RequestInv, InLock, Subject, Requests
<1>6. RemovalIsPrivate'
  BY StoreAssumption DEF Start, IInv, RemovalIsPrivate, TypeOK, LockInv, RemovalInv,
      InLock, Requests
<1>7. OwnStagingSurvives'
  BY StoreAssumption DEF Start, IInv, OwnStagingSurvives, TypeOK, LockInv, RequestInv,
      Subject, InLock, Requests
<1>8. AdmissionInv'
  BY StoreAssumption DEF Start, IInv, AdmissionInv, TypeOK, LockInv, RequestInv,
      RemovalInv, Subject, InLock, Requests
<1> QED
  BY <1>1, <1>2, <1>3, <1>4, <1>5, <1>6, <1>7, <1>8 DEF IInv

\* StartPublish preserves the invariant.
LEMMA StartPublishKeeps ==
    ASSUME IInv, NEW p \in Procs, StartPublish(p) PROVE IInv'
<1>1. PICK e \in Ids, reuse \in BOOLEAN :
        Start(p, [NoRequest EXCEPT !.kind = "publish", !.id = e, !.reuse = reuse])
  BY DEF StartPublish
<1> DEFINE r == [NoRequest EXCEPT !.kind = "publish", !.id = e, !.reuse = reuse]
<1>2. r \in Requests /\ r.id \in Ids
  BY DEF NoRequest, Requests, Kinds
<1> QED
  BY <1>1, <1>2, StartKeeps

\* StartSelect preserves the invariant.
LEMMA StartSelectKeeps ==
    ASSUME IInv, NEW p \in Procs, StartSelect(p) PROVE IInv'
<1>1. PICK k \in {"select", "execute", "published"}, S \in SUBSET Ids :
        Start(p, [NoRequest EXCEPT !.kind = k, !.ids = S])
  BY StoreAssumption DEF StartSelect
<1> DEFINE r == [NoRequest EXCEPT !.kind = k, !.ids = S]
<1>2. r \in Requests /\ r.kind # "publish"
  BY DEF NoRequest, Requests, Kinds
<1> QED
  BY <1>1, <1>2, StartKeeps

\* Calling prune or reserve preserves the invariant.
LEMMA StartSweepKeeps ==
    ASSUME IInv, NEW p \in Procs, StartPrune(p) \/ StartReserve(p) PROVE IInv'
<1>1. PICK k \in {"prune", "reserve"}, d \in Domains \cup {None} :
        Start(p, [NoRequest EXCEPT !.kind = k, !.dom = d])
  BY StoreAssumption DEF StartPrune, StartReserve
<1> DEFINE r == [NoRequest EXCEPT !.kind = k, !.dom = d]
<1>2. r \in Requests /\ r.kind # "publish"
  BY DEF NoRequest, Requests, Kinds
<1> QED
  BY <1>1, <1>2, StartKeeps

-----------------------------------------------------------------------------
(* An operation that ends, leaving the entries and the leases as they are. *)

\* Returning preserves the invariant.
LEMMA ReturnKeeps ==
    ASSUME IInv, NEW p \in Procs, Return(p), pc[p] # "removing",
           UNCHANGED <<dir, clock, leases, running>>, lastUsed' \in [Ids -> Nat],
           staging' = staging \/ (holder = p /\ staging' \in SUBSET Ids)
    PROVE  IInv'
<1>1. TypeOK'
  BY ReturnTypes DEF IInv, TypeOK
<1>2. LockInv'
  BY StoreAssumption DEF Return, NoRequest, IInv, LockInv, TypeOK, InLock
<1>3. RequestInv'
  BY DEF Return, NoRequest, IInv, RequestInv, TypeOK, InLock
<1>4. LeaseInv'
  BY DEF IInv, LeaseInv, Readable
<1>5. RemovalInv'
  BY DEF Return, IInv, RemovalInv, LockInv, TypeOK, InLock
<1>6. RemovalIsPrivate'
  <2> SUFFICES ASSUME NEW e \in Ids, dir[e] = "removing"
               PROVE  /\ readers' = {}
                      /\ \E q \in Procs : holder' = q /\ pc'[q] = "removing" /\ sweep'.victim = e
    BY DEF RemovalIsPrivate
  <2>1. PICK q \in Procs : readers = {} /\ holder = q /\ pc[q] = "removing" /\ sweep.victim = e
    BY DEF IInv, RemovalIsPrivate
  <2>2. q # p
    BY <2>1
  <2> QED
    BY <2>1, <2>2 DEF Return, IInv, TypeOK
<1>7. OwnStagingSurvives'
  BY DEF Return, IInv, OwnStagingSurvives, LockInv, TypeOK, InLock, Subject
<1>8. AdmissionInv'
  BY DEF Return, IInv, AdmissionInv, TypeOK, Subject
<1> QED
  BY <1>1, <1>2, <1>3, <1>4, <1>5, <1>6, <1>7, <1>8 DEF IInv

\* ReclaimFails preserves the invariant.
LEMMA ReclaimFailsKeeps ==
    ASSUME IInv, NEW p \in Procs, ReclaimFails(p) PROVE IInv'
<1>1. staging' \in SUBSET Ids
  BY DEF ReclaimFails, IInv, TypeOK
<1>2. holder = p
  BY DEF ReclaimFails, IInv, LockInv, InLock
<1> QED
  BY <1>1, <1>2, ReturnKeeps DEF ReclaimFails, IInv, TypeOK

\* PublishReuse preserves the invariant.
LEMMA PublishReuseKeeps ==
    ASSUME IInv, NEW p \in Procs, PublishReuse(p) PROVE IInv'
<1>1. lastUsed' \in [Ids -> Nat]
  BY DEF PublishReuse, Touch, Subject, IInv, TypeOK
<1> QED
  BY <1>1, ReturnKeeps DEF PublishReuse

\* PublishRefused preserves the invariant.
LEMMA PublishRefusedKeeps ==
    ASSUME IInv, NEW p \in Procs, PublishRefused(p) PROVE IInv'
  BY ReturnKeeps DEF PublishRefused, IInv, TypeOK

\* CollectFails preserves the invariant.
LEMMA CollectFailsKeeps ==
    ASSUME IInv, NEW p \in Procs, CollectFails(p) PROVE IInv'
  BY ReturnKeeps DEF CollectFails, IInv, TypeOK

\* PruneReturns preserves the invariant.
LEMMA PruneReturnsKeeps ==
    ASSUME IInv, NEW p \in Procs, PruneReturns(p) PROVE IInv'
  BY ReturnKeeps DEF PruneReturns, IInv, TypeOK

\* StageFails preserves the invariant.
LEMMA StageFailsKeeps ==
    ASSUME IInv, NEW p \in Procs, StageFails(p) PROVE IInv'
<1>1. holder = p /\ staging' \in SUBSET Ids
  BY DEF StageFails, Abandon, Subject, IInv, TypeOK, LockInv, RequestInv, InLock
<1> QED
  BY <1>1, ReturnKeeps DEF StageFails, IInv, TypeOK

\* MeasureRefused preserves the invariant.
LEMMA MeasureRefusedKeeps ==
    ASSUME IInv, NEW p \in Procs, MeasureRefused(p) PROVE IInv'
<1>1. holder = p /\ staging' \in SUBSET Ids
  BY DEF MeasureRefused, Abandon, Subject, IInv, TypeOK, LockInv, RequestInv, InLock
<1> QED
  BY <1>1, ReturnKeeps DEF MeasureRefused, IInv, TypeOK

\* StagingStays preserves the invariant.
LEMMA StagingStaysKeeps ==
    ASSUME IInv, NEW p \in Procs, StagingStays(p) PROVE IInv'
  BY ReturnKeeps DEF StagingStays, IInv, TypeOK

\* Sync preserves the invariant.
LEMMA SyncKeeps ==
    ASSUME IInv, NEW p \in Procs, Sync(p) PROVE IInv'
  BY ReturnKeeps DEF Sync, IInv, TypeOK

-----------------------------------------------------------------------------
(* The lock holder moves on, changing nothing but what it means to sweep. *)

Advances(p, l) ==
    /\ pc[p] \in InLock \ {"removing"}
    /\ pc' = [pc EXCEPT ![p] = l]
    /\ sweep' \in Sweeps
    /\ UNCHANGED <<dir, lastUsed, clock, staging, holder, readers, req, left, leases, running>>
    /\ l \in {"stage", "commit"} => req[p].kind = "publish"
    /\ l = "commit" => req[p].id \in staging
    /\ req[p].kind = "publish" => dir[req[p].id] = "absent"

\* Moving on preserves the invariant.
LEMMA AdvanceKeeps ==
    ASSUME IInv, NEW p \in Procs, NEW l \in {"collect", "swept", "stage", "commit"}, Advances(p, l)
    PROVE  IInv'
<1>1. TypeOK'
  BY DEF Advances, IInv, TypeOK, InLock
<1>2. LockInv'
  BY DEF Advances, IInv, LockInv, TypeOK, InLock
<1>3. RequestInv'
  BY DEF Advances, IInv, RequestInv, TypeOK, InLock
<1>4. LeaseInv'
  BY DEF Advances, IInv, LeaseInv, Readable
<1>5. RemovalInv'
  BY DEF Advances, IInv, RemovalInv, LockInv, TypeOK, InLock
<1>6. RemovalIsPrivate'
  BY DEF Advances, IInv, RemovalIsPrivate, LockInv, TypeOK, InLock
<1>7. OwnStagingSurvives'
  BY DEF Advances, IInv, OwnStagingSurvives, TypeOK, Subject
<1>8. AdmissionInv'
  BY DEF Advances, IInv, AdmissionInv, TypeOK, Subject
<1> QED
  BY <1>1, <1>2, <1>3, <1>4, <1>5, <1>6, <1>7, <1>8 DEF IInv

\* PublishAdmit preserves the invariant.
LEMMA PublishAdmitKeeps ==
    ASSUME IInv, NEW p \in Procs, PublishAdmit(p) PROVE IInv'
<1>1. req[p].id \in Ids
  BY DEF PublishAdmit, IInv, RequestInv
<1>2. /\ DomainOf[req[p].id] \in Domains
      /\ Logical[req[p].id] \in Nat /\ Reserve[req[p].id] \in Nat
  BY <1>1, StoreAssumption
<1>3. sweep' \in Sweeps
  BY <1>2 DEF PublishAdmit, Want, Nothing, Sweeps, Subject
<1> QED
  BY <1>3, AdvanceKeeps DEF PublishAdmit, Advances, Subject, InLock

\* SkipSweep preserves the invariant.
LEMMA SkipSweepKeeps ==
    ASSUME IInv, NEW p \in Procs, SkipSweep(p) PROVE IInv'
<1>1. sweep' \in Sweeps
  BY DEF SkipSweep, Present, IInv, TypeOK, Sweeps
<1> QED
  BY <1>1, AdvanceKeeps DEF SkipSweep, Advances, IInv, AdmissionInv, Subject, InLock

\* SweepDone preserves the invariant.
LEMMA SweepDoneKeeps ==
    ASSUME IInv, NEW p \in Procs, SweepDone(p) PROVE IInv'
  BY AdvanceKeeps DEF SweepDone, Advances, IInv, TypeOK, AdmissionInv, Subject, InLock

\* RetentionPass preserves the invariant.
LEMMA RetentionPassKeeps ==
    ASSUME IInv, NEW p \in Procs, RetentionPass(p) PROVE IInv'
<1>1. sweep' \in Sweeps
  BY DEF RetentionPass, Resweep, Nothing, Sweeps
<1> QED
  BY <1>1, AdvanceKeeps DEF RetentionPass, Resweep, Advances, IInv, AdmissionInv, Subject, InLock

\* FloorPass preserves the invariant.
LEMMA FloorPassKeeps ==
    ASSUME IInv, NEW p \in Procs, FloorPass(p) PROVE IInv'
<1>1. req[p].dom \in Domains \cup {None}
  BY DEF IInv, TypeOK, Requests
<1>2. sweep' \in Sweeps
  BY <1>1, StoreAssumption DEF FloorPass, Resweep, Want, Nothing, Sweeps
<1> QED
  BY <1>2, AdvanceKeeps DEF FloorPass, Resweep, Advances, InLock

\* PublishSwept preserves the invariant.
LEMMA PublishSweptKeeps ==
    ASSUME IInv, NEW p \in Procs, PublishSwept(p) PROVE IInv'
  BY AdvanceKeeps DEF PublishSwept, Advances, IInv, TypeOK, AdmissionInv, Subject, InLock

\* MeasureLarger preserves the invariant.
LEMMA MeasureLargerKeeps ==
    ASSUME IInv, NEW p \in Procs, MeasureLarger(p) PROVE IInv'
<1>1. req[p].id \in Ids
  BY DEF MeasureLarger, IInv, RequestInv
<1>2. /\ DomainOf[req[p].id] \in Domains
      /\ Logical[req[p].id] \in Nat /\ Physical[req[p].id] \in Nat
  BY <1>1, StoreAssumption
<1>3. sweep' \in Sweeps
  BY <1>2 DEF MeasureLarger, Resweep, Want, Nothing, Sweeps, Subject
<1> QED
  BY <1>3, AdvanceKeeps DEF MeasureLarger, Resweep, Advances, IInv, AdmissionInv, Subject, InLock

\* MeasureAdmitted preserves the invariant.
LEMMA MeasureAdmittedKeeps ==
    ASSUME IInv, NEW p \in Procs, MeasureAdmitted(p) PROVE IInv'
  BY AdvanceKeeps DEF MeasureAdmitted, Advances, IInv, TypeOK, RequestInv, OwnStagingSurvives,
     AdmissionInv, Subject, InLock

-----------------------------------------------------------------------------
(* The remaining actions, each with every conjunct. *)

\* EnterManager preserves the invariant.
LEMMA EnterManagerKeeps ==
    ASSUME IInv, NEW p \in Procs, EnterManager(p) PROVE IInv'
<1>1. TypeOK'
  BY StoreAssumption DEF EnterManager, IInv, TypeOK, RequestInv, RemovalInv, InLock
<1>2. LockInv'
  BY StoreAssumption DEF EnterManager, IInv, LockInv, TypeOK, RequestInv, InLock
<1>3. RequestInv'
  BY StoreAssumption DEF EnterManager, IInv, RequestInv, TypeOK, LockInv, InLock
<1>4. LeaseInv'
  BY StoreAssumption DEF EnterManager, IInv, LeaseInv, TypeOK, LockInv, RequestInv,
      RemovalInv, RemovalIsPrivate, AdmissionInv, Readable, InLock, Subject
<1>5. RemovalInv'
  BY StoreAssumption DEF EnterManager, IInv, RemovalInv, TypeOK, LockInv, AdmissionInv,
      RequestInv, InLock, Subject
<1>6. RemovalIsPrivate'
  BY StoreAssumption DEF EnterManager, IInv, RemovalIsPrivate, TypeOK, LockInv,
      RemovalInv, InLock
<1>7. OwnStagingSurvives'
  BY StoreAssumption DEF EnterManager, IInv, OwnStagingSurvives, TypeOK, LockInv,
      RequestInv, Subject, InLock
<1>8. AdmissionInv'
  BY StoreAssumption DEF EnterManager, IInv, AdmissionInv, TypeOK, LockInv, RequestInv,
      RemovalInv, Subject, InLock
<1> QED
  BY <1>1, <1>2, <1>3, <1>4, <1>5, <1>6, <1>7, <1>8 DEF IInv

\* EnterShared preserves the invariant.
LEMMA EnterSharedKeeps ==
    ASSUME IInv, NEW p \in Procs, EnterShared(p) PROVE IInv'
<1>1. TypeOK'
  BY StoreAssumption DEF EnterShared, IInv, TypeOK, RequestInv, RemovalInv, InLock
<1>2. LockInv'
  BY StoreAssumption DEF EnterShared, IInv, LockInv, TypeOK, RequestInv, InLock
<1>3. RequestInv'
  BY StoreAssumption DEF EnterShared, IInv, RequestInv, TypeOK, LockInv, InLock
<1>4. LeaseInv'
  BY StoreAssumption DEF EnterShared, IInv, LeaseInv, TypeOK, LockInv, RequestInv,
      RemovalInv, RemovalIsPrivate, AdmissionInv, Readable, InLock, Subject
<1>5. RemovalInv'
  BY StoreAssumption DEF EnterShared, IInv, RemovalInv, TypeOK, LockInv, AdmissionInv,
      RequestInv, InLock, Subject
<1>6. RemovalIsPrivate'
  BY StoreAssumption DEF EnterShared, IInv, RemovalIsPrivate, TypeOK, LockInv,
      RemovalInv, InLock
<1>7. OwnStagingSurvives'
  BY StoreAssumption DEF EnterShared, IInv, OwnStagingSurvives, TypeOK, LockInv,
      RequestInv, Subject, InLock
<1>8. AdmissionInv'
  BY StoreAssumption DEF EnterShared, IInv, AdmissionInv, TypeOK, LockInv, RequestInv,
      RemovalInv, Subject, InLock
<1> QED
  BY <1>1, <1>2, <1>3, <1>4, <1>5, <1>6, <1>7, <1>8 DEF IInv

\* Finish preserves the invariant.
LEMMA FinishKeeps ==
    ASSUME IInv, NEW p \in Procs, Finish(p) PROVE IInv'
<1>1. TypeOK'
  BY StoreAssumption DEF Finish, IInv, TypeOK, RequestInv, RemovalInv, InLock
<1>2. LockInv'
  BY StoreAssumption DEF Finish, IInv, LockInv, TypeOK, RequestInv, InLock
<1>3. RequestInv'
  BY StoreAssumption DEF Finish, IInv, RequestInv, TypeOK, LockInv, InLock
<1>4. LeaseInv'
  BY StoreAssumption DEF Finish, IInv, LeaseInv, TypeOK, LockInv, RequestInv,
      RemovalInv, RemovalIsPrivate, AdmissionInv, Readable, InLock, Subject
<1>5. RemovalInv'
  BY StoreAssumption DEF Finish, IInv, RemovalInv, TypeOK, LockInv, AdmissionInv,
      RequestInv, InLock, Subject
<1>6. RemovalIsPrivate'
  <2>1. UNCHANGED <<dir, readers, holder, pc, sweep>>
    BY DEF Finish
  <2> QED BY <2>1, Zenon DEF IInv, RemovalIsPrivate
<1>7. OwnStagingSurvives'
  BY StoreAssumption DEF Finish, IInv, OwnStagingSurvives, TypeOK, LockInv, RequestInv,
      Subject, InLock
<1>8. AdmissionInv'
  BY StoreAssumption DEF Finish, IInv, AdmissionInv, TypeOK, LockInv, RequestInv,
      RemovalInv, Subject, InLock
<1> QED
  BY <1>1, <1>2, <1>3, <1>4, <1>5, <1>6, <1>7, <1>8 DEF IInv

\* Crash preserves the invariant.
LEMMA CrashKeeps ==
    ASSUME IInv, NEW p \in Procs, Crash(p) PROVE IInv'
<1>1. TypeOK'
  <2>1. holder' \in Procs \cup {None} /\ readers' \in SUBSET Procs /\ left' \in [Procs -> SUBSET Ids]
        /\ req' \in [Procs -> Requests] /\ sweep' \in Sweeps
        /\ pc' \in [Procs -> InLock \cup {"idle", "waiting", "leasing"}]
    BY ReturnTypes DEF Crash, IInv
  <2>2. dir' \in [Ids -> {"absent", "whole", "removing", "gutted", "wreck"}]
    BY DEF Crash, Interrupted, IInv, TypeOK
  <2>3. staging' \in SUBSET Ids
    BY DEF Crash, Abandon, Subject, IInv, TypeOK, RequestInv
  <2>4. lastUsed' = lastUsed /\ clock' = clock
        /\ leases' \in [Procs -> SUBSET Ids] /\ running' \in [Procs -> SUBSET Ids]
    BY DEF Crash, IInv, TypeOK
  <2> QED
    BY <2>1, <2>2, <2>3, <2>4 DEF IInv, TypeOK
<1>2. LockInv'
  BY StoreAssumption DEF Crash, Return, Nothing, NoRequest, Abandon, Subject,
      Interrupted, IInv, LockInv, TypeOK, RequestInv, InLock
<1>3. RequestInv'
  BY StoreAssumption DEF Crash, Return, Nothing, NoRequest, Abandon, Subject,
      Interrupted, IInv, RequestInv, TypeOK, LockInv, InLock
<1>4. LeaseInv'
  BY StoreAssumption DEF Crash, Return, Nothing, NoRequest, Abandon, Subject,
      Interrupted, IInv, LeaseInv, TypeOK, LockInv, RequestInv, RemovalInv,
      RemovalIsPrivate, AdmissionInv, Readable, InLock
<1>5. RemovalInv'
  <2>1. CASE pc[p] = "removing"
    BY <2>1 DEF Crash, Return, IInv, RemovalInv, TypeOK, LockInv, InLock
  <2>2. CASE pc[p] # "removing"
    <3>1. UNCHANGED dir /\ pc' = [pc EXCEPT ![p] = "idle"] /\ (holder # p => sweep' = sweep)
      BY <2>2 DEF Crash, Return
    <3> QED
      BY <3>1 DEF IInv, RemovalInv, TypeOK, LockInv, InLock
  <2> QED BY <2>1, <2>2
<1>6. RemovalIsPrivate'
  BY StoreAssumption DEF Crash, Return, Nothing, NoRequest, Abandon, Subject,
      Interrupted, IInv, RemovalIsPrivate, TypeOK, LockInv, RemovalInv, InLock
<1>7. OwnStagingSurvives'
  BY StoreAssumption DEF Crash, Return, Nothing, NoRequest, Abandon, Subject,
      Interrupted, IInv, OwnStagingSurvives, TypeOK, LockInv, RequestInv, InLock
<1>8. AdmissionInv'
  BY StoreAssumption DEF Crash, Return, Nothing, NoRequest, Abandon, Subject,
      Interrupted, IInv, AdmissionInv, TypeOK, LockInv, RequestInv, RemovalInv, InLock
<1> QED
  BY <1>1, <1>2, <1>3, <1>4, <1>5, <1>6, <1>7, <1>8 DEF IInv

\* ReclaimStaleStaging preserves the invariant.
LEMMA ReclaimStaleStagingKeeps ==
    ASSUME IInv, NEW p \in Procs, ReclaimStaleStaging(p) PROVE IInv'
<1>1. TypeOK'
  <2>1. sweep' \in Sweeps
    BY DEF ReclaimStaleStaging, Nothing, Sweeps
  <2> QED
    BY <2>1 DEF ReclaimStaleStaging, IInv, TypeOK, InLock
<1>2. LockInv'
  BY StoreAssumption DEF ReclaimStaleStaging, Nothing, IInv, LockInv, TypeOK,
      RequestInv, InLock
<1>3. RequestInv'
  BY StoreAssumption DEF ReclaimStaleStaging, Nothing, IInv, RequestInv, TypeOK,
      LockInv, InLock
<1>4. LeaseInv'
  BY StoreAssumption DEF ReclaimStaleStaging, Nothing, IInv, LeaseInv, TypeOK, LockInv,
      RequestInv, RemovalInv, RemovalIsPrivate, AdmissionInv, Readable, InLock, Subject
<1>5. RemovalInv'
  BY StoreAssumption DEF ReclaimStaleStaging, Nothing, IInv, RemovalInv, TypeOK,
      LockInv, AdmissionInv, RequestInv, InLock, Subject
<1>6. RemovalIsPrivate'
  BY StoreAssumption DEF ReclaimStaleStaging, Nothing, IInv, RemovalIsPrivate, TypeOK,
      LockInv, RemovalInv, InLock
<1>7. OwnStagingSurvives'
  BY StoreAssumption DEF ReclaimStaleStaging, Nothing, IInv, OwnStagingSurvives, TypeOK,
      LockInv, RequestInv, Subject, InLock
<1>8. AdmissionInv'
  BY StoreAssumption DEF ReclaimStaleStaging, Nothing, IInv, AdmissionInv, TypeOK,
      LockInv, RequestInv, RemovalInv, Subject, InLock
<1> QED
  BY <1>1, <1>2, <1>3, <1>4, <1>5, <1>6, <1>7, <1>8 DEF IInv

\* Collect preserves the invariant.
LEMMA CollectKeeps ==
    ASSUME IInv, NEW p \in Procs, Collect(p) PROVE IInv'
<1>1. TypeOK'
  <2>1. sweep' \in Sweeps
    BY DEF Collect, Present, IInv, TypeOK, Sweeps
  <2> QED
    BY <2>1 DEF Collect, IInv, TypeOK, InLock
<1>2. LockInv'
  BY StoreAssumption DEF Collect, Present, IInv, LockInv, TypeOK, RequestInv, InLock
<1>3. RequestInv'
  BY StoreAssumption DEF Collect, Present, IInv, RequestInv, TypeOK, LockInv, InLock
<1>4. LeaseInv'
  BY StoreAssumption DEF Collect, Present, IInv, LeaseInv, TypeOK, LockInv, RequestInv,
      RemovalInv, RemovalIsPrivate, AdmissionInv, Readable, InLock, Subject
<1>5. RemovalInv'
  BY StoreAssumption DEF Collect, Present, IInv, RemovalInv, TypeOK, LockInv,
      AdmissionInv, RequestInv, InLock, Subject
<1>6. RemovalIsPrivate'
  BY StoreAssumption DEF Collect, Present, IInv, RemovalIsPrivate, TypeOK, LockInv,
      RemovalInv, InLock
<1>7. OwnStagingSurvives'
  BY StoreAssumption DEF Collect, Present, IInv, OwnStagingSurvives, TypeOK, LockInv,
      RequestInv, Subject, InLock
<1>8. AdmissionInv'
  BY StoreAssumption DEF Collect, Present, IInv, AdmissionInv, TypeOK, LockInv,
      RequestInv, RemovalInv, Subject, InLock
<1> QED
  BY <1>1, <1>2, <1>3, <1>4, <1>5, <1>6, <1>7, <1>8 DEF IInv

\* SweepSkip preserves the invariant.
LEMMA SweepSkipKeeps ==
    ASSUME IInv, NEW p \in Procs, SweepSkip(p) PROVE IInv'
<1>1. TypeOK'
  <2>1. PICK e \in sweep.todo :
          sweep' = [sweep EXCEPT !.todo = @ \ {e}, !.skipped = IF PassedOver(p, e) THEN @ ELSE @ \cup {e}]
    BY DEF SweepSkip
  <2>2. e \in Ids
    BY <2>1 DEF IInv, TypeOK, Sweeps
  <2>3. sweep' \in Sweeps
    BY <2>1, <2>2 DEF IInv, TypeOK, Sweeps
  <2> QED
    BY <2>1, <2>2, <2>3 DEF SweepSkip, IInv, TypeOK, InLock
<1>2. LockInv'
  BY StoreAssumption DEF SweepSkip, TryLockEntry, Leased, IInv, LockInv, TypeOK,
      RequestInv, InLock
<1>3. RequestInv'
  BY StoreAssumption DEF SweepSkip, TryLockEntry, Leased, IInv, RequestInv, TypeOK,
      LockInv, InLock
<1>4. LeaseInv'
  BY StoreAssumption DEF SweepSkip, TryLockEntry, Leased, IInv, LeaseInv, TypeOK,
      LockInv, RequestInv, RemovalInv, RemovalIsPrivate, AdmissionInv, Readable, InLock,
      Subject
<1>5. RemovalInv'
  BY StoreAssumption DEF SweepSkip, TryLockEntry, Leased, IInv, RemovalInv, TypeOK,
      LockInv, AdmissionInv, RequestInv, InLock, Subject
<1>6. RemovalIsPrivate'
  BY StoreAssumption DEF SweepSkip, TryLockEntry, Leased, IInv, RemovalIsPrivate,
      TypeOK, LockInv, RemovalInv, InLock
<1>7. OwnStagingSurvives'
  BY StoreAssumption DEF SweepSkip, TryLockEntry, Leased, IInv, OwnStagingSurvives,
      TypeOK, LockInv, RequestInv, Subject, InLock
<1>8. AdmissionInv'
  BY StoreAssumption DEF SweepSkip, TryLockEntry, Leased, IInv, AdmissionInv, TypeOK,
      LockInv, RequestInv, RemovalInv, Subject, InLock
<1> QED
  BY <1>1, <1>2, <1>3, <1>4, <1>5, <1>6, <1>7, <1>8 DEF IInv

\* SweepRemove preserves the invariant.
LEMMA SweepRemoveKeeps ==
    ASSUME IInv, NEW p \in Procs, SweepRemove(p) PROVE IInv'
<1>1. TypeOK'
  <2>1. PICK e \in sweep.todo :
          dir' = [dir EXCEPT ![e] = "removing"] /\ sweep' = [sweep EXCEPT !.todo = @ \ {e}, !.victim = e]
    BY DEF SweepRemove
  <2>2. e \in Ids
    BY <2>1 DEF IInv, TypeOK, Sweeps
  <2>3. sweep' \in Sweeps
    BY <2>1, <2>2 DEF IInv, TypeOK, Sweeps
  <2> QED
    BY <2>1, <2>2, <2>3 DEF SweepRemove, IInv, TypeOK, InLock
<1>2. LockInv'
  BY StoreAssumption DEF SweepRemove, TryLockEntry, Leased, IInv, LockInv, TypeOK,
      RequestInv, InLock
<1>3. RequestInv'
  BY StoreAssumption DEF SweepRemove, TryLockEntry, Leased, IInv, RequestInv, TypeOK,
      LockInv, InLock
<1>4. LeaseInv'
  BY StoreAssumption DEF SweepRemove, TryLockEntry, Leased, IInv, LeaseInv, TypeOK,
      LockInv, RequestInv, RemovalInv, RemovalIsPrivate, AdmissionInv, Readable, InLock,
      Subject
<1>5. RemovalInv'
  <2>1. PICK e \in sweep.todo :
          dir' = [dir EXCEPT ![e] = "removing"] /\ sweep' = [sweep EXCEPT !.todo = @ \ {e}, !.victim = e]
    BY DEF SweepRemove
  <2>2. e \in Ids /\ sweep.todo \subseteq Ids /\ holder = p
    BY <2>1 DEF SweepRemove, IInv, TypeOK, Sweeps, LockInv, InLock
  <2>3. sweep'.victim = e /\ sweep'.todo = sweep.todo \ {e} /\ dir'[e] = "removing"
    BY <2>1, <2>2 DEF IInv, TypeOK, Sweeps
  <2>4. \A f \in sweep.todo : dir'[f] # "absent"
    BY <2>1, <2>2 DEF SweepRemove, IInv, RemovalInv, TypeOK
  <2> QED
    BY <2>2, <2>3, <2>4 DEF SweepRemove, IInv, RemovalInv, TypeOK, LockInv, InLock
<1>6. RemovalIsPrivate'
  BY StoreAssumption DEF SweepRemove, TryLockEntry, Leased, IInv, RemovalIsPrivate,
      TypeOK, LockInv, RemovalInv, InLock
<1>7. OwnStagingSurvives'
  BY StoreAssumption DEF SweepRemove, TryLockEntry, Leased, IInv, OwnStagingSurvives,
      TypeOK, LockInv, RequestInv, Subject, InLock
<1>8. AdmissionInv'
  BY StoreAssumption DEF SweepRemove, TryLockEntry, Leased, IInv, AdmissionInv, TypeOK,
      LockInv, RequestInv, RemovalInv, Subject, InLock
<1> QED
  BY <1>1, <1>2, <1>3, <1>4, <1>5, <1>6, <1>7, <1>8 DEF IInv

\* RemoveDone preserves the invariant.
LEMMA RemoveDoneKeeps ==
    ASSUME IInv, NEW p \in Procs, RemoveDone(p) PROVE IInv'
<1>1. TypeOK'
  <2>1. sweep' \in Sweeps
    BY DEF RemoveDone, IInv, TypeOK, Sweeps
  <2> QED
    BY <2>1 DEF RemoveDone, IInv, RemovalInv, TypeOK, InLock
<1>2. LockInv'
  BY StoreAssumption DEF RemoveDone, IInv, LockInv, TypeOK, RequestInv, InLock
<1>3. RequestInv'
  BY StoreAssumption DEF RemoveDone, IInv, RequestInv, TypeOK, LockInv, InLock
<1>4. LeaseInv'
  BY StoreAssumption DEF RemoveDone, IInv, LeaseInv, TypeOK, LockInv, RequestInv,
      RemovalInv, RemovalIsPrivate, AdmissionInv, Readable, InLock, Subject
<1>5. RemovalInv'
  BY StoreAssumption DEF RemoveDone, IInv, RemovalInv, TypeOK, LockInv, AdmissionInv,
      RequestInv, InLock, Subject
<1>6. RemovalIsPrivate'
  BY StoreAssumption DEF RemoveDone, IInv, RemovalIsPrivate, TypeOK, LockInv,
      RemovalInv, InLock
<1>7. OwnStagingSurvives'
  BY StoreAssumption DEF RemoveDone, IInv, OwnStagingSurvives, TypeOK, LockInv,
      RequestInv, Subject, InLock
<1>8. AdmissionInv'
  BY StoreAssumption DEF RemoveDone, IInv, AdmissionInv, TypeOK, LockInv, RequestInv,
      RemovalInv, Subject, InLock
<1> QED
  BY <1>1, <1>2, <1>3, <1>4, <1>5, <1>6, <1>7, <1>8 DEF IInv

\* RemoveFails preserves the invariant.
LEMMA RemoveFailsKeeps ==
    ASSUME IInv, NEW p \in Procs, RemoveFails(p) PROVE IInv'
<1>1. TypeOK'
  <2>1. dir' \in [Ids -> {"absent", "whole", "removing", "gutted", "wreck"}]
    BY DEF RemoveFails, Interrupted, IInv, TypeOK
  <2> QED
    BY <2>1, ReturnTypes DEF RemoveFails, IInv, TypeOK
<1>2. LockInv'
  BY StoreAssumption DEF RemoveFails, Return, Nothing, NoRequest, Interrupted, IInv,
      LockInv, TypeOK, RequestInv, InLock
<1>3. RequestInv'
  BY StoreAssumption DEF RemoveFails, Return, Nothing, NoRequest, Interrupted, IInv,
      RequestInv, TypeOK, LockInv, InLock
<1>4. LeaseInv'
  BY StoreAssumption DEF RemoveFails, Return, Nothing, NoRequest, Interrupted, IInv,
      LeaseInv, TypeOK, LockInv, RequestInv, RemovalInv, RemovalIsPrivate, AdmissionInv,
      Readable, InLock, Subject
<1>5. RemovalInv'
  BY StoreAssumption DEF RemoveFails, Return, Nothing, NoRequest, Interrupted, IInv,
      RemovalInv, TypeOK, LockInv, AdmissionInv, RequestInv, InLock, Subject
<1>6. RemovalIsPrivate'
  BY StoreAssumption DEF RemoveFails, Return, Nothing, NoRequest, Interrupted, IInv,
      RemovalIsPrivate, TypeOK, LockInv, RemovalInv, InLock
<1>7. OwnStagingSurvives'
  BY StoreAssumption DEF RemoveFails, Return, Nothing, NoRequest, Interrupted, IInv,
      OwnStagingSurvives, TypeOK, LockInv, RequestInv, Subject, InLock
<1>8. AdmissionInv'
  BY StoreAssumption DEF RemoveFails, Return, Nothing, NoRequest, Interrupted, IInv,
      AdmissionInv, TypeOK, LockInv, RequestInv, RemovalInv, Subject, InLock
<1> QED
  BY <1>1, <1>2, <1>3, <1>4, <1>5, <1>6, <1>7, <1>8 DEF IInv

\* Stage preserves the invariant.
LEMMA StageKeeps ==
    ASSUME IInv, NEW p \in Procs, Stage(p) PROVE IInv'
<1>1. TypeOK'
  <2>1. req[p].id \in Ids
    BY DEF Stage, IInv, RequestInv
  <2> QED
    BY <2>1 DEF Stage, Touch, Subject, IInv, TypeOK, InLock
<1>2. LockInv'
  BY StoreAssumption DEF Stage, Subject, Touch, IInv, LockInv, TypeOK, RequestInv,
      InLock
<1>3. RequestInv'
  BY StoreAssumption DEF Stage, Subject, Touch, IInv, RequestInv, TypeOK, LockInv,
      InLock
<1>4. LeaseInv'
  BY StoreAssumption DEF Stage, Subject, Touch, IInv, LeaseInv, TypeOK, LockInv,
      RequestInv, RemovalInv, RemovalIsPrivate, AdmissionInv, Readable, InLock
<1>5. RemovalInv'
  BY StoreAssumption DEF Stage, Subject, Touch, IInv, RemovalInv, TypeOK, LockInv,
      AdmissionInv, RequestInv, InLock
<1>6. RemovalIsPrivate'
  BY StoreAssumption DEF Stage, Subject, Touch, IInv, RemovalIsPrivate, TypeOK, LockInv,
      RemovalInv, InLock
<1>7. OwnStagingSurvives'
  BY StoreAssumption DEF Stage, Subject, Touch, IInv, OwnStagingSurvives, TypeOK,
      LockInv, RequestInv, InLock
<1>8. AdmissionInv'
  BY StoreAssumption DEF Stage, Subject, Touch, IInv, AdmissionInv, TypeOK, LockInv,
      RequestInv, RemovalInv, InLock
<1> QED
  BY <1>1, <1>2, <1>3, <1>4, <1>5, <1>6, <1>7, <1>8 DEF IInv

\* Commit preserves the invariant.
LEMMA CommitKeeps ==
    ASSUME IInv, NEW p \in Procs, Commit(p) PROVE IInv'
<1>1. TypeOK'
  BY StoreAssumption DEF Commit, Subject, IInv, TypeOK, RequestInv, RemovalInv, InLock
<1>2. LockInv'
  BY StoreAssumption DEF Commit, Subject, IInv, LockInv, TypeOK, RequestInv, InLock
<1>3. RequestInv'
  BY StoreAssumption DEF Commit, Subject, IInv, RequestInv, TypeOK, LockInv, InLock
<1>4. LeaseInv'
  BY StoreAssumption DEF Commit, Subject, IInv, LeaseInv, TypeOK, LockInv, RequestInv,
      RemovalInv, RemovalIsPrivate, AdmissionInv, Readable, InLock
<1>5. RemovalInv'
  BY StoreAssumption DEF Commit, Subject, IInv, RemovalInv, TypeOK, LockInv,
      AdmissionInv, RequestInv, InLock
<1>6. RemovalIsPrivate'
  BY StoreAssumption DEF Commit, Subject, IInv, RemovalIsPrivate, TypeOK, LockInv,
      RemovalInv, InLock
<1>7. OwnStagingSurvives'
  BY StoreAssumption DEF Commit, Subject, IInv, OwnStagingSurvives, TypeOK, LockInv,
      RequestInv, InLock
<1>8. AdmissionInv'
  BY StoreAssumption DEF Commit, Subject, IInv, AdmissionInv, TypeOK, LockInv,
      RequestInv, RemovalInv, InLock
<1> QED
  BY <1>1, <1>2, <1>3, <1>4, <1>5, <1>6, <1>7, <1>8 DEF IInv

\* Lease preserves the invariant.
LEMMA LeaseKeeps ==
    ASSUME IInv, NEW p \in Procs, Lease(p) PROVE IInv'
<1>1. TypeOK'
  BY StoreAssumption DEF Lease, Touch, Selectable, Readable, IInv, TypeOK, RequestInv,
      RemovalInv, InLock
<1>2. LockInv'
  BY StoreAssumption DEF Lease, Touch, Selectable, Readable, IInv, LockInv, TypeOK,
      RequestInv, InLock
<1>3. RequestInv'
  BY StoreAssumption DEF Lease, Touch, Selectable, Readable, IInv, RequestInv, TypeOK,
      LockInv, InLock
<1>4. LeaseInv'
  BY StoreAssumption DEF Lease, Touch, Selectable, Readable, IInv, LeaseInv, TypeOK,
      LockInv, RequestInv, RemovalInv, RemovalIsPrivate, AdmissionInv, InLock, Subject
<1>5. RemovalInv'
  BY StoreAssumption DEF Lease, Touch, Selectable, Readable, IInv, RemovalInv, TypeOK,
      LockInv, AdmissionInv, RequestInv, InLock, Subject
<1>6. RemovalIsPrivate'
  <2>1. UNCHANGED <<dir, readers, holder, pc, sweep>>
    BY DEF Lease
  <2> QED BY <2>1, Zenon DEF IInv, RemovalIsPrivate
<1>7. OwnStagingSurvives'
  BY StoreAssumption DEF Lease, Touch, Selectable, Readable, IInv, OwnStagingSurvives,
      TypeOK, LockInv, RequestInv, Subject, InLock
<1>8. AdmissionInv'
  BY StoreAssumption DEF Lease, Touch, Selectable, Readable, IInv, AdmissionInv, TypeOK,
      LockInv, RequestInv, RemovalInv, Subject, InLock
<1> QED
  BY <1>1, <1>2, <1>3, <1>4, <1>5, <1>6, <1>7, <1>8 DEF IInv

\* LeaseFails preserves the invariant.
LEMMA LeaseFailsKeeps ==
    ASSUME IInv, NEW p \in Procs, LeaseFails(p) PROVE IInv'
<1>1. TypeOK'
  BY ReturnTypes DEF LeaseFails, IInv, TypeOK
<1>2. LockInv'
  BY StoreAssumption DEF LeaseFails, Return, Nothing, NoRequest, Selectable, Readable,
      IInv, LockInv, TypeOK, RequestInv, InLock
<1>3. RequestInv'
  BY StoreAssumption DEF LeaseFails, Return, Nothing, NoRequest, Selectable, Readable,
      IInv, RequestInv, TypeOK, LockInv, InLock
<1>4. LeaseInv'
  BY StoreAssumption DEF LeaseFails, Return, Nothing, NoRequest, Selectable, Readable,
      IInv, LeaseInv, TypeOK, LockInv, RequestInv, RemovalInv, RemovalIsPrivate,
      AdmissionInv, InLock, Subject
<1>5. RemovalInv'
  BY StoreAssumption DEF LeaseFails, Return, Nothing, NoRequest, Selectable, Readable,
      IInv, RemovalInv, TypeOK, LockInv, AdmissionInv, RequestInv, InLock, Subject
<1>6. RemovalIsPrivate'
  BY StoreAssumption DEF LeaseFails, Return, Nothing, NoRequest, Selectable, Readable,
      IInv, RemovalIsPrivate, TypeOK, LockInv, RemovalInv, InLock
<1>7. OwnStagingSurvives'
  BY StoreAssumption DEF LeaseFails, Return, Nothing, NoRequest, Selectable, Readable,
      IInv, OwnStagingSurvives, TypeOK, LockInv, RequestInv, Subject, InLock
<1>8. AdmissionInv'
  BY StoreAssumption DEF LeaseFails, Return, Nothing, NoRequest, Selectable, Readable,
      IInv, AdmissionInv, TypeOK, LockInv, RequestInv, RemovalInv, Subject, InLock
<1> QED
  BY <1>1, <1>2, <1>3, <1>4, <1>5, <1>6, <1>7, <1>8 DEF IInv

\* LeaseDone preserves the invariant.
LEMMA LeaseDoneKeeps ==
    ASSUME IInv, NEW p \in Procs, LeaseDone(p) PROVE IInv'
<1>1. TypeOK'
  BY ReturnTypes DEF LeaseDone, Requests, IInv, TypeOK
<1>2. LockInv'
  BY StoreAssumption DEF LeaseDone, Return, Nothing, NoRequest, IInv, LockInv, TypeOK,
      RequestInv, InLock
<1>3. RequestInv'
  BY StoreAssumption DEF LeaseDone, Return, Nothing, NoRequest, IInv, RequestInv,
      TypeOK, LockInv, InLock
<1>4. LeaseInv'
  BY StoreAssumption DEF LeaseDone, Return, Nothing, NoRequest, IInv, LeaseInv, TypeOK,
      LockInv, RequestInv, RemovalInv, RemovalIsPrivate, AdmissionInv, Readable, InLock,
      Subject
<1>5. RemovalInv'
  BY StoreAssumption DEF LeaseDone, Return, Nothing, NoRequest, IInv, RemovalInv,
      TypeOK, LockInv, AdmissionInv, RequestInv, InLock, Subject
<1>6. RemovalIsPrivate'
  BY StoreAssumption DEF LeaseDone, Return, Nothing, NoRequest, IInv, RemovalIsPrivate,
      TypeOK, LockInv, RemovalInv, InLock
<1>7. OwnStagingSurvives'
  BY StoreAssumption DEF LeaseDone, Return, Nothing, NoRequest, IInv,
      OwnStagingSurvives, TypeOK, LockInv, RequestInv, Subject, InLock
<1>8. AdmissionInv'
  BY StoreAssumption DEF LeaseDone, Return, Nothing, NoRequest, IInv, AdmissionInv,
      TypeOK, LockInv, RequestInv, RemovalInv, Subject, InLock
<1> QED
  BY <1>1, <1>2, <1>3, <1>4, <1>5, <1>6, <1>7, <1>8 DEF IInv

\* Tick preserves the invariant.
LEMMA TickKeeps ==
    ASSUME IInv, Tick PROVE IInv'
  BY DEF Tick, IInv, TypeOK, LockInv, RequestInv, LeaseInv, RemovalInv, RemovalIsPrivate,
     OwnStagingSurvives, AdmissionInv, Readable, Subject

\* Every step inside the manager lock preserves the invariant.
LEMMA ManagerStepKeeps ==
    ASSUME IInv, NEW p \in Procs, ManagerStep(p) PROVE IInv'
  BY ReclaimStaleStagingKeeps, ReclaimFailsKeeps, PublishReuseKeeps, PublishRefusedKeeps, PublishAdmitKeeps,
     CollectKeeps, CollectFailsKeeps, SkipSweepKeeps, SweepDoneKeeps,
     SweepSkipKeeps, SweepRemoveKeeps, RemoveDoneKeeps, RemoveFailsKeeps,
     RetentionPassKeeps, FloorPassKeeps, PruneReturnsKeeps, PublishSweptKeeps,
     StageKeeps, StageFailsKeeps, MeasureRefusedKeeps, MeasureLargerKeeps,
     MeasureAdmittedKeeps, StagingStaysKeeps, CommitKeeps, SyncKeeps,
     LeaseKeeps, LeaseFailsKeeps, LeaseDoneKeeps
     DEF ManagerStep

-----------------------------------------------------------------------------
(* The theorems. *)

\* The empty store satisfies the invariant.
LEMMA InitIsInductive ==
    ASSUME Init PROVE IInv
<1>1. NoRequest \in Requests /\ Nothing \in Sweeps
  BY DEF NoRequest, Nothing, Requests, Sweeps, Kinds
<1>2. TypeOK
  BY <1>1, StoreAssumption DEF Init, TypeOK
<1>3. LockInv /\ RequestInv /\ LeaseInv /\ RemovalInv
  BY StoreAssumption DEF Init, LockInv, RequestInv, LeaseInv, RemovalInv, NoRequest, InLock
<1>4. RemovalIsPrivate /\ OwnStagingSurvives /\ AdmissionInv
  BY DEF Init, RemovalIsPrivate, OwnStagingSurvives, AdmissionInv
<1> QED
  BY <1>2, <1>3, <1>4 DEF IInv

\* Every step of the specification preserves the invariant.
LEMMA NextIsInductive ==
    ASSUME IInv, [Next]_vars PROVE IInv'
<1>1. CASE \E p \in Procs : StartPublish(p) \/ StartSelect(p) \/ StartPrune(p) \/ StartReserve(p)
  BY <1>1, StartPublishKeeps, StartSelectKeeps, StartSweepKeeps
<1>2. CASE \E p \in Procs : EnterManager(p) \/ EnterShared(p) \/ Finish(p) \/ Crash(p)
  BY <1>2, EnterManagerKeeps, EnterSharedKeeps, FinishKeeps, CrashKeeps
<1>3. CASE \E p \in Procs : ManagerStep(p)
  BY <1>3, ManagerStepKeeps
<1>4. CASE Tick
  BY <1>4, TickKeeps
<1>5. CASE UNCHANGED vars
  BY <1>5 DEF vars, IInv, TypeOK, LockInv, RequestInv, LeaseInv, RemovalInv, RemovalIsPrivate,
     OwnStagingSurvives, AdmissionInv, Readable, Subject
<1> QED
  BY <1>1, <1>2, <1>3, <1>4, <1>5 DEF Next

\* The inductive invariant holds of every behaviour of the store.
THEOREM InvariantHolds == Spec => []IInv
<1>1. Init => IInv
  BY InitIsInductive
<1>2. IInv /\ [Next]_vars => IInv'
  BY NextIsInductive
<1> QED
  BY <1>1, <1>2, PTL DEF Spec

\* Every variable of the store keeps its type (TypeOK).
THEOREM StoreTypeCorrect == Spec => []TypeOK
<1>1. IInv => TypeOK
  BY DEF IInv
<1> QED
  BY <1>1, InvariantHolds, PTL

\* Whatever a selection handed out stays locked, and what is locked stays
\* readable, for any number of processes (HandedOutIsLeased).
THEOREM HandedOutStaysLeased == Spec => []HandedOutIsLeased
<1>1. IInv => HandedOutIsLeased
  BY DEF IInv, LeaseInv, HandedOutIsLeased
<1> QED
  BY <1>1, InvariantHolds, PTL

\* A half-removed entry is private to the process removing it (RemovalIsPrivate).
THEOREM RemovalStaysPrivate == Spec => []RemovalIsPrivate
<1>1. IInv => RemovalIsPrivate
  BY DEF IInv
<1> QED
  BY <1>1, InvariantHolds, PTL

\* No reclaim_stale_staging takes a live publisher's directory (OwnStagingSurvives).
THEOREM LiveStagingSurvives == Spec => []OwnStagingSurvives
<1>1. IInv => OwnStagingSurvives
  BY DEF IInv
<1> QED
  BY <1>1, InvariantHolds, PTL

\* Only a removal, its end and a commit change an entry, and none is under lease.
LEMMA StepProtectsLeases ==
    ASSUME IInv, [Next]_vars, NEW e \in Ids, Leased(e) PROVE dir'[e] = dir[e]
<1>1. Readable(e)
  BY DEF Leased, IInv, LeaseInv
<1>2. ASSUME NEW p \in Procs, pc[p] = "removing" PROVE sweep.victim # e
  BY <1>1, <1>2 DEF Readable, IInv, RemovalInv
<1>3. dir \in [Ids -> {"absent", "whole", "removing", "gutted", "wreck"}]
  BY DEF IInv, TypeOK
<1>4. ASSUME NEW p \in Procs, SweepRemove(p) PROVE dir'[e] = dir[e]
  BY <1>3, <1>4 DEF SweepRemove, TryLockEntry
<1>5. ASSUME NEW p \in Procs, RemoveDone(p) PROVE dir'[e] = dir[e]
  BY <1>2, <1>3, <1>5 DEF RemoveDone
<1>6. ASSUME NEW p \in Procs, RemoveFails(p) \/ Crash(p) PROVE dir'[e] = dir[e]
  <2>1. CASE pc[p] = "removing"
    BY <1>2, <1>3, <1>6, <2>1 DEF RemoveFails, Crash, Interrupted
  <2>2. CASE pc[p] # "removing"
    BY <1>6, <2>2 DEF RemoveFails, Crash
  <2> QED
    BY <2>1, <2>2
<1>7. ASSUME NEW p \in Procs, Commit(p) PROVE dir'[e] = dir[e]
  <2>1. dir[req[p].id] = "absent"
    BY <1>7 DEF Commit, IInv, RequestInv, AdmissionInv, Subject
  <2>2. req[p].id # e
    BY <1>1, <2>1 DEF Readable
  <2> QED
    BY <1>3, <1>7, <2>2 DEF Commit, Subject
<1>8. ASSUME NEW p \in Procs,
             \/ StartPublish(p) \/ StartSelect(p) \/ StartPrune(p) \/ StartReserve(p)
             \/ EnterManager(p) \/ EnterShared(p) \/ Finish(p) PROVE dir' = dir
  BY <1>8 DEF StartPublish, StartSelect, StartPrune, StartReserve, Start, EnterManager,
     EnterShared, Finish
<1>9. ASSUME NEW p \in Procs,
             \/ ReclaimStaleStaging(p) \/ ReclaimFails(p) \/ PublishReuse(p) \/ PublishRefused(p) \/ PublishAdmit(p)
             \/ Collect(p) \/ CollectFails(p) \/ SkipSweep(p) \/ SweepDone(p) \/ SweepSkip(p)
             \/ RetentionPass(p) \/ FloorPass(p) \/ PruneReturns(p) \/ PublishSwept(p)
             \/ Stage(p) \/ StageFails(p) \/ MeasureRefused(p) \/ MeasureLarger(p)
             \/ MeasureAdmitted(p) \/ StagingStays(p) \/ Sync(p)
             \/ Lease(p) \/ LeaseFails(p) \/ LeaseDone(p)
      PROVE dir' = dir
  BY <1>9 DEF ReclaimStaleStaging, ReclaimFails, PublishReuse, PublishRefused, PublishAdmit, Collect,
     CollectFails, SkipSweep, SweepDone, SweepSkip, RetentionPass, FloorPass, PruneReturns,
     PublishSwept, Stage, StageFails, MeasureRefused, MeasureLarger, MeasureAdmitted,
     StagingStays, Sync, Lease, LeaseFails, LeaseDone
<1>10. CASE \E p \in Procs : ManagerStep(p)
  BY <1>4, <1>5, <1>6, <1>7, <1>9, <1>10, Zenon DEF ManagerStep
<1>11. CASE Tick \/ UNCHANGED vars
  BY <1>11 DEF Tick, vars
<1> QED
  BY <1>6, <1>8, <1>10, <1>11 DEF Next

\* Whatever processes there are and wherever they die, no step changes an entry
\* that is under lease (LeaseProtects).
THEOREM LeasesProtect == Spec => LeaseProtects
<1>1. IInv /\ [Next]_vars => [\A e \in Ids : Leased(e) => dir'[e] = dir[e]]_vars
  BY StepProtectsLeases
<1> QED
  BY <1>1, InvariantHolds, PTL DEF Spec, LeaseProtects

-----------------------------------------------------------------------------
(* Sweeps and publications: a second invariant on top of the first. *)

\* What an operation is about: only selections name identities, only the other
\* operations sweep.
KindInv ==
    \A p \in Procs :
        /\ pc[p] = "idle" => req[p].ids = {}
        /\ req[p].kind \in {"none", "publish", "prune", "reserve"} => req[p].ids = {}
        /\ pc[p] \in {"collect", "sweep", "removing", "swept"} =>
              req[p].kind \in {"publish", "prune", "reserve"}

\* Where a sweep is: what it takes for kept is what is on disk, and whatever it
\* is done with and did not find leased lies outside the pending domain.
ScanInv ==
    \A p \in Procs : pc[p] \in {"sweep", "removing"} =>
        /\ sweep.kept = Present
        /\ \A e \in sweep.todo : dir[e] # "wreck"
        /\ sweep.pass = "limits" =>
             \A e \in Present \ (sweep.todo \cup sweep.skipped) :
                 \/ pc[p] = "removing" /\ e = sweep.victim
                 \/ sweep.dom # None /\ DomainOf[e] # sweep.dom

\* The steps between a publisher's search and its commit.
Admitting == {"collect", "sweep", "removing", "swept", "stage", "staged", "commit"}

\* From its search to its commit the content of an ordinary publication is
\* nowhere else.
PlanInv ==
    \A p \in Procs : pc[p] \in Admitting /\ req[p].kind = "publish" /\ req[p].reuse =>
        \A f \in Present : ~Equivalent(f, Subject(p))

SInv == IInv /\ KindInv /\ ScanInv /\ SweepIsExhaustive /\ PlanInv

\* The steps that end an operation.
Ends(p) ==
    \/ ReclaimFails(p) \/ PublishReuse(p) \/ PublishRefused(p)
    \/ CollectFails(p) \/ RemoveFails(p) \/ PruneReturns(p)
    \/ StageFails(p) \/ MeasureRefused(p) \/ StagingStays(p) \/ Sync(p)
    \/ LeaseFails(p) \/ LeaseDone(p) \/ Crash(p)

\* Each of them returns.
LEMMA EndsReturn ==
    ASSUME NEW p \in Procs, Ends(p) PROVE Return(p)
BY DEF Ends, ReclaimFails, PublishReuse, PublishRefused, CollectFails, RemoveFails, PruneReturns, StageFails,
   MeasureRefused, StagingStays, Sync, LeaseFails, LeaseDone, Crash

\* The steps that begin one.
Starts(p) == StartPublish(p) \/ StartSelect(p) \/ StartPrune(p) \/ StartReserve(p)

\* Each of them starts a request whose identities are those of a selection.
LEMMA StartsStart ==
    ASSUME NEW p \in Procs, Starts(p)
    PROVE  \E r \in Requests : /\ Start(p, r)
                               /\ r.kind \in {"publish", "prune", "reserve"} => r.ids = {}
                               /\ r.kind # "none"
<1>1. CASE StartPublish(p)
  <2>1. PICK e \in Ids, reuse \in BOOLEAN :
          Start(p, [NoRequest EXCEPT !.kind = "publish", !.id = e, !.reuse = reuse])
    BY <1>1 DEF StartPublish
  <2> DEFINE r == [NoRequest EXCEPT !.kind = "publish", !.id = e, !.reuse = reuse]
  <2>2. /\ r \in Requests /\ r.kind # "none"
        /\ r.kind \in {"publish", "prune", "reserve"} => r.ids = {}
    BY DEF NoRequest, Requests, Kinds
  <2> QED
    BY <2>1, <2>2
<1>2. CASE StartSelect(p)
  <2>1. PICK k \in {"select", "execute", "published"}, S \in SUBSET Ids :
          Start(p, [NoRequest EXCEPT !.kind = k, !.ids = S])
    BY <1>2, StoreAssumption DEF StartSelect
  <2> DEFINE r == [NoRequest EXCEPT !.kind = k, !.ids = S]
  <2>2. /\ r \in Requests /\ r.kind # "none"
        /\ r.kind \in {"publish", "prune", "reserve"} => r.ids = {}
    BY DEF NoRequest, Requests, Kinds
  <2> QED
    BY <2>1, <2>2
<1>3. CASE StartPrune(p) \/ StartReserve(p)
  <2>1. PICK k \in {"prune", "reserve"}, d \in Domains \cup {None} :
          Start(p, [NoRequest EXCEPT !.kind = k, !.dom = d])
    BY <1>3, StoreAssumption DEF StartPrune, StartReserve
  <2> DEFINE r == [NoRequest EXCEPT !.kind = k, !.dom = d]
  <2>2. /\ r \in Requests /\ r.kind # "none"
        /\ r.kind \in {"publish", "prune", "reserve"} => r.ids = {}
    BY DEF NoRequest, Requests, Kinds
  <2> QED
    BY <2>1, <2>2
<1> QED
  BY <1>1, <1>2, <1>3 DEF Starts

\* The steps inside an operation.
Goes(p) ==
    \/ EnterManager(p) \/ EnterShared(p) \/ ReclaimStaleStaging(p) \/ PublishAdmit(p)
    \/ Collect(p) \/ SkipSweep(p) \/ SweepDone(p) \/ SweepSkip(p) \/ SweepRemove(p) \/ RemoveDone(p)
    \/ RetentionPass(p) \/ FloorPass(p) \/ PublishSwept(p) \/ Stage(p)
    \/ MeasureLarger(p) \/ MeasureAdmitted(p) \/ Commit(p) \/ Lease(p)

\* A step of the store begins, continues or ends an operation of one process,
\* or drops a consumer, or lets time pass.
LEMMA StepKinds ==
    ASSUME [Next]_vars
    PROVE  \/ \E p \in Procs : Starts(p) \/ Goes(p) \/ Ends(p) \/ Finish(p)
           \/ Tick \/ UNCHANGED vars
BY Zenon DEF Next, ManagerStep, Starts, Goes, Ends

\* Every step preserves KindInv.
LEMMA KindStep ==
    ASSUME IInv, KindInv, [Next]_vars PROVE KindInv'
<1>1. ASSUME NEW p \in Procs, Starts(p) PROVE KindInv'
  <2>1. PICK r \in Requests : /\ Start(p, r)
                              /\ r.kind \in {"publish", "prune", "reserve"} => r.ids = {}
                              /\ r.kind # "none"
    BY <1>1, StartsStart
  <2> QED
    BY <2>1 DEF Start, KindInv, IInv, TypeOK
<1>2. ASSUME NEW p \in Procs, Ends(p) PROVE KindInv'
  <2>1. Return(p)
    BY <1>2, EndsReturn
  <2> QED
    BY <2>1 DEF Return, NoRequest, KindInv, IInv, TypeOK
<1>3. ASSUME NEW p \in Procs, Goes(p) PROVE KindInv'
  <2>1. CASE EnterManager(p) \/ EnterShared(p) \/ ReclaimStaleStaging(p) \/ PublishAdmit(p)
    BY <2>1 DEF EnterManager, EnterShared, ReclaimStaleStaging, PublishAdmit, KindInv, IInv, TypeOK,
       RequestInv
  <2>2. CASE Collect(p) \/ SkipSweep(p) \/ SweepDone(p) \/ SweepSkip(p) \/ SweepRemove(p) \/ RemoveDone(p)
    <3>1. CASE Collect(p) \/ SkipSweep(p) \/ SweepDone(p)
      BY <3>1 DEF Collect, SkipSweep, SweepDone, KindInv, IInv, TypeOK
    <3>2. CASE SweepSkip(p)
      BY <3>2 DEF SweepSkip, KindInv, IInv, TypeOK
    <3>3. CASE SweepRemove(p)
      BY <3>3 DEF SweepRemove, KindInv, IInv, TypeOK
    <3>4. CASE RemoveDone(p)
      BY <3>4 DEF RemoveDone, KindInv, IInv, TypeOK
    <3> QED
      BY <2>2, <3>1, <3>2, <3>3, <3>4
  <2>3. CASE RetentionPass(p) \/ FloorPass(p) \/ PublishSwept(p) \/ MeasureLarger(p)
    BY <2>3 DEF RetentionPass, FloorPass, PublishSwept, MeasureLarger, Resweep, KindInv, IInv, TypeOK,
       RequestInv
  <2>4. CASE Stage(p) \/ MeasureAdmitted(p) \/ Commit(p) \/ Lease(p)
    BY <2>4 DEF Stage, MeasureAdmitted, Commit, Lease, KindInv, IInv, TypeOK
  <2> QED
    BY <1>3, <2>1, <2>2, <2>3, <2>4 DEF Goes
<1>4. ASSUME NEW p \in Procs, Finish(p) PROVE KindInv'
  BY <1>4 DEF Finish, KindInv
<1>5. CASE Tick \/ UNCHANGED vars
  BY <1>5 DEF Tick, vars, KindInv
<1> QED
  BY <1>1, <1>2, <1>3, <1>4, <1>5, StepKinds

\* The manager lock has one holder.
LEMMA LockExcludes ==
    ASSUME IInv, NEW p \in Procs, NEW q \in Procs, pc[p] \in InLock, pc[q] \in InLock
    PROVE  p = q
BY DEF IInv, LockInv

\* An operation that ends without having held the lock leaves disk and sweep alone.
LEMMA EndsOutside ==
    ASSUME IInv, NEW p \in Procs, Ends(p), holder # p
    PROVE  dir' = dir /\ sweep' = sweep
<1>1. pc[p] \notin InLock
  BY DEF IInv, LockInv
<1>2. Return(p)
  BY EndsReturn
<1>3. sweep' = sweep
  BY <1>2 DEF Return
<1>4. dir' = dir
  BY <1>1 DEF Ends, ReclaimFails, PublishReuse, PublishRefused, CollectFails, RemoveFails, PruneReturns,
     StageFails, MeasureRefused, StagingStays, Sync, LeaseFails, LeaseDone, Crash, InLock
<1> QED
  BY <1>3, <1>4

\* Every step preserves what is known of a running sweep.
LEMMA ScanStep ==
    ASSUME IInv, ScanInv, [Next]_vars PROVE ScanInv'
<1> USE DEF IInv, TypeOK
<1>1. ASSUME NEW p \in Procs, Starts(p) PROVE ScanInv'
  <2>1. PICK r : Start(p, r)
    BY <1>1, StartsStart
  <2> QED
    BY <2>1 DEF Start, ScanInv, Present
<1>2. ASSUME NEW p \in Procs, Ends(p) PROVE ScanInv'
  <2>1. Return(p)
    BY <1>2, EndsReturn
  <2>2. CASE holder = p
    <3>1. \A q \in Procs : pc'[q] \notin {"sweep", "removing"}
      BY <2>1, <2>2 DEF Return, LockInv, InLock
    <3> QED
      BY <3>1 DEF ScanInv
  <2>3. CASE holder # p
    <3>1. dir' = dir /\ sweep' = sweep
      BY <1>2, <2>3, EndsOutside
    <3> QED
      BY <2>1, <3>1 DEF Return, ScanInv, Present
  <2> QED
    BY <2>2, <2>3
<1>3. ASSUME NEW p \in Procs, Goes(p) PROVE ScanInv'
  <2>1. CASE pc'[p] \notin {"sweep", "removing"} /\ pc[p] \in InLock
    <3>1. \A q \in Procs : q # p => pc'[q] = pc[q]
      BY <1>3 DEF Goes, EnterManager, EnterShared, ReclaimStaleStaging, PublishAdmit, Collect, SkipSweep,
         SweepDone, SweepSkip, SweepRemove, RemoveDone, RetentionPass, FloorPass, PublishSwept, Stage,
         MeasureLarger, MeasureAdmitted, Commit, Lease, Resweep
    <3>2. \A q \in Procs : pc'[q] \notin {"sweep", "removing"}
      BY <2>1, <3>1, LockExcludes DEF InLock
    <3> QED
      BY <3>2 DEF ScanInv
  <2>2. CASE EnterManager(p) \/ EnterShared(p) \/ Lease(p)
    BY <2>2 DEF EnterManager, EnterShared, Lease, ScanInv, Present
  <2>3. CASE Collect(p)
    <3>1. \A q \in Procs : q # p => pc'[q] \notin {"sweep", "removing"}
      BY <2>3, LockExcludes DEF Collect, InLock
    <3>2. /\ sweep'.kept = Present /\ sweep'.todo = Present
          /\ dir' = dir /\ \A e \in Ids : dir[e] # "wreck"
      BY <2>3 DEF Collect, Sweeps
    <3> QED
      BY <3>1, <3>2 DEF ScanInv, Present
  <2>4. CASE SweepSkip(p)
    <3>1. PICK e \in sweep.todo :
            /\ PassedOver(p, e) \/ ~TryLockEntry(e)
            /\ sweep' = [sweep EXCEPT !.todo = @ \ {e},
                                      !.skipped = IF PassedOver(p, e) THEN @ ELSE @ \cup {e}]
      BY <2>4 DEF SweepSkip
    <3>2. /\ sweep'.todo = sweep.todo \ {e} /\ sweep'.kept = sweep.kept /\ sweep'.pass = sweep.pass
          /\ sweep'.dom = sweep.dom
          /\ sweep'.skipped = IF PassedOver(p, e) THEN sweep.skipped ELSE sweep.skipped \cup {e}
      BY <3>1 DEF Sweeps
    <3>3. PassedOver(p, e) /\ sweep.pass = "limits" => sweep.dom # None /\ DomainOf[e] # sweep.dom
      BY DEF PassedOver, DomainIsOver
    <3>4. \A q \in Procs : q # p => pc[q] \notin {"sweep", "removing"}
      BY <2>4, LockExcludes DEF SweepSkip, InLock
    <3> QED
      BY <2>4, <3>2, <3>3, <3>4 DEF SweepSkip, ScanInv, Present
  <2>5. CASE SweepRemove(p)
    <3>1. PICK e \in sweep.todo :
            /\ dir' = [dir EXCEPT ![e] = "removing"]
            /\ sweep' = [sweep EXCEPT !.todo = @ \ {e}, !.victim = e]
      BY <2>5 DEF SweepRemove
    <3>2. /\ sweep'.todo = sweep.todo \ {e} /\ sweep'.kept = sweep.kept /\ sweep'.pass = sweep.pass
          /\ sweep'.dom = sweep.dom /\ sweep'.skipped = sweep.skipped /\ sweep'.victim = e
      BY <3>1 DEF Sweeps
    <3>3. dir[e] # "absent" /\ e \in Ids
      BY <2>5 DEF SweepRemove, RemovalInv, Sweeps
    <3>4. Present' = Present /\ \A f \in sweep'.todo : dir'[f] = dir[f]
      BY <3>1, <3>2, <3>3 DEF Present, Sweeps
    <3>5. \A q \in Procs : q # p => pc'[q] \notin {"sweep", "removing"}
      BY <2>5, LockExcludes DEF SweepRemove, InLock
    <3>6. pc[p] = "sweep" /\ pc'[p] = "removing"
      BY <2>5 DEF SweepRemove
    <3> QED
      BY <3>2, <3>4, <3>5, <3>6 DEF ScanInv
  <2>6. CASE RemoveDone(p)
    <3>1. /\ sweep'.todo = sweep.todo /\ sweep'.kept = sweep.kept \ {sweep.victim}
          /\ sweep'.pass = sweep.pass /\ sweep'.dom = sweep.dom /\ sweep'.skipped = sweep.skipped
      BY <2>6 DEF RemoveDone, Sweeps
    <3>2. sweep.victim \in Ids /\ sweep.victim \notin sweep.todo
      BY <2>6 DEF RemoveDone, RemovalInv
    <3>3. Present' = Present \ {sweep.victim} /\ \A f \in sweep.todo : dir'[f] = dir[f]
      BY <2>6, <3>2 DEF RemoveDone, Present, Sweeps
    <3>4. \A q \in Procs : q # p => pc'[q] \notin {"sweep", "removing"}
      BY <2>6, LockExcludes DEF RemoveDone, InLock
    <3>5. pc[p] = "removing" /\ pc'[p] = "sweep"
      BY <2>6 DEF RemoveDone
    <3> QED
      BY <3>1, <3>3, <3>4, <3>5 DEF ScanInv
  <2>7. ASSUME ~(EnterManager(p) \/ EnterShared(p) \/ Lease(p)), ~Collect(p), ~SweepSkip(p),
               ~SweepRemove(p), ~RemoveDone(p)
        PROVE pc'[p] \notin {"sweep", "removing"} /\ pc[p] \in InLock
    BY <1>3, <2>7 DEF Goes, ReclaimStaleStaging, PublishAdmit, SkipSweep,
         SweepDone, RetentionPass, FloorPass, PublishSwept, Stage,
         MeasureLarger, MeasureAdmitted, Commit, Resweep, InLock
  <2> QED
    BY <2>1, <2>2, <2>3, <2>4, <2>5, <2>6, <2>7
<1>4. ASSUME NEW p \in Procs, Finish(p) PROVE ScanInv'
  BY <1>4 DEF Finish, ScanInv, Present
<1>5. CASE Tick \/ UNCHANGED vars
  BY <1>5 DEF Tick, vars, ScanInv, Present
<1> QED
  BY <1>1, <1>2, <1>3, <1>4, <1>5, StepKinds

\* Every step preserves what a finished sweep has achieved.
LEMMA ExhaustiveStep ==
    ASSUME IInv, ScanInv, SweepIsExhaustive, [Next]_vars PROVE SweepIsExhaustive'
<1> USE DEF IInv, TypeOK
<1>1. ASSUME dir' = dir, sweep' = sweep, \A q \in Procs : pc'[q] = "swept" => pc[q] = "swept"
      PROVE SweepIsExhaustive'
  BY <1>1 DEF SweepIsExhaustive, Present, Satisfied, DomainFits
<1>2. ASSUME NEW p \in Procs, Starts(p) PROVE SweepIsExhaustive'
  <2>1. PICK r : Start(p, r)
    BY <1>2, StartsStart
  <2> QED
    BY <1>1, <2>1 DEF Start
<1>3. ASSUME NEW p \in Procs, Ends(p) PROVE SweepIsExhaustive'
  <2>1. Return(p)
    BY <1>3, EndsReturn
  <2>2. CASE holder = p
    BY <2>1, <2>2 DEF Return, LockInv, InLock, SweepIsExhaustive
  <2>3. CASE holder # p
    BY <1>1, <1>3, <2>1, <2>3, EndsOutside DEF Return
  <2> QED
    BY <2>2, <2>3
<1>4. ASSUME NEW p \in Procs, Goes(p) PROVE SweepIsExhaustive'
  <2>1. CASE EnterManager(p) \/ EnterShared(p) \/ Lease(p)
    BY <1>1, <2>1 DEF EnterManager, EnterShared, Lease
  <2>2. CASE SkipSweep(p)
    <3>1. \A q \in Procs : q # p => pc'[q] # "swept"
      BY <2>2, LockExcludes DEF SkipSweep, InLock
    <3>2. /\ Satisfied(Present, sweep.dom, sweep.logical, sweep.physical) /\ dir' = dir
          /\ sweep'.dom = sweep.dom /\ sweep'.logical = sweep.logical /\ sweep'.physical = sweep.physical
      BY <2>2 DEF SkipSweep, Sweeps
    <3> QED
      BY <3>1, <3>2 DEF SweepIsExhaustive, Present, Satisfied, DomainFits
  <2>3. CASE SweepDone(p)
    <3>1. \A q \in Procs : q # p => pc'[q] # "swept"
      BY <2>3, LockExcludes DEF SweepDone, InLock
    <3>2. dir' = dir /\ sweep' = sweep /\ pc[p] = "sweep" /\ SweepEnds
      BY <2>3 DEF SweepDone
    <3>3. sweep.pass = "limits" =>
            \/ Satisfied(Present, sweep.dom, sweep.logical, sweep.physical)
            \/ \A e \in Present \ sweep.skipped : sweep.dom # None /\ DomainOf[e] # sweep.dom
      BY <3>2 DEF SweepEnds, PolicyMet, ScanInv
    <3> QED
      BY <3>1, <3>2, <3>3 DEF SweepIsExhaustive, Present, Satisfied, DomainFits
  <2>4. ASSUME ~(EnterManager(p) \/ EnterShared(p) \/ Lease(p)), ~SkipSweep(p), ~SweepDone(p)
        PROVE \A q \in Procs : pc'[q] # "swept"
    <3>1. /\ pc'[p] # "swept" /\ pc[p] \in InLock
          /\ \A q \in Procs : q # p => pc'[q] = pc[q]
      BY <1>4, <2>4 DEF Goes, ReclaimStaleStaging, PublishAdmit, Collect,
         SweepSkip, SweepRemove, RemoveDone, RetentionPass, FloorPass, PublishSwept, Stage,
         MeasureLarger, MeasureAdmitted, Commit, Resweep, InLock
    <3> QED
      BY <3>1, LockExcludes DEF InLock
  <2> QED
    BY <2>1, <2>2, <2>3, <2>4 DEF SweepIsExhaustive
<1>5. ASSUME NEW p \in Procs, Finish(p) PROVE SweepIsExhaustive'
  BY <1>1, <1>5 DEF Finish
<1>6. CASE Tick \/ UNCHANGED vars
  BY <1>1, <1>6 DEF Tick, vars
<1> QED
  BY <1>2, <1>3, <1>4, <1>5, <1>6, StepKinds

\* Only a commit makes an absent entry present.
LEMMA PresentShrinks ==
    ASSUME IInv, [Next]_vars, \A p \in Procs : ~Commit(p) PROVE Present' \subseteq Present
<1> USE DEF IInv, TypeOK
<1>1. ASSUME NEW p \in Procs, Starts(p) PROVE dir' = dir
  BY <1>1, StartsStart DEF Start
<1>2. ASSUME NEW p \in Procs, Ends(p) PROVE Present' \subseteq Present
  <2>1. CASE RemoveFails(p) \/ Crash(p)
    <3>1. CASE pc[p] = "removing"
      <4>1. sweep.victim \in Present
        BY <3>1 DEF RemovalInv, Present
      <4>2. \E d : dir' = [dir EXCEPT ![sweep.victim] = d]
        BY <2>1, <3>1 DEF RemoveFails, Crash, Interrupted
      <4> QED
        BY <4>1, <4>2 DEF Present
    <3>2. CASE pc[p] # "removing"
      BY <2>1, <3>2 DEF RemoveFails, Crash, Present
    <3> QED
      BY <3>1, <3>2
  <2>2. CASE ~(RemoveFails(p) \/ Crash(p))
    BY <1>2, <2>2 DEF Ends, ReclaimFails, PublishReuse, PublishRefused, CollectFails, PruneReturns,
     StageFails, MeasureRefused, StagingStays, Sync, LeaseFails, LeaseDone, Present
  <2> QED
    BY <2>1, <2>2
<1>3. ASSUME NEW p \in Procs, Goes(p) PROVE Present' \subseteq Present
  <2>1. CASE SweepRemove(p)
    <3>1. PICK e \in sweep.todo : dir' = [dir EXCEPT ![e] = "removing"]
      BY <2>1 DEF SweepRemove
    <3>2. e \in Present
      BY <2>1 DEF SweepRemove, RemovalInv, Sweeps, Present
    <3> QED
      BY <3>1, <3>2 DEF Present
  <2>2. CASE RemoveDone(p)
    BY <2>2 DEF RemoveDone, Present
  <2>3. CASE ~SweepRemove(p) /\ ~RemoveDone(p)
    BY <1>3, <2>3 DEF Goes, EnterManager, EnterShared, ReclaimStaleStaging, PublishAdmit, Collect,
       SkipSweep, SweepDone, SweepSkip, RetentionPass, FloorPass, PublishSwept, Stage,
       MeasureLarger, MeasureAdmitted, Lease, Resweep, Present
  <2> QED
    BY <2>1, <2>2, <2>3
<1>4. ASSUME NEW p \in Procs, Finish(p) PROVE dir' = dir
  BY <1>4 DEF Finish
<1>5. CASE Tick \/ UNCHANGED vars
  BY <1>5 DEF Tick, vars, Present
<1> QED
  BY <1>1, <1>2, <1>3, <1>4, <1>5, StepKinds DEF Present

\* A process that is about to commit was so before the step, or has just
\* searched the store.
LEMMA AdmittingStep ==
    ASSUME IInv, KindInv, [Next]_vars, NEW q \in Procs, pc'[q] \in Admitting, req'[q].kind = "publish",
           ~PublishAdmit(q)
    PROVE  req'[q] = req[q] /\ pc[q] \in Admitting
<1> USE DEF IInv, TypeOK, Admitting
<1>1. ASSUME NEW p \in Procs, Starts(p) PROVE req'[q] = req[q] /\ pc[q] \in Admitting
  BY <1>1, StartsStart DEF Start
<1>2. ASSUME NEW p \in Procs, Ends(p) PROVE req'[q] = req[q] /\ pc[q] \in Admitting
  BY <1>2, EndsReturn DEF Return
<1>3. ASSUME NEW p \in Procs, Goes(p) PROVE req'[q] = req[q] /\ pc[q] \in Admitting
  <2>1. CASE EnterManager(p) \/ EnterShared(p) \/ ReclaimStaleStaging(p) \/ PublishAdmit(p)
    BY <2>1 DEF EnterManager, EnterShared, ReclaimStaleStaging, PublishAdmit
  <2>2. CASE Collect(p) \/ SkipSweep(p) \/ SweepDone(p)
    BY <2>2 DEF Collect, SkipSweep, SweepDone
  <2>3. CASE SweepSkip(p) \/ SweepRemove(p) \/ RemoveDone(p)
    BY <2>3 DEF SweepSkip, SweepRemove, RemoveDone
  <2>4. CASE RetentionPass(p) \/ FloorPass(p) \/ PublishSwept(p) \/ MeasureLarger(p)
    BY <2>4 DEF RetentionPass, FloorPass, PublishSwept, MeasureLarger, Resweep
  <2>5. CASE Stage(p) \/ MeasureAdmitted(p) \/ Commit(p) \/ Lease(p)
    BY <2>5 DEF Stage, MeasureAdmitted, Commit, Lease
  <2> QED
    BY <1>3, <2>1, <2>2, <2>3, <2>4, <2>5 DEF Goes
<1>4. ASSUME NEW p \in Procs, Finish(p) PROVE req'[q] = req[q] /\ pc[q] \in Admitting
  BY <1>4 DEF Finish
<1>5. CASE Tick \/ UNCHANGED vars
  BY <1>5 DEF Tick, vars
<1> QED
  BY <1>1, <1>2, <1>3, <1>4, <1>5, StepKinds

\* Every step preserves PlanInv: the publisher that passed its search holds the
\* lock, so nobody commits meanwhile.
LEMMA PlanStep ==
    ASSUME IInv, KindInv, PlanInv, [Next]_vars PROVE PlanInv'
<1> SUFFICES ASSUME NEW q \in Procs, pc'[q] \in Admitting, req'[q].kind = "publish",
                    req'[q].reuse, NEW f \in Present'
             PROVE  ~Equivalent(f, Subject(q)')
  BY DEF PlanInv, Admitting, Equivalent
<1>1. CASE PublishAdmit(q)
  <2>1. /\ pc[q] = "lookup" /\ dir' = dir /\ req' = req
        /\ ~SearchHits(Subject(q)) /\ ~SearchFails(Subject(q))
    BY <1>1 DEF PublishAdmit
  <2>2. f \in Ids /\ dir[f] # "absent" /\ dir[f] \in {"whole", "removing", "gutted", "wreck"}
    BY <2>1 DEF Present, IInv, TypeOK
  <2>3. dir[f] # "removing"
    <3>1. ASSUME dir[f] = "removing" PROVE FALSE
      <4>1. PICK p \in Procs : pc[p] = "removing"
        BY <2>2, <3>1 DEF IInv, RemovalIsPrivate
      <4> QED
        BY <2>1, <4>1, LockExcludes DEF InLock
    <3> QED
      BY <3>1
  <2> QED
    BY <2>1, <2>2, <2>3 DEF SearchHits, SearchFails, Readable, Equivalent, Subject
<1>2. CASE ~PublishAdmit(q)
  <2>1. req'[q] = req[q] /\ pc[q] \in Admitting
    BY <1>2, AdmittingStep
  <2>2. ASSUME NEW p \in Procs, Commit(p) PROVE FALSE
    <3>1. p = q
      BY <2>1, <2>2, LockExcludes DEF Commit, InLock, Admitting
    <3> QED
      BY <2>2, <3>1 DEF Commit, Admitting, IInv, TypeOK
  <2>3. f \in Present
    BY <2>2, PresentShrinks
  <2> QED
    BY <2>1, <2>3 DEF PlanInv, Subject, Admitting
<1> QED
  BY <1>1, <1>2

\* An entry appears only by a commit of it.
LEMMA OnlyCommitAdds ==
    ASSUME IInv, [Next]_vars, NEW e \in Ids, dir[e] = "absent", dir'[e] # "absent"
    PROVE  \E p \in Procs : Commit(p) /\ Subject(p) = e
<1>1. PICK p \in Procs : Commit(p)
  BY PresentShrinks DEF Present
<1>2. dir' = [dir EXCEPT ![Subject(p)] = "whole"]
  BY <1>1 DEF Commit
<1>3. Subject(p) = e
  BY <1>2 DEF IInv, TypeOK
<1> QED
  BY <1>1, <1>3

\* The store's second inductive invariant, on top of the first.
THEOREM SweepInvariantHolds == Spec => []SInv
<1>1. Init => SInv
  BY InitIsInductive DEF Init, SInv, KindInv, ScanInv, SweepIsExhaustive, PlanInv,
     NoRequest, Present, Admitting
<1>2. SInv /\ [Next]_vars => SInv'
  BY NextIsInductive, KindStep, ScanStep, ExhaustiveStep, PlanStep DEF SInv
<1> QED
  BY <1>1, <1>2, PTL DEF Spec

\* A direct plan appears beside one of equal content only as an import
\* (OnlyImportsDuplicate).
THEOREM OrdinaryPlansStayUnique == Spec => OnlyImportsDuplicate
<1>1. ASSUME SInv, [Next]_vars, NEW e \in Ids, NEW f \in Present,
             dir[e] = "absent", dir'[e] # "absent", Equivalent(e, f)
      PROVE  \E p \in Procs : pc[p] = "commit" /\ Subject(p) = e /\ ~req[p].reuse
  <2>1. PICK p \in Procs : Commit(p) /\ Subject(p) = e
    BY <1>1, OnlyCommitAdds DEF SInv
  <2>2. pc[p] = "commit" /\ req[p].kind = "publish"
    BY <1>1, <2>1 DEF Commit, SInv, IInv, RequestInv
  <2>3. Equivalent(f, Subject(p))
    BY <1>1, <2>1 DEF Equivalent
  <2>4. ~req[p].reuse
    BY <1>1, <2>2, <2>3 DEF SInv, PlanInv, Admitting
  <2> QED
    BY <2>1, <2>2, <2>4
<1>2. SInv /\ [Next]_vars =>
        [\A e \in Ids, f \in Present :
           dir[e] = "absent" /\ dir'[e] # "absent" /\ Equivalent(e, f) =>
             \E p \in Procs : pc[p] = "commit" /\ Subject(p) = e /\ ~req[p].reuse]_vars
  BY <1>1
<1> QED
  BY <1>2, SweepInvariantHolds, PTL DEF Spec, OnlyImportsDuplicate

\* A limits pass meets the policy or leaves only what it may not take
\* (SweepIsExhaustive).
THEOREM SweepsAreExhaustive == Spec => []SweepIsExhaustive
<1>1. SInv => SweepIsExhaustive
  BY DEF SInv
<1> QED
  BY <1>1, SweepInvariantHolds, PTL

\* Only a sweep starts a removal, and only of the entry that is next in it.
LEMMA RemovalStarts ==
    ASSUME IInv, [Next]_vars, NEW e \in Ids, dir'[e] = "removing", dir[e] # "removing"
    PROVE  \E p \in Procs : SweepRemove(p)
<1> SUFFICES ASSUME \A p \in Procs : ~SweepRemove(p) PROVE FALSE
  OBVIOUS
<1> USE DEF IInv, TypeOK
<1>1. ASSUME NEW p \in Procs, Starts(p) PROVE dir' = dir
  BY <1>1, StartsStart DEF Start
<1>2. ASSUME NEW p \in Procs, Ends(p) PROVE dir'[e] # "removing" \/ dir' = dir
  <2>1. CASE Interrupted(sweep.victim)
    BY <2>1 DEF Interrupted
  <2>2. CASE ~Interrupted(sweep.victim)
    BY <1>2, <2>2 DEF Ends, ReclaimFails, PublishReuse, PublishRefused, CollectFails, RemoveFails, PruneReturns,
     StageFails, MeasureRefused, StagingStays, Sync, LeaseFails, LeaseDone, Crash
  <2> QED
    BY <2>1, <2>2
<1>3. ASSUME NEW p \in Procs, Goes(p) PROVE dir'[e] # "removing" \/ dir' = dir
  BY <1>3 DEF Goes, EnterManager, EnterShared, ReclaimStaleStaging, PublishAdmit, Collect,
     SkipSweep, SweepDone, SweepSkip, RemoveDone, RetentionPass, FloorPass, PublishSwept,
     Stage, MeasureLarger, MeasureAdmitted, Commit, Lease, Resweep
<1>4. ASSUME NEW p \in Procs, Finish(p) PROVE dir' = dir
  BY <1>4 DEF Finish
<1>5. CASE Tick \/ UNCHANGED vars
  BY <1>5 DEF Tick, vars
<1> QED
  BY <1>1, <1>2, <1>3, <1>4, <1>5, StepKinds

\* A step that starts a removal in a limits pass does so for need, and takes
\* the oldest.
LEMMA RemovalIsJustified ==
    ASSUME SInv, [Next]_vars, NEW e \in Ids, dir'[e] = "removing", dir[e] # "removing",
           sweep.pass = "limits"
    PROVE  /\ ~Satisfied(Present, sweep.dom, sweep.logical, sweep.physical)
           /\ \A f \in Present \ sweep.skipped :
                 sweep.dom \in {None, DomainOf[e]} /\ sweep.dom \in {None, DomainOf[f]}
                   => lastUsed[e] <= lastUsed[f]
<1> USE DEF SInv, IInv, TypeOK
<1>1. PICK p \in Procs : SweepRemove(p)
  BY RemovalStarts
<1>2. PICK x \in sweep.todo : IsNext(x) /\ dir' = [dir EXCEPT ![x] = "removing"]
  BY <1>1 DEF SweepRemove
<1>3. x = e
  BY <1>2
<1>4. pc[p] = "sweep" /\ ~SweepEnds /\ sweep.kept = Present
  BY <1>1 DEF SweepRemove, ScanInv
<1>5. ~Satisfied(Present, sweep.dom, sweep.logical, sweep.physical)
  BY <1>4 DEF SweepEnds, PolicyMet
<1>6. ASSUME NEW f \in Present \ sweep.skipped, sweep.dom \in {None, DomainOf[f]}
      PROVE  lastUsed[e] <= lastUsed[f]
  <2>1. f \in sweep.todo
    BY <1>4, <1>6 DEF ScanInv
  <2>2. CASE f = e
    BY <2>2
  <2>3. CASE f # e
    <3>1. Before(e, f)
      BY <1>2, <1>3, <2>1, <2>3 DEF IsNext
    <3>2. lastUsed[e] \in Nat /\ lastUsed[f] \in Nat
      BY <1>6 DEF Present
    <3> QED
      BY <3>1, <3>2 DEF Before
  <2> QED
    BY <2>2, <2>3
<1> QED
  BY <1>5, <1>6

\* Eviction is by need and by age for every store and every limit
\* (EvictsOldestFirst).
THEOREM EvictionIsByAge == Spec => EvictsOldestFirst
<1>1. SInv /\ [Next]_vars =>
        [\A e \in Ids :
          dir'[e] = "removing" /\ dir[e] # "removing" /\ sweep.pass = "limits" =>
            /\ ~Satisfied(Present, sweep.dom, sweep.logical, sweep.physical)
            /\ \A f \in Present \ sweep.skipped :
                  sweep.dom \in {None, DomainOf[e]} /\ sweep.dom \in {None, DomainOf[f]}
                    => lastUsed[e] <= lastUsed[f]]_vars
  BY RemovalIsJustified
<1> QED
  BY <1>1, SweepInvariantHolds, PTL DEF Spec, EvictsOldestFirst

-----------------------------------------------------------------------------
(* The refinement of StorePromise. *)

\* What StorePromise sees of the store.
Asked == [p \in Procs |-> req[p].ids]
Seen  == <<Visible, Asked, running>>

\* The initial store is one of the promise.
LEMMA PromiseInit == Init => Promise!Init
BY DEF Init, Promise!Init, Visible, NoRequest

\* An entry that is being removed is in nobody's hands.
LEMMA VictimUnused ==
    ASSUME IInv, NEW p \in Procs, pc[p] = "removing" PROVE Promise!Unused(sweep.victim)
BY DEF IInv, RemovalInv, LeaseInv, Readable, Promise!Unused

\* A call of a selection asks; any other call is not seen.
LEMMA StartsPromise ==
    ASSUME SInv, NEW p \in Procs, Starts(p) PROVE [Promise!Next]_Seen
<1> USE DEF SInv, IInv, TypeOK
<1>1. PICK r \in Requests : Start(p, r)
  BY StartsStart
<1>2. /\ UNCHANGED <<dir, running>> /\ req' = [req EXCEPT ![p] = r] /\ pc[p] = "idle"
  BY <1>1 DEF Start
<1>3. Visible' = Visible
  BY <1>2 DEF Visible
<1>4. Asked[p] = {} /\ r.ids \in SUBSET Ids
  BY <1>2 DEF KindInv, Asked, Requests
<1>5. Asked' = [Asked EXCEPT ![p] = r.ids]
  BY <1>2 DEF Asked
<1>6. Promise!Ask(p, r.ids)
  BY <1>2, <1>3, <1>4, <1>5 DEF Promise!Ask, Asked
<1> QED
  BY <1>4, <1>6 DEF Promise!Next

\* A step inside an operation is not seen, unless it commits an entry or ends
\* its removal.
LEMMA GoesPromise ==
    ASSUME SInv, NEW p \in Procs, Goes(p) PROVE [Promise!Next]_Seen
<1> USE DEF SInv, IInv, TypeOK
<1>1. Asked' = Asked /\ running' = running
  BY DEF Goes, EnterManager, EnterShared, ReclaimStaleStaging, PublishAdmit, Collect,
     SkipSweep, SweepDone, SweepSkip, SweepRemove, RemoveDone, RetentionPass, FloorPass, PublishSwept,
     Stage, MeasureLarger, MeasureAdmitted, Commit, Lease, Resweep, Asked
<1>2. CASE Commit(p)
  <2>1. pc[p] = "commit" /\ req[p].kind = "publish" /\ Subject(p) \in Ids
    BY <1>2 DEF Commit, RequestInv, Subject
  <2>2. dir[Subject(p)] = "absent"
    BY <2>1 DEF AdmissionInv
  <2>3. Visible' = Visible \cup {Subject(p)} /\ Subject(p) \notin Visible
    BY <1>2, <2>1, <2>2 DEF Commit, Visible
  <2>4. Promise!Admit(Subject(p))
    BY <1>1, <2>3 DEF Promise!Admit, Asked
  <2> QED
    BY <2>1, <2>4 DEF Promise!Next
<1>3. CASE RemoveDone(p)
  <2>1. pc[p] = "removing" /\ sweep.victim \in Ids
    BY <1>3 DEF RemoveDone, RemovalInv
  <2>2. Visible' = Visible \ {sweep.victim}
    BY <1>3, <2>1 DEF RemoveDone, Visible
  <2>3. Promise!Evict(sweep.victim)
    BY <1>1, <2>1, <2>2, VictimUnused DEF Promise!Evict, Asked
  <2> QED
    BY <2>1, <2>3 DEF Promise!Next
<1>4. CASE SweepRemove(p)
  <2>1. PICK e \in sweep.todo : dir' = [dir EXCEPT ![e] = "removing"]
    BY <1>4 DEF SweepRemove
  <2>2. e \in Ids /\ dir[e] \notin {"absent", "wreck"}
    BY <1>4 DEF SweepRemove, RemovalInv, ScanInv, Sweeps
  <2>3. Visible' = Visible
    BY <2>1, <2>2 DEF Visible
  <2> QED
    BY <1>1, <2>3 DEF Seen
<1>5. CASE ~Commit(p) /\ ~RemoveDone(p) /\ ~SweepRemove(p)
  <2>1. dir' = dir
    BY <1>5 DEF Goes, EnterManager, EnterShared, ReclaimStaleStaging, PublishAdmit, Collect,
       SkipSweep, SweepDone, SweepSkip, RetentionPass, FloorPass, PublishSwept,
       Stage, MeasureLarger, MeasureAdmitted, Lease, Resweep
  <2> QED
    BY <1>1, <2>1 DEF Seen, Visible
<1> QED
  BY <1>2, <1>3, <1>4, <1>5

\* An operation that ends hands out all it was asked for, refuses, fails to
\* remove an entry, or dies.
LEMMA EndsPromise ==
    ASSUME SInv, NEW p \in Procs, Ends(p) PROVE [Promise!Next]_Seen
<1> USE DEF SInv, IInv, TypeOK
<1>1. Return(p)
  BY EndsReturn
<1>2. Asked' = [Asked EXCEPT ![p] = {}]
  BY <1>1 DEF Return, NoRequest, Asked
<1>3. CASE LeaseDone(p)
  <2>1. pc[p] = "leasing" /\ left[p] = {} /\ dir' = dir
        /\ running' = [running EXCEPT ![p] = @ \cup req[p].ids]
    BY <1>3 DEF LeaseDone
  <2>2. Asked[p] \subseteq Visible
    BY <2>1 DEF RequestInv, LeaseInv, Readable, Visible, Asked
  <2>3. Promise!HandOut(p)
    BY <1>2, <2>1, <2>2 DEF Promise!HandOut, Asked, Visible
  <2> QED
    BY <2>3 DEF Promise!Next
<1>4. CASE Crash(p)
  <2>1. running' = [running EXCEPT ![p] = {}]
    BY <1>4 DEF Crash
  <2>2. \/ Visible' = Visible
        \/ \E e \in Visible : Promise!Unused(e) /\ Visible' = Visible \ {e}
    <3>1. CASE pc[p] = "removing"
      <4>1. sweep.victim \in Ids /\ dir[sweep.victim] = "removing"
        BY <3>1 DEF RemovalInv
      <4>2. Interrupted(sweep.victim)
        BY <1>4, <3>1 DEF Crash
      <4>3. \/ Visible' = Visible
            \/ Visible' = Visible \ {sweep.victim}
        BY <4>1, <4>2 DEF Interrupted, Visible
      <4>4. sweep.victim \in Visible
        BY <4>1 DEF Visible
      <4> QED
        BY <3>1, <4>3, <4>4, VictimUnused
    <3>2. CASE pc[p] # "removing"
      BY <1>4, <3>2 DEF Crash, Visible
    <3> QED
      BY <3>1, <3>2
  <2>3. Promise!Die(p)
    BY <1>2, <2>1, <2>2 DEF Promise!Die, Asked
  <2> QED
    BY <2>3 DEF Promise!Next
<1>5. CASE RemoveFails(p)
  <2>1. /\ pc[p] = "removing" /\ sweep.victim \in Ids /\ dir[sweep.victim] = "removing"
        /\ running' = running /\ Interrupted(sweep.victim)
    BY <1>5 DEF RemoveFails, RemovalInv
  <2>2. Asked[p] = {} /\ Asked' = Asked
    BY <1>2, <2>1 DEF KindInv, Asked
  <2>3. \/ Visible' = Visible
        \/ Visible' = Visible \ {sweep.victim}
    BY <2>1 DEF Interrupted, Visible
  <2>4. CASE Visible' = Visible
    BY <2>1, <2>2, <2>4 DEF Seen
  <2>5. CASE Visible' = Visible \ {sweep.victim}
    <3>1. Promise!Evict(sweep.victim)
      BY <2>1, <2>2, <2>5, VictimUnused DEF Promise!Evict, Asked
    <3> QED
      BY <2>1, <3>1 DEF Promise!Next
  <2> QED
    BY <2>3, <2>4, <2>5
<1>6. CASE ~LeaseDone(p) /\ ~Crash(p) /\ ~RemoveFails(p)
  <2>1. dir' = dir /\ running' = running
    BY <1>6 DEF Ends, ReclaimFails, PublishReuse, PublishRefused, CollectFails, PruneReturns,
       StageFails, MeasureRefused, StagingStays, Sync, LeaseFails
  <2>2. Promise!Refuse(p)
    BY <1>2, <2>1 DEF Promise!Refuse, Asked, Visible
  <2> QED
    BY <2>2 DEF Promise!Next
<1> QED
  BY <1>3, <1>4, <1>5, <1>6

\* Every step of the store is one of the promise, or is not seen.
LEMMA PromiseStep ==
    ASSUME SInv, [Next]_vars PROVE [Promise!Next]_Seen
<1>1. ASSUME NEW p \in Procs, Finish(p) PROVE [Promise!Next]_Seen
  <2>1. PICK e \in running[p] : running' = [running EXCEPT ![p] = @ \ {e}]
    BY <1>1 DEF Finish
  <2>2. e \in Ids /\ UNCHANGED <<dir, req>>
    BY <1>1 DEF Finish, SInv, IInv, TypeOK
  <2>3. Promise!GiveBack(p, e)
    BY <2>1, <2>2 DEF Promise!GiveBack, Visible
  <2> QED
    BY <2>2, <2>3 DEF Promise!Next
<1>2. CASE Tick \/ UNCHANGED vars
  BY <1>2 DEF Tick, vars, Seen, Visible, Asked
<1> QED
  BY <1>1, <1>2, StartsPromise, GoesPromise, EndsPromise, StepKinds

\* The store implements StorePromise: its locks, sweeps, interrupted removals
\* and deaths never show (KeepsPromise).
THEOREM StoreKeepsPromise == Spec => KeepsPromise
<1>1. Init => Promise!Init
  BY PromiseInit
<1>2. SInv /\ [Next]_vars => [Promise!Next]_<<Visible, [p \in Procs |-> req[p].ids], running>>
  BY PromiseStep DEF Seen, Asked
<1> QED
  BY <1>1, <1>2, SweepInvariantHolds, PTL DEF Spec, KeepsPromise, Promise!Spec
=============================================================================
