----------------------------- MODULE LspPrewarm -----------------------------
(***************************************************************************)
(* The language server's queue of Rust metadata to extract ahead of use,   *)
(* composed with the generated cache whose leases it holds.  An analysis   *)
(* acquires a lease and hands its query paths to the queue of its          *)
(* workspace; the first to come becomes the worker and keeps its lease,    *)
(* the others leave their paths to it and drop theirs.  Other processes    *)
(* build in, prune and inspect the same cache, and die.                    *)
(***************************************************************************)
EXTENDS GeneratedCache

CONSTANT Paths  \* canonical query paths

VARIABLES
  serving,  \* processes that are tasks of the language server
  inFlight, \* in_flight of the workspace's PrewarmQueueEntry
  pending,  \* its pending paths
  workers,  \* tasks that run run_rust_inspect_prewarm_queue
  batch     \* paths a worker is extracting

queue == <<serving, inFlight, pending, workers, batch>>
prewarmVars == <<vars, queue>>

PrewarmInit ==
  /\ Init
  /\ serving = {} /\ inFlight = FALSE /\ pending = {} /\ workers = {} /\ batch = {}

\* An analysis prepares its workspace, which acquires the prewarm lease.
Analyse(p, d) ==
  /\ Acquire(p, d)
  /\ serving' = serving \cup {p}
  /\ UNCHANGED <<inFlight, pending, workers, batch>>

Waits(p) == p \in serving /\ pc[p] = "leased" /\ p \notin workers

\* spawn_rust_inspect_prewarm without a path: the lease is dropped.
NothingToWarm(p) ==
  /\ Waits(p)
  /\ Release(p)
  /\ UNCHANGED queue

\* spawn_rust_inspect_prewarm under the queue's mutex: enqueue_prewarm_paths
\* adds the paths; a request that finds a worker is coalesced and its lease
\* dropped, any other starts the worker with the lease.
SpawnPrewarm(p, paths) ==
  /\ Waits(p) /\ paths # {}
  /\ pending' = pending \cup paths
  /\ inFlight' = TRUE
  /\ IF inFlight
     THEN Release(p) /\ UNCHANGED workers
     ELSE workers' = workers \cup {p} /\ UNCHANGED vars
  /\ UNCHANGED <<serving, batch>>

\* Mutant: the flag is cleared when a batch is taken, not when none is left.
TakeBatchClearsFlag(p) ==
  /\ p \in workers /\ batch = {}
  /\ inFlight' = FALSE
  /\ IF pending = {}
     THEN workers' = workers \ {p} /\ Release(p) /\ UNCHANGED <<pending, batch>>
     ELSE batch' = pending /\ pending' = {} /\ UNCHANGED <<workers, vars>>
  /\ UNCHANGED serving

\* take_next_prewarm_batch: all that is pending, or the end of the worker,
\* which removes the entry under the same mutex and drops the lease.
TakeBatch(p) ==
  /\ p \in workers /\ batch = {}
  /\ IF pending = {}
     THEN /\ inFlight' = FALSE /\ workers' = workers \ {p}
          /\ Release(p)
          /\ UNCHANGED <<pending, batch>>
     ELSE /\ batch' = pending /\ pending' = {}
          /\ UNCHANGED <<inFlight, workers, vars>>
  /\ UNCHANGED serving

\* prewarm_rust_inspect_workspace in the worker's own target; its failure is
\* only logged.  It may write to the target directory.
Prewarm(p) ==
  /\ p \in workers /\ batch # {}
  /\ batch' = {}
  /\ Build(p) \/ UNCHANGED vars
  /\ UNCHANGED <<serving, inFlight, pending, workers>>

\* The server's memory goes with it.
ServerDies ==
  /\ serving # {}
  /\ pc' = [p \in Procs |-> IF p \in serving THEN "idle" ELSE pc[p]]
  /\ op' = [p \in Procs |-> IF p \in serving THEN None ELSE op[p]]
  /\ dom' = [p \in Procs |-> IF p \in serving THEN None ELSE dom[p]]
  /\ known' = [p \in Procs |-> IF p \in serving THEN 0 ELSE known[p]]
  /\ fd' = [p \in Procs |-> IF p \in serving THEN 0 ELSE fd[p]]
  /\ victim' = [p \in Procs |-> IF p \in serving THEN 0 ELSE victim[p]]
  /\ plan' = [p \in Procs |-> IF p \in serving THEN <<>> ELSE plan[p]]
  /\ total' = [p \in Procs |-> IF p \in serving THEN 0 ELSE total[p]]
  /\ manager' = IF manager \in serving THEN None ELSE manager
  /\ serving' = {} /\ inFlight' = FALSE /\ pending' = {} /\ workers' = {} /\ batch' = {}
  /\ UNCHANGED <<files, raced>>

\* A step of the cache; a task that comes to rest has left the server.
CacheStep(p) ==
  /\ Steps(p)
  /\ serving' = IF pc'[p] = "idle" THEN serving \ {p} ELSE serving
  /\ UNCHANGED <<inFlight, pending, workers, batch>>

\* An I/O error in such a step.
CacheStepFails(p) ==
  /\ Fails(p) \/ RefreshFails(p)
  /\ serving' = IF pc'[p] = "idle" THEN serving \ {p} ELSE serving
  /\ UNCHANGED <<inFlight, pending, workers, batch>>

\* What processes other than the server do with the cache.
OtherUse(p) ==
  /\ p \notin serving
  /\ \/ \E d \in Domains : Acquire(p, d) \/ PruneSelected(p, d)
     \/ Build(p) \/ Release(p) \/ Prune(p) \/ Inspect(p) \/ Die(p)
  /\ UNCHANGED queue

PrewarmStep(p) ==
  \/ NothingToWarm(p)
  \/ \E paths \in SUBSET Paths : SpawnPrewarm(p, paths)
  \/ TakeBatch(p) \/ Prewarm(p)

PrewarmNext ==
  \/ \E p \in Procs : \/ \E d \in Domains : Analyse(p, d)
                      \/ CacheStep(p) \/ CacheStepFails(p) \/ PrewarmStep(p) \/ OtherUse(p)
  \/ ServerDies

PrewarmSpec == PrewarmInit /\ [][PrewarmNext]_prewarmVars

\* Processes and tasks that have begun an operation are scheduled; whether a
\* build or an analysis ever starts or ends is nobody's duty.
PrewarmFairness ==
  \A p \in Procs : WF_prewarmVars(CacheStep(p)) /\ WF_prewarmVars(PrewarmStep(p))

-----------------------------------------------------------------------------
(* Properties *)

\* The contract of spawn_rust_inspect_prewarm: at most one worker runs for the
\* workspace, the flag says so exactly, a request is never left in the queue
\* without a worker that will come back to it, and a worker keeps a lease.
OneWorkerServesAll ==
  /\ Cardinality(workers) <= 1
  /\ inFlight <=> workers # {}
  /\ pending \cup batch # {} => inFlight
  /\ \A p \in workers : Leases(p)
=============================================================================
