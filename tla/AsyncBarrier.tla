---------------------------- MODULE AsyncBarrier ----------------------------
(***************************************************************************)
(* std.async.sync.Barrier (stdlib/async/rust/src/sync.rs): a reusable,     *)
(* cancellation-safe barrier.  The state behind the std mutex is           *)
(* BarrierGeneration; a waiter that does not complete its generation parks *)
(* on a tokio Notify, of which only the notify_waiters half is used.       *)
(*                                                                         *)
(* Each action is one critical section (one lock_std_mutex block) or one   *)
(* call on the Notify.  A future can be dropped only where it is           *)
(* suspended, which is the single await of Barrier::wait.                  *)
(***************************************************************************)
EXTENDS Naturals, Sequences, FiniteSets, SequencesExt

CONSTANTS
    Tasks,          \* the tasks that call wait(), any number of times each
    Parties,        \* Barrier::new's normalised count
    MaxGeneration   \* bound: generations completed (the code's counter is 64 bits)

ASSUME BarrierAssumption ==
    /\ IsFiniteSet(Tasks)
    /\ Parties \in Nat \ {0}
    /\ MaxGeneration \in Nat

VARIABLES
    generation,     \* BarrierGeneration.generation
    active,         \* BarrierGeneration.active
    nextSlot,       \* BarrierGeneration.next_slot
    freeSlots,      \* BarrierGeneration.free_slots, a Vec used as a stack
    notifyCalls,    \* the Notify's count of notify_waiters calls
    pc,             \* where each task is in wait()
    myGeneration,   \* its local generation
    mySlot,         \* its local slot
    captured,       \* the notify count its Notified future was created under
    seats           \* history: who was counted for which slot of which generation

vars == <<generation, active, nextSlot, freeSlots, notifyCalls, pc,
          myGeneration, mySlot, captured, seats>>

Init ==
    /\ generation = 0
    /\ active = 0
    /\ nextSlot = 0
    /\ freeSlots = <<>>
    /\ notifyCalls = 0
    /\ pc = [t \in Tasks |-> "idle"]
    /\ myGeneration = [t \in Tasks |-> 0]
    /\ mySlot = [t \in Tasks |-> 0]
    /\ captured = [t \in Tasks |-> 0]
    /\ seats = {}

-----------------------------------------------------------------------------
\* Bug: the slot is the number of participants already waiting.
TakenSlotByCount == active

\* free_slots.pop().unwrap_or_else(next_slot).
TakenSlot == IF freeSlots = <<>> THEN nextSlot ELSE Last(freeSlots)

CompletesGeneration == active + 1 = Parties

\* The first critical section of wait(), when this arrival is the last one:
\* the next generation opens, empty, before anybody is notified.
Complete(t) ==
    /\ pc[t] = "idle"
    /\ generation < MaxGeneration
    /\ CompletesGeneration
    /\ myGeneration' = [myGeneration EXCEPT ![t] = generation]
    /\ mySlot' = [mySlot EXCEPT ![t] = TakenSlot]
    /\ seats' = seats \cup {[gen |-> generation, slot |-> TakenSlot, task |-> t]}
    /\ generation' = generation + 1
    /\ active' = 0
    /\ nextSlot' = 0
    /\ freeSlots' = <<>>
    /\ pc' = [pc EXCEPT ![t] = "completing"]
    /\ UNCHANGED <<notifyCalls, captured>>

\* The same section for an earlier arrival, which then builds its
\* BarrierRegistration and enters the loop.
Register(t) ==
    /\ pc[t] = "idle"
    /\ generation < MaxGeneration
    /\ ~CompletesGeneration
    /\ myGeneration' = [myGeneration EXCEPT ![t] = generation]
    /\ mySlot' = [mySlot EXCEPT ![t] = TakenSlot]
    /\ seats' = seats \cup {[gen |-> generation, slot |-> TakenSlot, task |-> t]}
    /\ active' = active + 1
    /\ IF freeSlots = <<>>
         THEN nextSlot' = nextSlot + 1 /\ UNCHANGED freeSlots
         ELSE freeSlots' = Front(freeSlots) /\ UNCHANGED nextSlot
    /\ pc' = [pc EXCEPT ![t] = "looping"]
    /\ UNCHANGED <<generation, notifyCalls, captured>>

\* Bug: the completer returns without notifying.
NotifyNobody(t) ==
    /\ pc[t] = "completing"
    /\ pc' = [pc EXCEPT ![t] = "idle"]
    /\ UNCHANGED <<generation, active, nextSlot, freeSlots, notifyCalls, myGeneration,
                   mySlot, captured, seats>>

\* released.notify_waiters(), outside the lock; then the completer returns.
NotifyWaiters(t) ==
    /\ pc[t] = "completing"
    /\ notifyCalls' = notifyCalls + 1
    /\ pc' = [pc EXCEPT ![t] = "idle"]
    /\ UNCHANGED <<generation, active, nextSlot, freeSlots, myGeneration, mySlot,
                   captured, seats>>

\* let released = self.0.released.notified(): a Notified future is woken by
\* every notify_waiters call that follows its creation.
CreateNotified(t) ==
    /\ pc[t] = "looping"
    /\ captured' = [captured EXCEPT ![t] = notifyCalls]
    /\ pc' = [pc EXCEPT ![t] = "checking"]
    /\ UNCHANGED <<generation, active, nextSlot, freeSlots, notifyCalls,
                   myGeneration, mySlot, seats>>

\* Bug: the Notified future is created after the check, in a step of its own.
CheckBeforeNotified(t) ==
    /\ \/ /\ pc[t] = "checking"
          /\ pc' = [pc EXCEPT ![t] =
                      IF generation # myGeneration[t] THEN "idle" ELSE "parking"]
          /\ UNCHANGED captured
       \/ /\ pc[t] = "parking"
          /\ pc' = [pc EXCEPT ![t] = "awaiting"]
          /\ captured' = [captured EXCEPT ![t] = notifyCalls]
    /\ UNCHANGED <<generation, active, nextSlot, freeSlots, notifyCalls,
                   myGeneration, mySlot, seats>>

\* The critical section of the loop: return if the generation moved on,
\* disarming the registration, else await the future.
CheckGeneration(t) ==
    /\ pc[t] = "checking"
    /\ pc' = [pc EXCEPT ![t] =
                IF generation # myGeneration[t] THEN "idle" ELSE "awaiting"]
    /\ UNCHANGED <<generation, active, nextSlot, freeSlots, notifyCalls,
                   myGeneration, mySlot, captured, seats>>

\* released.await is ready.
Wake(t) ==
    /\ pc[t] = "awaiting"
    /\ captured[t] # notifyCalls
    /\ pc' = [pc EXCEPT ![t] = "looping"]
    /\ UNCHANGED <<generation, active, nextSlot, freeSlots, notifyCalls,
                   myGeneration, mySlot, captured, seats>>

\* Bug: a late drop withdraws from whichever generation is open.
CancelAnyGeneration(t) ==
    /\ pc[t] = "awaiting"
    /\ pc' = [pc EXCEPT ![t] = "idle"]
    /\ IF active > 0
         THEN /\ active' = active - 1
              /\ freeSlots' = Append(freeSlots, mySlot[t])
              /\ seats' = seats \ {[gen |-> myGeneration[t], slot |-> mySlot[t], task |-> t]}
         ELSE UNCHANGED <<active, freeSlots, seats>>
    /\ UNCHANGED <<generation, nextSlot, notifyCalls, myGeneration, mySlot, captured>>

\* The caller drops the suspended future: BarrierRegistration::drop.
Cancel(t) ==
    /\ pc[t] = "awaiting"
    /\ pc' = [pc EXCEPT ![t] = "idle"]
    /\ IF generation = myGeneration[t] /\ active > 0
         THEN /\ active' = active - 1
              /\ freeSlots' = Append(freeSlots, mySlot[t])
              /\ seats' = seats \ {[gen |-> myGeneration[t], slot |-> mySlot[t], task |-> t]}
         ELSE UNCHANGED <<active, freeSlots, seats>>
    /\ UNCHANGED <<generation, nextSlot, notifyCalls, myGeneration, mySlot, captured>>

Next ==
    \E t \in Tasks :
        \/ Complete(t)
        \/ Register(t)
        \/ NotifyWaiters(t)
        \/ CreateNotified(t)
        \/ CheckGeneration(t)
        \/ Wake(t)
        \/ Cancel(t)

Spec == Init /\ [][Next]_vars

\* A polled future runs to its next await, and a woken one is polled again;
\* nothing obliges a caller to arrive or to cancel.
Fairness ==
    \A t \in Tasks :
        /\ WF_vars(NotifyWaiters(t))
        /\ WF_vars(CreateNotified(t))
        /\ WF_vars(CheckGeneration(t))
        /\ WF_vars(Wake(t))

-----------------------------------------------------------------------------
\* A participant counted in the generation that is still open.
Registered(t) ==
    /\ pc[t] \in {"looping", "checking", "awaiting"}
    /\ myGeneration[t] = generation

Participants == {t \in Tasks : Registered(t)}
HeldSlots == {mySlot[t] : t \in Participants}
FreeSlots == {freeSlots[i] : i \in 1..Len(freeSlots)}
Cohort(g) == {s \in seats : s.gen = g}

\* The types of the variables: counters of the barrier, locals of its callers.
TypeOK ==
    /\ generation \in Nat
    /\ active \in Nat
    /\ nextSlot \in Nat
    /\ freeSlots \in Seq(Nat)
    /\ notifyCalls \in Nat
    /\ pc \in [Tasks -> {"idle", "completing", "looping", "checking", "awaiting"}]
    /\ myGeneration \in [Tasks -> Nat]
    /\ mySlot \in [Tasks -> Nat]
    /\ captured \in [Tasks -> Nat]
    /\ seats \subseteq [gen : Nat, slot : Nat, task : Tasks]

\* Every slot handed out in the open generation is held by exactly one
\* registered participant or lies exactly once on the free stack, so neither
\* an arrival nor a cancellation ever duplicates or loses a slot; the two
\* debug_assert!s of the code (slots stay below the party count, a
\* cancellation finds an active participant) follow.
SlotsAccountedFor ==
    /\ HeldSlots \cup FreeSlots = 0..(nextSlot - 1)
    /\ HeldSlots \cap FreeSlots = {}
    /\ \A i, j \in 1..Len(freeSlots) : freeSlots[i] = freeSlots[j] => i = j
    /\ \A t, u \in Participants : mySlot[t] = mySlot[u] => t = u
    /\ active = Cardinality(Participants)
    /\ active + Len(freeSlots) = nextSlot
    /\ nextSlot < Parties

\* "Slots are unique within a completed generation": the participants counted
\* in a generation that completed hold the slots 0 .. parties-1, one each,
\* whatever cancellations happened on the way.
CompletedSlotsArePermutation ==
    \A g \in 0..(generation - 1) :
        /\ {s.slot : s \in Cohort(g)} = 0..(Parties - 1)
        /\ \A s, r \in Cohort(g) : s.slot = r.slot => s = r

\* A waiter parked on the Notify after its generation completed has been, or
\* is about to be, notified: either a notify_waiters call came after its
\* future was created or some completer has still to make one.
NoLostWakeup ==
    \A t \in Tasks :
        pc[t] = "awaiting" /\ myGeneration[t] # generation =>
            \/ captured[t] # notifyCalls
            \/ \E u \in Tasks : pc[u] = "completing"

\* Every participant of a completed generation leaves wait(), by returning or
\* because its caller cancelled it: nobody sleeps through the release.
EveryoneIsReleased ==
    \A t \in Tasks :
        pc[t] = "awaiting" /\ myGeneration[t] # generation ~> pc[t] = "idle"
=============================================================================
