--------------------------- MODULE StdAsyncProofs ---------------------------
(***************************************************************************)
(* Proofs about the barrier, for every set of tasks and every party count, *)
(* and about the channels of std.async.channel, for any producers, receiver*)
(* clones and buffer.                                                      *)
(*                                                                         *)
(* The slots of a barrier's participants and its free stack split the slots*)
(* handed out (SlotsAccountedFor), so a cohort that completes is numbered  *)
(* without gap or repetition.  The slots of a bounded channel are conserved*)
(* because a sender stands in line once and holds one slot at most         *)
(* (LineInv), and None is final because an empty, closed channel with every*)
(* slot free has no permit out (SlotInv, EndInv).                          *)
(***************************************************************************)
EXTENDS AsyncBarrier, AsyncChannel, AsyncOneshot, FiniteSetTheorems, SequenceTheorems, TLAPS

-----------------------------------------------------------------------------
(* The barrier. *)

\* The history of the open generation is the set of its registrations, and no
\* seat belongs to a later one.
SeatsMatchRegistrations ==
    /\ Cohort(generation) =
         {[gen |-> generation, slot |-> mySlot[t], task |-> t] : t \in Participants}
    /\ \A s \in seats : s.gen <= generation

\* A local generation is never ahead of the barrier's.
LocalsBehind ==
    \A t \in Tasks :
        /\ myGeneration[t] <= generation
        /\ captured[t] <= notifyCalls
        /\ pc[t] = "completing" => myGeneration[t] < generation

IInv ==
    /\ TypeOK
    /\ SlotsAccountedFor
    /\ SeatsMatchRegistrations
    /\ LocalsBehind
    /\ CompletedSlotsArePermutation
    /\ NoLostWakeup

-----------------------------------------------------------------------------
\* What Vec::pop leaves on the free stack.
LEMMA FrontFacts ==
    ASSUME NEW st \in Seq(Nat), st # <<>>
    PROVE  /\ Front(st) \in Seq(Nat)
           /\ Len(Front(st)) = Len(st) - 1
           /\ \A i \in 1..(Len(st) - 1) : Front(st)[i] = st[i]
<1>1. PICK n \in Nat : n = Len(st) - 1
  OBVIOUS
<1>2. Front(st) = SubSeq(st, 1, n)
  BY <1>1 DEF Front
<1>3. SubSeq(st, 1, n) \in Seq(Nat)
  BY <1>1
<1>4. Len(SubSeq(st, 1, n)) = n
  BY <1>1
<1>5. \A i \in 1..n : SubSeq(st, 1, n)[i] = st[i]
  BY <1>1
<1> QED
  BY <1>1, <1>2, <1>3, <1>4, <1>5

\* The free stack of sync.rs: what pop() returns and leaves, what push() adds.
LEMMA StackFacts ==
    ASSUME NEW st \in Seq(Nat)
    PROVE  /\ Len(st) \in Nat
           /\ \A i \in 1..Len(st) : st[i] \in Nat
           /\ st # <<>> => /\ Len(st) > 0
                           /\ Last(st) = st[Len(st)]
                           /\ Last(st) \in Nat
                           /\ Front(st) \in Seq(Nat)
                           /\ Len(Front(st)) = Len(st) - 1
                           /\ \A i \in 1..(Len(st) - 1) : Front(st)[i] = st[i]
           /\ st = <<>> => Len(st) = 0
           /\ \A x \in Nat : /\ Append(st, x) \in Seq(Nat)
                             /\ Len(Append(st, x)) = Len(st) + 1
                             /\ Append(st, x)[Len(st) + 1] = x
                             /\ \A i \in 1..Len(st) : Append(st, x)[i] = st[i]
<1>1. /\ Len(st) \in Nat
      /\ \A i \in 1..Len(st) : st[i] \in Nat
      /\ st = <<>> => Len(st) = 0
  OBVIOUS
<1>2. ASSUME st # <<>>
      PROVE  /\ Len(st) > 0
             /\ Last(st) = st[Len(st)]
             /\ Last(st) \in Nat
  BY <1>2, EmptySeq DEF Last
<1>3. ASSUME st # <<>>
      PROVE  /\ Front(st) \in Seq(Nat)
             /\ Len(Front(st)) = Len(st) - 1
             /\ \A i \in 1..(Len(st) - 1) : Front(st)[i] = st[i]
  BY <1>3, FrontFacts
<1>4. ASSUME NEW x \in Nat
      PROVE  /\ Append(st, x) \in Seq(Nat)
             /\ Len(Append(st, x)) = Len(st) + 1
             /\ Append(st, x)[Len(st) + 1] = x
             /\ \A i \in 1..Len(st) : Append(st, x)[i] = st[i]
  OBVIOUS
<1> QED
  BY <1>1, <1>2, <1>3, <1>4

\* The slot an arrival takes is a number.
LEMMA TakenSlotType ==
    ASSUME TypeOK
    PROVE  TakenSlot \in Nat
BY StackFacts DEF TypeOK, TakenSlot

\* Every step keeps the variables in their types; a cancellation cannot drive
\* active below zero because BarrierRegistration::drop tests it.
LEMMA TypeStep ==
    ASSUME TypeOK, [Next]_vars
    PROVE  TypeOK'
<1>1. ASSUME NEW t \in Tasks, Complete(t) PROVE TypeOK'
  BY <1>1, TakenSlotType DEF TypeOK, Complete
<1>2. ASSUME NEW t \in Tasks, Register(t) PROVE TypeOK'
  <2>1. freeSlots' \in Seq(Nat) /\ nextSlot' \in Nat
    BY <1>2, StackFacts DEF TypeOK, Register
  <2> QED
    BY <1>2, <2>1, TakenSlotType, SMTT(30) DEF TypeOK, Register
<1>3. ASSUME NEW t \in Tasks, NotifyWaiters(t) PROVE TypeOK'
  BY <1>3 DEF TypeOK, NotifyWaiters
<1>4. ASSUME NEW t \in Tasks, CreateNotified(t) PROVE TypeOK'
  BY <1>4 DEF TypeOK, CreateNotified
<1>5. ASSUME NEW t \in Tasks, CheckGeneration(t) PROVE TypeOK'
  BY <1>5 DEF TypeOK, CheckGeneration
<1>6. ASSUME NEW t \in Tasks, Wake(t) PROVE TypeOK'
  BY <1>6 DEF TypeOK, Wake
<1>7. ASSUME NEW t \in Tasks, Cancel(t) PROVE TypeOK'
  <2>1. freeSlots' \in Seq(Nat) /\ active' \in Nat
    <3>1. Append(freeSlots, mySlot[t]) \in Seq(Nat)
      BY StackFacts DEF TypeOK
    <3>2. CASE generation = myGeneration[t] /\ active > 0
      <4>1. active' = active - 1 /\ freeSlots' = Append(freeSlots, mySlot[t])
        BY <1>7, <3>2 DEF Cancel
      <4>2. active' \in Nat
        BY <3>2, <4>1 DEF TypeOK
      <4> QED
        BY <3>1, <4>1, <4>2
    <3>3. CASE ~(generation = myGeneration[t] /\ active > 0)
      BY <1>7, <3>3 DEF TypeOK, Cancel
    <3> QED
      BY <3>2, <3>3
  <2>2. seats' \subseteq seats
    BY <1>7 DEF Cancel
  <2>3. pc' \in [Tasks -> {"idle", "completing", "looping", "checking", "awaiting"}]
    BY <1>7 DEF TypeOK, Cancel
  <2> QED
    BY <1>7, <2>1, <2>2, <2>3 DEF TypeOK, Cancel
<1>8. CASE UNCHANGED vars
  BY <1>8 DEF TypeOK, vars
<1> QED
  BY <1>1, <1>2, <1>3, <1>4, <1>5, <1>6, <1>7, <1>8 DEF Next

\* The type invariant holds of every behaviour of the barrier.
THEOREM TypeCorrect == Spec => []TypeOK
<1>1. Init => TypeOK
  BY DEF Init, TypeOK
<1> QED
  BY <1>1, TypeStep, PTL DEF Spec
-----------------------------------------------------------------------------
\* Who is registered after each step.
LEMMA ParticipantsStep ==
    ASSUME TypeOK, LocalsBehind, NEW t \in Tasks
    PROVE  /\ Complete(t) => Participants' = {}
           /\ Register(t) => /\ t \notin Participants
                             /\ Participants' = Participants \cup {t}
           /\ NotifyWaiters(t) => Participants' = Participants
           /\ CreateNotified(t) => Participants' = Participants
           /\ CheckGeneration(t) => Participants' = Participants
           /\ Wake(t) => Participants' = Participants
           /\ Cancel(t) /\ myGeneration[t] # generation => Participants' = Participants
           /\ Cancel(t) /\ myGeneration[t] = generation =>
                /\ t \in Participants
                /\ Participants' = Participants \ {t}
<1> USE DEF Participants, Registered
<1>1. Complete(t) => Participants' = {}
  BY DEF TypeOK, LocalsBehind, Complete
<1>2. Register(t) => t \notin Participants /\ Participants' = Participants \cup {t}
  BY DEF TypeOK, Register
<1>3. NotifyWaiters(t) => Participants' = Participants
  BY DEF TypeOK, NotifyWaiters
<1>4. CreateNotified(t) => Participants' = Participants
  BY DEF TypeOK, CreateNotified
<1>5. CheckGeneration(t) => Participants' = Participants
  BY DEF TypeOK, CheckGeneration
<1>6. Wake(t) => Participants' = Participants
  BY DEF TypeOK, Wake
<1>7. Cancel(t) /\ myGeneration[t] # generation => Participants' = Participants
  BY DEF TypeOK, Cancel
<1>8. Cancel(t) /\ myGeneration[t] = generation =>
        t \in Participants /\ Participants' = Participants \ {t}
  BY DEF TypeOK, Cancel
<1> QED
  BY <1>1, <1>2, <1>3, <1>4, <1>5, <1>6, <1>7, <1>8

\* Locals stay behind the barrier's counters.
LEMMA LocalsStep ==
    ASSUME TypeOK, LocalsBehind, [Next]_vars
    PROVE  LocalsBehind'
<1> USE DEF TypeOK, LocalsBehind
<1>1. ASSUME NEW t \in Tasks, Complete(t) PROVE LocalsBehind'
  BY <1>1 DEF Complete
<1>2. ASSUME NEW t \in Tasks, Register(t) PROVE LocalsBehind'
  BY <1>2 DEF Register
<1>3. ASSUME NEW t \in Tasks, NotifyWaiters(t) PROVE LocalsBehind'
  BY <1>3 DEF NotifyWaiters
<1>4. ASSUME NEW t \in Tasks, CreateNotified(t) PROVE LocalsBehind'
  BY <1>4 DEF CreateNotified
<1>5. ASSUME NEW t \in Tasks, CheckGeneration(t) PROVE LocalsBehind'
  BY <1>5 DEF CheckGeneration
<1>6. ASSUME NEW t \in Tasks, Wake(t) PROVE LocalsBehind'
  BY <1>6 DEF Wake
<1>7. ASSUME NEW t \in Tasks, Cancel(t) PROVE LocalsBehind'
  BY <1>7 DEF Cancel
<1>8. CASE UNCHANGED vars
  BY <1>8 DEF vars
<1> QED
  BY <1>1, <1>2, <1>3, <1>4, <1>5, <1>6, <1>7, <1>8 DEF Next

\* No waiter parks behind a notification it missed.
LEMMA WakeupStep ==
    ASSUME TypeOK, LocalsBehind, NoLostWakeup, [Next]_vars
    PROVE  NoLostWakeup'
<1> USE DEF TypeOK, NoLostWakeup
<1>1. ASSUME NEW t \in Tasks, Complete(t) PROVE NoLostWakeup'
  BY <1>1 DEF Complete
<1>2. ASSUME NEW t \in Tasks, Register(t) PROVE NoLostWakeup'
  BY <1>2 DEF Register
<1>3. ASSUME NEW t \in Tasks, NotifyWaiters(t) PROVE NoLostWakeup'
  BY <1>3 DEF NotifyWaiters, LocalsBehind
<1>4. ASSUME NEW t \in Tasks, CreateNotified(t) PROVE NoLostWakeup'
  BY <1>4 DEF CreateNotified
<1>5. ASSUME NEW t \in Tasks, CheckGeneration(t) PROVE NoLostWakeup'
  BY <1>5 DEF CheckGeneration
<1>6. ASSUME NEW t \in Tasks, Wake(t) PROVE NoLostWakeup'
  BY <1>6 DEF Wake
<1>7. ASSUME NEW t \in Tasks, Cancel(t) PROVE NoLostWakeup'
  BY <1>7 DEF Cancel
<1>8. CASE UNCHANGED vars
  BY <1>8 DEF vars
<1> QED
  BY <1>1, <1>2, <1>3, <1>4, <1>5, <1>6, <1>7, <1>8 DEF Next
-----------------------------------------------------------------------------
\* Steps that touch neither the barrier's state nor who is registered.
Quiet ==
    /\ Participants' = Participants
    /\ UNCHANGED <<generation, active, nextSlot, freeSlots, mySlot, seats>>

LEMMA QuietStep ==
    ASSUME Quiet, SlotsAccountedFor, SeatsMatchRegistrations, CompletedSlotsArePermutation
    PROVE  SlotsAccountedFor' /\ SeatsMatchRegistrations' /\ CompletedSlotsArePermutation'
<1>1. SlotsAccountedFor'
  BY DEF Quiet, SlotsAccountedFor, HeldSlots, FreeSlots
<1>2. SeatsMatchRegistrations'
  BY DEF Quiet, SeatsMatchRegistrations, Cohort
<1>3. CompletedSlotsArePermutation'
  BY DEF Quiet, CompletedSlotsArePermutation, Cohort
<1> QED
  BY <1>1, <1>2, <1>3

\* An arrival that does not complete its generation keeps the slots accounted for.
LEMMA RegisterSlots ==
    ASSUME TypeOK, LocalsBehind, SlotsAccountedFor, NEW t \in Tasks, Register(t)
    PROVE  SlotsAccountedFor'
<1>1. /\ t \notin Participants
      /\ Participants' = Participants \cup {t}
  BY ParticipantsStep
<1>2. /\ mySlot'[t] = TakenSlot
      /\ \A u \in Participants : mySlot'[u] = mySlot[u]
  BY <1>1 DEF TypeOK, Register, Participants
<1>3. HeldSlots' = HeldSlots \cup {TakenSlot}
  BY <1>1, <1>2 DEF HeldSlots
<1>4. active' = Cardinality(Participants')
  <2>1. IsFiniteSet(Participants)
    BY BarrierAssumption, FS_Subset DEF Participants
  <2> QED
    BY <1>1, <2>1, FS_AddElement DEF SlotsAccountedFor, Register
<1>5. TakenSlot \notin HeldSlots
  <2>1. CASE freeSlots = <<>>
    BY <2>1 DEF SlotsAccountedFor, TakenSlot, TypeOK
  <2>2. CASE freeSlots # <<>>
    BY <2>2, StackFacts DEF SlotsAccountedFor, TakenSlot, FreeSlots, TypeOK
  <2> QED
    BY <2>1, <2>2
<1>6. \A u, v \in Participants' : mySlot'[u] = mySlot'[v] => u = v
  BY <1>1, <1>2, <1>5 DEF SlotsAccountedFor, HeldSlots
<1>7. CASE freeSlots = <<>>
  <2>1. FreeSlots = {} /\ FreeSlots' = {} /\ freeSlots' = <<>>
    BY <1>7 DEF FreeSlots, Register
  <2>2. TakenSlot = nextSlot /\ nextSlot' = nextSlot + 1 /\ active' = active + 1
    BY <1>7 DEF TakenSlot, Register
  <2>3. HeldSlots' \cup FreeSlots' = 0..(nextSlot' - 1)
    BY <1>3, <2>1, <2>2 DEF SlotsAccountedFor, TypeOK
  <2>4. active' + Len(freeSlots') = nextSlot' /\ nextSlot' < Parties
    BY <1>7, <2>1, <2>2, BarrierAssumption
    DEF SlotsAccountedFor, TypeOK, Register, CompletesGeneration
  <2> QED
    BY <1>4, <1>6, <2>1, <2>3, <2>4 DEF SlotsAccountedFor
<1>8. CASE freeSlots # <<>>
  <2>1. /\ freeSlots' = Front(freeSlots)
        /\ nextSlot' = nextSlot
        /\ active' = active + 1
        /\ TakenSlot = freeSlots[Len(freeSlots)]
    BY <1>8, StackFacts DEF Register, TakenSlot, TypeOK
  <2>2. /\ Len(freeSlots) \in Nat \ {0}
        /\ Len(freeSlots') = Len(freeSlots) - 1
        /\ \A i \in 1..(Len(freeSlots) - 1) : freeSlots'[i] = freeSlots[i]
    <3>1. freeSlots \in Seq(Nat)
      BY DEF TypeOK
    <3>2. Len(freeSlots) \in Nat /\ Len(freeSlots) > 0
      BY <1>8, <3>1, StackFacts
    <3>3. /\ Len(freeSlots') = Len(freeSlots) - 1
          /\ \A i \in 1..(Len(freeSlots) - 1) : freeSlots'[i] = freeSlots[i]
      BY <1>8, <2>1, <3>1, FrontFacts, Zenon
    <3> QED
      BY <3>2, <3>3
  <2>3. FreeSlots' = FreeSlots \ {TakenSlot} /\ TakenSlot \in FreeSlots
    <3>1. TakenSlot \in FreeSlots
      BY <2>1, <2>2 DEF FreeSlots
    <3>2. FreeSlots' \subseteq FreeSlots \ {TakenSlot}
      <4>1. ASSUME NEW i \in 1..Len(freeSlots')
            PROVE  i \in 1..Len(freeSlots) /\ freeSlots'[i] = freeSlots[i]
                   /\ freeSlots[i] # freeSlots[Len(freeSlots)]
        BY <2>2 DEF SlotsAccountedFor
      <4> QED
        BY <2>1, <4>1 DEF FreeSlots
    <3>3. FreeSlots \ {TakenSlot} \subseteq FreeSlots'
      <4>1. ASSUME NEW i \in 1..Len(freeSlots), freeSlots[i] # TakenSlot
            PROVE  i \in 1..Len(freeSlots') /\ freeSlots'[i] = freeSlots[i]
        BY <2>1, <2>2, <4>1
      <4> QED
        BY <4>1 DEF FreeSlots
    <3> QED
      BY <3>1, <3>2, <3>3
  <2>4. HeldSlots' \cup FreeSlots' = 0..(nextSlot' - 1) /\ HeldSlots' \cap FreeSlots' = {}
    BY <1>3, <2>1, <2>3 DEF SlotsAccountedFor
  <2>5. \A i, j \in 1..Len(freeSlots') : freeSlots'[i] = freeSlots'[j] => i = j
    BY <2>2 DEF SlotsAccountedFor
  <2>6. active' + Len(freeSlots') = nextSlot' /\ nextSlot' < Parties
    BY <2>1, <2>2 DEF SlotsAccountedFor, TypeOK
  <2> QED
    BY <1>4, <1>6, <2>4, <2>5, <2>6 DEF SlotsAccountedFor
<1> QED
  BY <1>7, <1>8

\* A cancellation returns exactly the slot it held.
LEMMA CancelSlots ==
    ASSUME TypeOK, LocalsBehind, SlotsAccountedFor,
           NEW t \in Tasks, Cancel(t), myGeneration[t] = generation
    PROVE  SlotsAccountedFor' /\ active > 0
<1>1. t \in Participants /\ Participants' = Participants \ {t} /\ mySlot' = mySlot
  BY ParticipantsStep DEF Cancel
<1>2. IsFiniteSet(Participants)
  BY BarrierAssumption, FS_Subset DEF Participants
<1>3. active > 0 /\ Cardinality(Participants') = active - 1
  <2>1. active = Cardinality(Participants) /\ active \in Nat
    BY DEF SlotsAccountedFor, TypeOK
  <2>2. active # 0
    BY <1>1, <1>2, <2>1, FS_EmptySet
  <2>3. Cardinality(Participants \ {t}) = Cardinality(Participants) - 1
    BY <1>1, <1>2, FS_RemoveElement
  <2> QED
    BY <1>1, <2>1, <2>2, <2>3
<1>4. /\ active' = active - 1
      /\ freeSlots' = Append(freeSlots, mySlot[t])
      /\ nextSlot' = nextSlot
  BY <1>3 DEF Cancel
<1>5. mySlot[t] \in Nat /\ mySlot[t] \in HeldSlots
  BY <1>1 DEF TypeOK, HeldSlots
<1>6. /\ Len(freeSlots) \in Nat
      /\ Len(freeSlots') = Len(freeSlots) + 1
      /\ freeSlots'[Len(freeSlots) + 1] = mySlot[t]
      /\ \A i \in 1..Len(freeSlots) : freeSlots'[i] = freeSlots[i]
  BY <1>4, <1>5, StackFacts DEF TypeOK
<1>7. FreeSlots' = FreeSlots \cup {mySlot[t]}
  BY <1>6 DEF FreeSlots
<1>8. HeldSlots' = HeldSlots \ {mySlot[t]}
  BY <1>1 DEF HeldSlots, SlotsAccountedFor
<1>9. HeldSlots' \cup FreeSlots' = 0..(nextSlot' - 1) /\ HeldSlots' \cap FreeSlots' = {}
  BY <1>4, <1>5, <1>7, <1>8 DEF SlotsAccountedFor
<1>10. \A i, j \in 1..Len(freeSlots') : freeSlots'[i] = freeSlots'[j] => i = j
  <2>1. \A i \in 1..Len(freeSlots) : freeSlots[i] # mySlot[t]
    BY <1>5 DEF SlotsAccountedFor, FreeSlots
  <2> QED
    BY <1>6, <2>1 DEF SlotsAccountedFor
<1>11. active' + Len(freeSlots') = nextSlot' /\ nextSlot' < Parties
  BY <1>3, <1>4, <1>6 DEF SlotsAccountedFor, TypeOK
<1>12. \A u, v \in Participants' : mySlot'[u] = mySlot'[v] => u = v
  BY <1>1 DEF SlotsAccountedFor
<1> QED
  BY <1>3, <1>4, <1>9, <1>10, <1>11, <1>12 DEF SlotsAccountedFor
-----------------------------------------------------------------------------
\* The step that completes a generation: nobody is registered in the next
\* one, and the cohort it closes holds the slots 0 .. Parties-1, one each.
LEMMA CompleteStep ==
    ASSUME IInv, NEW t \in Tasks, Complete(t)
    PROVE  SlotsAccountedFor' /\ SeatsMatchRegistrations' /\ CompletedSlotsArePermutation'
<1> USE DEF IInv
<1> DEFINE seat == [gen |-> generation, slot |-> TakenSlot, task |-> t]
<1>1. Participants' = {}
  BY ParticipantsStep
<1>2. /\ generation' = generation + 1
      /\ active' = 0 /\ nextSlot' = 0 /\ freeSlots' = <<>>
      /\ seats' = seats \cup {seat}
  BY DEF Complete
<1>3. SlotsAccountedFor'
  <2>1. HeldSlots' = {} /\ FreeSlots' = {}
    BY <1>1, <1>2 DEF HeldSlots, FreeSlots
  <2>2. Len(freeSlots') = 0 /\ Cardinality(Participants') = 0
    BY <1>1, <1>2, FS_EmptySet
  <2> QED
    BY <1>1, <1>2, <2>1, <2>2, BarrierAssumption DEF SlotsAccountedFor
<1>4. SeatsMatchRegistrations'
  <2>1. \A s \in seats' : s.gen <= generation
    BY <1>2 DEF SeatsMatchRegistrations, TypeOK
  <2>2. Cohort(generation)' = {}
    BY <1>2, <2>1 DEF Cohort, TypeOK
  <2>3. \A s \in seats' : s.gen <= generation'
    BY <1>2, <2>1 DEF TypeOK, Complete
  <2> QED
    BY <1>1, <2>2, <2>3 DEF SeatsMatchRegistrations
<1>5. Len(freeSlots) = 0 /\ nextSlot = Parties - 1 /\ freeSlots = <<>>
  BY StackFacts, BarrierAssumption
  DEF SlotsAccountedFor, TypeOK, Complete, CompletesGeneration
<1>6. TakenSlot = Parties - 1 /\ HeldSlots = 0..(Parties - 2)
  <2>1. FreeSlots = {}
    BY <1>5 DEF FreeSlots
  <2>2. HeldSlots = 0..(nextSlot - 1)
    BY <2>1 DEF SlotsAccountedFor
  <2> QED
    BY <1>5, <2>2, BarrierAssumption DEF TakenSlot
<1>7. /\ {s.slot : s \in Cohort(generation)} = 0..(Parties - 2)
      /\ \A s, r \in Cohort(generation) : s.slot = r.slot => s = r
  <2>1. Cohort(generation) =
          {[gen |-> generation, slot |-> mySlot[u], task |-> u] : u \in Participants}
    BY DEF SeatsMatchRegistrations
  <2>2. {s.slot : s \in Cohort(generation)} = HeldSlots
    <3> DEFINE SeatOf(u) == [gen |-> generation, slot |-> mySlot[u], task |-> u]
    <3>1. \A u \in Participants : SeatOf(u) \in Cohort(generation)
                                  /\ SeatOf(u).slot = mySlot[u]
      BY <2>1
    <3>2. \A s \in Cohort(generation) : \E u \in Participants : s = SeatOf(u)
      BY <2>1
    <3> HIDE DEF SeatOf
    <3> QED
      BY <3>1, <3>2 DEF HeldSlots
  <2>3. \A s, r \in Cohort(generation) : s.slot = r.slot => s = r
    <3> SUFFICES ASSUME NEW u \in Participants, NEW v \in Participants,
                        mySlot[u] = mySlot[v]
                 PROVE  u = v
      BY <2>1
    <3> QED
      BY DEF SlotsAccountedFor
  <2> QED
    BY <1>6, <2>2, <2>3
<1>8. {s \in seats' : s.gen = generation} = Cohort(generation) \cup {seat}
  BY <1>2 DEF Cohort
<1>9. \A g \in 0..(generation - 1) : {s \in seats' : s.gen = g} = Cohort(g)
  BY <1>2 DEF Cohort, TypeOK
<1>10. CompletedSlotsArePermutation'
  <2> SUFFICES ASSUME NEW g \in 0..generation
               PROVE  /\ {s.slot : s \in Cohort(g)'} = 0..(Parties - 1)
                      /\ \A s, r \in Cohort(g)' : s.slot = r.slot => s = r
    BY <1>2 DEF CompletedSlotsArePermutation, TypeOK
  <2>1. Cohort(g)' = {s \in seats' : s.gen = g}
    BY DEF Cohort
  <2>2. CASE g = generation
    <3>1. Cohort(g)' = Cohort(generation) \cup {seat}
      BY <1>8, <2>1, <2>2
    <3>2. {s.slot : s \in Cohort(g)'} = 0..(Parties - 2) \cup {Parties - 1}
      <4>1. {s.slot : s \in Cohort(g)'} = {s.slot : s \in Cohort(generation)} \cup {seat.slot}
        BY <3>1
      <4>2. seat.slot = Parties - 1
        BY <1>6
      <4> QED
        BY <1>7, <4>1, <4>2
    <3>3. 0..(Parties - 2) \cup {Parties - 1} = 0..(Parties - 1)
      BY BarrierAssumption
    <3>4. \A s \in Cohort(generation) : s.slot # seat.slot
      BY <1>6, <1>7, BarrierAssumption
    <3> QED
      BY <1>7, <3>1, <3>2, <3>3, <3>4
  <2>3. CASE g # generation
    BY <1>9, <2>1, <2>3 DEF CompletedSlotsArePermutation, TypeOK
  <2> QED
    BY <2>2, <2>3
<1> QED
  BY <1>3, <1>4, <1>10

\* Arrivals and withdrawals keep the seats of the open generation in step with
\* its registrations, and leave completed generations alone.
LEMMA RegisterSeats ==
    ASSUME IInv, NEW t \in Tasks, Register(t)
    PROVE  SeatsMatchRegistrations' /\ CompletedSlotsArePermutation'
<1> USE DEF IInv
<1> DEFINE seat == [gen |-> generation, slot |-> TakenSlot, task |-> t]
<1>1. /\ t \notin Participants
      /\ Participants' = Participants \cup {t}
      /\ generation' = generation
      /\ seats' = seats \cup {seat}
  BY ParticipantsStep DEF Register
<1>2. /\ mySlot'[t] = TakenSlot
      /\ \A u \in Participants : mySlot'[u] = mySlot[u]
  BY <1>1 DEF TypeOK, Register, Participants
<1>3. Cohort(generation)' = Cohort(generation) \cup {seat}
  BY <1>1 DEF Cohort
<1>4. SeatsMatchRegistrations'
  <2>1. Cohort(generation)' =
          {[gen |-> generation, slot |-> mySlot'[u], task |-> u] : u \in Participants'}
    BY <1>1, <1>2, <1>3 DEF SeatsMatchRegistrations
  <2>2. \A s \in seats' : s.gen <= generation'
    BY <1>1 DEF SeatsMatchRegistrations, TypeOK
  <2> QED
    BY <1>1, <2>1, <2>2 DEF SeatsMatchRegistrations
<1>5. \A g \in 0..(generation - 1) : Cohort(g)' = Cohort(g)
  BY <1>1 DEF Cohort, TypeOK
<1> QED
  BY <1>1, <1>4, <1>5 DEF CompletedSlotsArePermutation

LEMMA CancelSeats ==
    ASSUME IInv, NEW t \in Tasks, Cancel(t), myGeneration[t] = generation
    PROVE  SeatsMatchRegistrations' /\ CompletedSlotsArePermutation'
<1> USE DEF IInv
<1> DEFINE seat == [gen |-> generation, slot |-> mySlot[t], task |-> t]
<1>1. /\ t \in Participants
      /\ Participants' = Participants \ {t}
      /\ generation' = generation
      /\ mySlot' = mySlot
      /\ seats' = seats \ {seat}
  BY ParticipantsStep, CancelSlots DEF Cancel
<1>2. Cohort(generation)' = Cohort(generation) \ {seat}
  BY <1>1 DEF Cohort
<1>3. SeatsMatchRegistrations'
  <2>1. Cohort(generation)' =
          {[gen |-> generation, slot |-> mySlot'[u], task |-> u] : u \in Participants'}
    BY <1>1, <1>2 DEF SeatsMatchRegistrations
  <2>2. \A s \in seats' : s.gen <= generation'
    BY <1>1 DEF SeatsMatchRegistrations, TypeOK
  <2> QED
    BY <1>1, <2>1, <2>2 DEF SeatsMatchRegistrations
<1>4. \A g \in 0..(generation - 1) : Cohort(g)' = Cohort(g)
  BY <1>1 DEF Cohort, TypeOK
<1> QED
  BY <1>1, <1>3, <1>4 DEF CompletedSlotsArePermutation
-----------------------------------------------------------------------------
\* The part of IInv that only arrivals and withdrawals can disturb.
SeatingInv == SlotsAccountedFor /\ SeatsMatchRegistrations /\ CompletedSlotsArePermutation

\* IInv is inductive.
LEMMA InductiveStep ==
    ASSUME IInv, [Next]_vars
    PROVE  IInv'
<1> USE DEF IInv
<1>1. TypeOK' /\ LocalsBehind' /\ NoLostWakeup'
  BY TypeStep, LocalsStep, WakeupStep
<1>2. Quiet => SeatingInv'
  BY QuietStep DEF SeatingInv
<1>3. ASSUME NEW t \in Tasks, Complete(t) PROVE SeatingInv'
  BY <1>3, CompleteStep DEF SeatingInv
<1>4. ASSUME NEW t \in Tasks, Register(t) PROVE SeatingInv'
  BY <1>4, RegisterSlots, RegisterSeats DEF SeatingInv
<1>5. ASSUME NEW t \in Tasks, NotifyWaiters(t) PROVE Quiet
  BY <1>5, ParticipantsStep DEF Quiet, NotifyWaiters
<1>6. ASSUME NEW t \in Tasks, CreateNotified(t) PROVE Quiet
  BY <1>6, ParticipantsStep DEF Quiet, CreateNotified
<1>7. ASSUME NEW t \in Tasks, CheckGeneration(t) PROVE Quiet
  BY <1>7, ParticipantsStep DEF Quiet, CheckGeneration
<1>8. ASSUME NEW t \in Tasks, Wake(t) PROVE Quiet
  BY <1>8, ParticipantsStep DEF Quiet, Wake
<1>9. ASSUME NEW t \in Tasks, Cancel(t) PROVE SeatingInv'
  <2>1. CASE myGeneration[t] = generation
    BY <1>9, <2>1, CancelSlots, CancelSeats DEF SeatingInv
  <2>2. CASE myGeneration[t] # generation
    <3>1. Quiet
      BY <1>9, <2>2, ParticipantsStep DEF Quiet, Cancel
    <3> QED
      BY <1>2, <3>1
  <2> QED
    BY <2>1, <2>2
<1>10. ASSUME UNCHANGED vars PROVE SeatingInv'
  <2>1. Quiet
    BY <1>10 DEF Quiet, vars, Participants, Registered
  <2> QED
    BY <1>2, <2>1
<1>11. SeatingInv'
  BY <1>2, <1>3, <1>4, <1>5, <1>6, <1>7, <1>8, <1>9, <1>10 DEF Next
<1> QED
  BY <1>1, <1>11 DEF SeatingInv

LEMMA InductiveInit == Init => IInv
<1> SUFFICES ASSUME Init PROVE IInv
  OBVIOUS
<1>1. Participants = {} /\ Cardinality(Participants) = 0
  BY FS_EmptySet DEF Init, Participants, Registered
<1>2. TypeOK /\ LocalsBehind /\ NoLostWakeup
  BY DEF Init, TypeOK, LocalsBehind, NoLostWakeup
<1>3. SlotsAccountedFor
  <2>1. HeldSlots = {} /\ FreeSlots = {} /\ Len(freeSlots) = 0
    BY <1>1 DEF Init, HeldSlots, FreeSlots
  <2> QED
    BY <1>1, <2>1, BarrierAssumption DEF Init, SlotsAccountedFor
<1>4. SeatsMatchRegistrations /\ CompletedSlotsArePermutation
  <2>1. generation = 0 /\ seats = {}
    BY DEF Init
  <2>2. 0..(generation - 1) = {} /\ Cohort(generation) = {}
    BY <2>1 DEF Cohort
  <2> QED
    BY <1>1, <2>1, <2>2 DEF SeatsMatchRegistrations, CompletedSlotsArePermutation
<1> QED
  BY <1>2, <1>3, <1>4 DEF IInv

\* The inductive invariant holds of every behaviour.
THEOREM InvariantHolds == Spec => []IInv
BY InductiveInit, InductiveStep, PTL DEF Spec

\* No slot of the open generation is duplicated or lost, by any interleaving of
\* arrivals and cancellations; both debug_assert!s of sync.rs follow.
THEOREM SlotsAreAccountedFor == Spec => []SlotsAccountedFor
<1>1. IInv => SlotsAccountedFor
  BY DEF IInv
<1> QED
  BY <1>1, InvariantHolds, PTL

\* The slots returned for a completed generation are a permutation of
\* 0 .. Parties-1, as the doc comment of Barrier::wait promises.
THEOREM CompletedSlotsUnique == Spec => []CompletedSlotsArePermutation
<1>1. IInv => CompletedSlotsArePermutation
  BY DEF IInv
<1> QED
  BY <1>1, InvariantHolds, PTL

\* A parked waiter whose generation completed always has a wake-up coming.
THEOREM WakeupNeverLost == Spec => []NoLostWakeup
<1>1. IInv => NoLostWakeup
  BY DEF IInv
<1> QED
  BY <1>1, InvariantHolds, PTL

-----------------------------------------------------------------------------
(* The channels and the one-shot channel. *)

Waiting == {"send", "reserve"}

\* The producers whose permit holds a slot.
Slots == {t \in Producers : permit[t] = "slot"}

\* ChannelTypeOK by parts, and without the bounds of free, which rest on SlotInv: the
\* semaphore, the messages, and the tasks.
SemaphoreTypeOK == free \in Nat /\ granted \subseteq Producers /\ sendQueue \in Seq(Producers)

MessageTypeOK ==
    /\ queue \in Seq(1 .. MaxSends) /\ accepted \in Seq(1 .. MaxSends)
    /\ received \in Seq(1 .. MaxSends)

TaskTypeOK ==
    /\ bounded \in BOOLEAN /\ closed \in BOOLEAN /\ ended \in BOOLEAN
    /\ senders \subseteq Producers /\ receivers \subseteq Consumers
    /\ permit \in [Producers -> {"none", "slot", "pseudo", "used"}]
    /\ doing \in [Callers -> {"idle", "send", "reserve", "recv"}]
    /\ val \in [Producers -> 0 .. MaxSends] /\ sends \in 0 .. MaxSends

\* A sender stands in line once, and without a slot.
LineInv ==
    /\ \A i, j \in 1 .. Len(sendQueue) : sendQueue[i] = sendQueue[j] => i = j
    /\ \A t \in granted : ~Contains(sendQueue, t)

\* The sender has a slot granted, or stands in line for one.
InLine(t) == t \in granted \/ Contains(sendQueue, t)

\* What a task waits with, and which permits there are.
TaskInv ==
    /\ \A t \in Producers :
         /\ InLine(t) => doing[t] \in Waiting
         /\ doing[t] \in Waiting => t \in senders /\ bounded
         /\ doing[t] = "send" => val[t] \in 1 .. MaxSends
         /\ doing[t] = "reserve" => permit[t] = "none"
         /\ permit[t] = "slot" => bounded
         /\ permit[t] = "pseudo" => ~bounded
    /\ \A t \in Consumers : doing[t] \notin Waiting

\* The slots of a bounded channel are conserved; an unbounded one has none.
SlotInv ==
    IF bounded THEN free + Len(queue) + Cardinality(granted) + Cardinality(Slots) = Capacity
    ELSE free = Capacity

\* Once None was answered the channel stays drained.
EndInv == ended => Drained

ChInv ==
    /\ SemaphoreTypeOK /\ MessageTypeOK /\ TaskTypeOK
    /\ LineInv /\ TaskInv /\ SlotInv /\ NothingLost /\ EndInv

-----------------------------------------------------------------------------
\* A waiter that leaves its line leaves the others in it, each once.
LEMMA LeaveLine ==
    ASSUME NEW S, NEW line \in Seq(S), NEW t, \A i, j \in 1 .. Len(line) : line[i] = line[j] => i = j
    PROVE  /\ Leave(line, t) \in Seq(S)
           /\ \A i \in 1 .. Len(Leave(line, t)) :
                Leave(line, t)[i] # t /\ \E j \in 1 .. Len(line) : Leave(line, t)[i] = line[j]
           /\ \A i, j \in 1 .. Len(Leave(line, t)) : Leave(line, t)[i] = Leave(line, t)[j] => i = j
<1>1. CASE ~Contains(line, t)
  BY <1>1 DEF Leave, Contains
<1>2. CASE Contains(line, t)
  <2>1. PICK k \in 1 .. Len(line) : line[k] = t /\ Leave(line, t) = RemoveAt(line, k)
    BY <1>2 DEF Contains, Leave
  <2> DEFINE a == SubSeq(line, 1, k - 1)
             b == SubSeq(line, k + 1, Len(line))
  <2>2. Leave(line, t) = a \o b
    BY <2>1 DEF RemoveAt
  <2>3. a \in Seq(S) /\ Len(a) = k - 1 /\ \A i \in 1 .. k - 1 : a[i] = line[i]
    BY SubSeqProperties
  <2>4. b \in Seq(S) /\ Len(b) = Len(line) - k /\ \A i \in 1 .. Len(line) - k : b[i] = line[k + i]
    BY SubSeqProperties
  <2> HIDE DEF a, b
  <2>5. /\ a \o b \in Seq(S) /\ Len(a \o b) = Len(line) - 1
        /\ \A i \in 1 .. Len(line) - 1 : (a \o b)[i] = IF i < k THEN line[i] ELSE line[i + 1]
    <3>1. a \o b \in Seq(S) /\ Len(a \o b) = Len(line) - 1
      BY <2>3, <2>4, ConcatProperties
    <3>2. \A i \in 1 .. Len(a) + Len(b) : (a \o b)[i] = IF i <= Len(a) THEN a[i] ELSE b[i - Len(a)]
      BY <2>3, <2>4, ConcatProperties
    <3>3. \A i \in 1 .. Len(line) - 1 : (a \o b)[i] = IF i < k THEN line[i] ELSE line[i + 1]
      <4> TAKE i \in 1 .. Len(line) - 1
      <4>1. CASE i < k
        BY <4>1, <2>3, <2>4, <3>2
      <4>2. CASE ~(i < k)
        <5>1. i - Len(a) \in 1 .. Len(line) - k /\ i \in 1 .. Len(a) + Len(b) /\ ~(i <= Len(a))
          BY <4>2, <2>3, <2>4
        <5>2. b[i - Len(a)] = line[k + (i - Len(a))] /\ k + (i - Len(a)) = i + 1
          BY <5>1, <2>3, <2>4
        <5> QED
          BY <4>2, <5>1, <5>2, <3>2
      <4> QED
        BY <4>1, <4>2
    <3> QED
      BY <3>1, <3>3
  <2>6. \A i \in 1 .. Len(line) - 1 : \E j \in 1 .. Len(line) :
           j # k /\ (a \o b)[i] = line[j] /\ j = IF i < k THEN i ELSE i + 1
    <3> TAKE i \in 1 .. Len(line) - 1
    <3>1. CASE i < k
      <4>1. i \in 1 .. Len(line) /\ i # k /\ (a \o b)[i] = line[i]
        BY <2>5, <3>1
      <4> QED
        BY <3>1, <4>1
    <3>2. CASE ~(i < k)
      <4>1. i + 1 \in 1 .. Len(line) /\ i + 1 # k /\ (a \o b)[i] = line[i + 1]
        BY <2>5, <3>2
      <4> QED
        BY <3>2, <4>1
    <3> QED
      BY <3>1, <3>2
  <2>7. \A i \in 1 .. Len(line) - 1 : (a \o b)[i] # t
    BY <2>1, <2>6
  <2>8. \A i, j \in 1 .. Len(line) - 1 : (a \o b)[i] = (a \o b)[j] => i = j
    <3> SUFFICES ASSUME NEW i \in 1 .. Len(line) - 1, NEW j \in 1 .. Len(line) - 1,
                        (a \o b)[i] = (a \o b)[j]
                 PROVE  i = j
      OBVIOUS
    <3>1. PICK x \in 1 .. Len(line) : (a \o b)[i] = line[x] /\ x = IF i < k THEN i ELSE i + 1
      BY <2>6
    <3>2. PICK y \in 1 .. Len(line) : (a \o b)[j] = line[y] /\ y = IF j < k THEN j ELSE j + 1
      BY <2>6
    <3>3. x = y
      BY <3>1, <3>2
    <3> QED
      BY <3>1, <3>2, <3>3
  <2> QED
    BY <2>2, <2>5, <2>6, <2>7, <2>8
<1> QED
  BY <1>1, <1>2

\* Whoever leaves, what is left is a line.
LEMMA LeaveType ==
    ASSUME NEW S, NEW line \in Seq(S), NEW t PROVE Leave(line, t) \in Seq(S)
<1>1. CASE ~Contains(line, t)
  BY <1>1 DEF Leave
<1>2. CASE Contains(line, t)
  <2>1. PICK k \in 1 .. Len(line) :
          Leave(line, t) = SubSeq(line, 1, k - 1) \o SubSeq(line, k + 1, Len(line))
    BY <1>2 DEF Contains, Leave, RemoveAt
  <2>2. SubSeq(line, 1, k - 1) \in Seq(S) /\ SubSeq(line, k + 1, Len(line)) \in Seq(S)
    BY SubSeqProperties
  <2> QED
    BY <2>1, <2>2, ConcatProperties
<1> QED
  BY <1>1, <1>2

\* The first in line goes on, the others stay, each once.
LEMMA FirstInLine ==
    ASSUME NEW S, NEW line \in Seq(S), line # <<>>
    PROVE  /\ Head(line) = line[1] /\ Head(line) \in S /\ 1 \in 1 .. Len(line)
           /\ Tail(line) \in Seq(S) /\ Len(Tail(line)) = Len(line) - 1
           /\ \A i \in 1 .. Len(Tail(line)) : i + 1 \in 1 .. Len(line) /\ Tail(line)[i] = line[i + 1]
OBVIOUS

\* How many slots are granted, and how many permits hold one, are numbers.
LEMMA Counts ==
    ASSUME SemaphoreTypeOK
    PROVE  /\ free \in Nat /\ IsFiniteSet(granted) /\ Cardinality(granted) \in Nat
           /\ IsFiniteSet(Slots) /\ Cardinality(Slots) \in Nat
BY ChannelAssumption, FS_Subset, FS_CardinalityType DEF SemaphoreTypeOK, Slots

\* So are they after a step, and the permits change their number only if they change.
LEMMA CountsNext ==
    ASSUME SemaphoreTypeOK'
    PROVE  /\ free' \in Nat /\ Cardinality(granted)' \in Nat /\ Cardinality(Slots)' \in Nat
           /\ UNCHANGED permit => Cardinality(Slots)' = Cardinality(Slots)
BY ChannelAssumption, FS_Subset, FS_CardinalityType DEF SemaphoreTypeOK, Slots

\* A slot that is given back goes to the first in line or becomes free.
LEMMA GiveBackGives ==
    ASSUME SemaphoreTypeOK, LineInv, GiveBack
    PROVE  /\ SemaphoreTypeOK' /\ LineInv'
           /\ \A u : InLine(u)' => InLine(u)
           /\ bounded => free' + Cardinality(granted)' = free + Cardinality(granted) + 1
           /\ ~bounded => UNCHANGED <<free, granted, sendQueue>>
<1> USE DEF SemaphoreTypeOK, LineInv, InLine, Contains
<1>1. CASE ~bounded
  BY <1>1 DEF GiveBack
<1>2. CASE bounded /\ sendQueue = <<>>
  BY <1>2, Counts DEF GiveBack
<1>3. CASE bounded /\ sendQueue # <<>>
  <2> DEFINE h == Head(sendQueue)
  <2>1. granted' = granted \cup {h} /\ sendQueue' = Tail(sendQueue) /\ UNCHANGED free
    BY <1>3 DEF GiveBack
  <2>2. h \in Producers /\ h \notin granted /\ h = sendQueue[1] /\ 1 \in 1 .. Len(sendQueue)
    BY <1>3, FirstInLine
  <2>3. /\ Tail(sendQueue) \in Seq(Producers)
        /\ \A i \in 1 .. Len(Tail(sendQueue)) :
             i + 1 \in 1 .. Len(sendQueue) /\ Tail(sendQueue)[i] = sendQueue[i + 1]
    BY <1>3, FirstInLine
  <2>4. Cardinality(granted)' = Cardinality(granted) + 1
    BY <2>1, <2>2, Counts, FS_AddElement
  <2> HIDE DEF h
  <2>5. LineInv'
    BY <2>1, <2>2, <2>3
  <2>6. \A u : InLine(u)' => InLine(u)
    BY <2>1, <2>2, <2>3
  <2> QED
    BY <1>3, <2>1, <2>2, <2>3, <2>4, <2>5, <2>6, Counts
<1> QED
  BY <1>1, <1>2, <1>3

\* An acquisition is granted a free slot or joins the line.
LEMMA AcquireWaits ==
    ASSUME SemaphoreTypeOK, LineInv, NEW t \in Producers, NEW o, ~InLine(t),
           Acquire(t, o)
    PROVE  /\ SemaphoreTypeOK' /\ LineInv'
           /\ \A u : InLine(u)' => InLine(u) \/ u = t
           /\ free' + Cardinality(granted)' = free + Cardinality(granted)
           /\ bounded /\ ~closed /\ doing' = [doing EXCEPT ![t] = o]
           /\ UNCHANGED <<bounded, queue, closed, accepted>>
<1> USE DEF SemaphoreTypeOK, LineInv, InLine, Contains
<1>1. bounded /\ ~closed /\ doing' = [doing EXCEPT ![t] = o] /\ UNCHANGED <<bounded, queue, closed, accepted>>
  BY DEF Acquire
<1>2. CASE free > 0
  <2>1. free' = free - 1 /\ granted' = granted \cup {t} /\ UNCHANGED sendQueue
    BY <1>2 DEF Acquire
  <2>2. Cardinality(granted)' = Cardinality(granted) + 1
    BY <2>1, Counts, FS_AddElement
  <2>3. LineInv' /\ \A u : InLine(u)' => InLine(u) \/ u = t
    BY <2>1
  <2> QED
    BY <1>1, <1>2, <2>1, <2>2, <2>3, Counts
<1>3. CASE ~(free > 0)
  <2>1. sendQueue' = Append(sendQueue, t) /\ UNCHANGED <<free, granted>>
    BY <1>3 DEF Acquire
  <2>2. /\ sendQueue' \in Seq(Producers) /\ Len(sendQueue') = Len(sendQueue) + 1
        /\ \A i \in 1 .. Len(sendQueue') :
             sendQueue'[i] = IF i = Len(sendQueue) + 1 THEN t ELSE sendQueue[i]
    BY <2>1, AppendProperties
  <2>3. LineInv'
    BY <2>1, <2>2
  <2>4. \A u : InLine(u)' => InLine(u) \/ u = t
    BY <2>1, <2>2
  <2> QED
    BY <1>1, <2>1, <2>2, <2>3, <2>4
<1> QED
  BY <1>2, <1>3

\* A sender that gives up leaves the line, or hands its slot on.
LEMMA CancelLeaves ==
    ASSUME SemaphoreTypeOK, LineInv, NEW t \in Producers, bounded, CancelSend(t)
    PROVE  /\ SemaphoreTypeOK' /\ LineInv'
           /\ \A u : InLine(u)' => InLine(u) /\ u # t
           /\ free' + Cardinality(granted)' = free + Cardinality(granted)
<1> USE DEF SemaphoreTypeOK, LineInv, InLine, Contains
<1>1. CASE t \in granted /\ sendQueue = <<>>
  <2>1. free' = free + 1 /\ granted' = granted \ {t} /\ UNCHANGED sendQueue
    BY <1>1 DEF CancelSend
  <2>2. Cardinality(granted)' = Cardinality(granted) - 1
    BY <1>1, <2>1, Counts, FS_RemoveElement
  <2> QED
    BY <1>1, <2>1, <2>2, Counts
<1>2. CASE t \in granted /\ sendQueue # <<>>
  <2> DEFINE h == Head(sendQueue)
  <2>1. granted' = (granted \ {t}) \cup {h} /\ sendQueue' = Tail(sendQueue) /\ UNCHANGED free
    BY <1>2 DEF CancelSend
  <2>2. h \in Producers /\ h \notin granted /\ h = sendQueue[1] /\ 1 \in 1 .. Len(sendQueue)
    BY <1>2, FirstInLine
  <2>3. /\ Tail(sendQueue) \in Seq(Producers)
        /\ \A i \in 1 .. Len(Tail(sendQueue)) :
             i + 1 \in 1 .. Len(sendQueue) /\ Tail(sendQueue)[i] = sendQueue[i + 1]
    BY <1>2, FirstInLine
  <2>4. Cardinality(granted)' = Cardinality(granted)
    <3>1. IsFiniteSet(granted \ {t}) /\ Cardinality(granted \ {t}) = Cardinality(granted) - 1
      BY <1>2, Counts, FS_RemoveElement
    <3>2. Cardinality((granted \ {t}) \cup {h}) = Cardinality(granted \ {t}) + 1
      BY <2>2, <3>1, FS_AddElement
    <3> QED
      BY <2>1, <3>1, <3>2, Counts
  <2> HIDE DEF h
  <2>5. LineInv'
    BY <2>1, <2>2, <2>3
  <2>6. \A u : InLine(u)' => InLine(u) /\ u # t
    BY <1>2, <2>1, <2>2, <2>3
  <2> QED
    BY <1>2, <2>1, <2>2, <2>3, <2>4, <2>5, <2>6, Counts
<1>3. CASE t \notin granted
  <2>1. sendQueue' = Leave(sendQueue, t) /\ UNCHANGED <<free, granted>>
    BY <1>3 DEF CancelSend
  <2>2. /\ sendQueue' \in Seq(Producers)
        /\ \A i \in 1 .. Len(sendQueue') :
             sendQueue'[i] # t /\ \E j \in 1 .. Len(sendQueue) : sendQueue'[i] = sendQueue[j]
        /\ \A i, j \in 1 .. Len(sendQueue') : sendQueue'[i] = sendQueue'[j] => i = j
    BY <2>1, LeaveLine
  <2>3. \A u : Contains(sendQueue', u) => Contains(sendQueue, u) /\ u # t
    BY <2>2
  <2> HIDE DEF Contains
  <2>4. LineInv'
    BY <2>1, <2>2, <2>3
  <2>5. \A u : InLine(u)' => InLine(u) /\ u # t
    BY <1>3, <2>1, <2>3
  <2> QED
    BY <2>1, <2>2, <2>4, <2>5
<1> QED
  BY <1>1, <1>2, <1>3

\* A value pushed is the last one queued and the last one accepted.
LEMMA PushAppends ==
    ASSUME MessageTypeOK, NEW v \in 1 .. MaxSends, Push(v)
    PROVE  /\ queue' \in Seq(1 .. MaxSends) /\ accepted' \in Seq(1 .. MaxSends)
           /\ Len(queue') = Len(queue) + 1
           /\ accepted = received \o queue => accepted' = received \o queue'
<1> USE DEF MessageTypeOK, Push
<1>1. queue' = queue \o <<v>> /\ accepted' = accepted \o <<v>>
  BY AppendIsConcat
<1>2. received \o (queue \o <<v>>) = (received \o queue) \o <<v>>
  BY ConcatAssociative
<1> QED
  BY <1>1, <1>2

\* A sequence is its head and then its tail.
LEMMA HeadThenTail ==
    ASSUME NEW S, NEW s \in Seq(S), s # <<>> PROVE s = <<Head(s)>> \o Tail(s)
<1> DEFINE h == <<Head(s)>>
<1>1. h \in Seq(S) /\ Len(h) = 1 /\ h[1] = s[1]
  BY HeadTailProperties
<1>2. /\ Tail(s) \in Seq(S) /\ Len(Tail(s)) = Len(s) - 1
      /\ \A i \in 1 .. Len(Tail(s)) : Tail(s)[i] = s[i + 1]
  BY HeadTailProperties
<1> HIDE DEF h
<1>3. /\ h \o Tail(s) \in Seq(S) /\ Len(h \o Tail(s)) = Len(s)
      /\ \A i \in 1 .. Len(s) : (h \o Tail(s))[i] = IF i <= 1 THEN h[i] ELSE Tail(s)[i - 1]
  BY <1>1, <1>2, ConcatProperties, SMTT(30)
<1>4. \A i \in 1 .. Len(s) : (h \o Tail(s))[i] = s[i]
  BY <1>1, <1>2, <1>3
<1>5. s = h \o Tail(s)
  BY <1>3, <1>4, SeqEqual
<1> QED
  BY <1>5 DEF h

\* A value popped is the first one queued and the last one received.
LEMMA PopMoves ==
    ASSUME MessageTypeOK, Pop
    PROVE  /\ queue' \in Seq(1 .. MaxSends) /\ received' \in Seq(1 .. MaxSends)
           /\ Len(queue) > 0 /\ Len(queue') = Len(queue) - 1
           /\ received' \o queue' = received \o queue
<1> USE DEF MessageTypeOK, Pop
<1>1. /\ queue = <<Head(queue)>> \o Tail(queue) /\ Head(queue) \in 1 .. MaxSends
      /\ Tail(queue) \in Seq(1 .. MaxSends) /\ Len(Tail(queue)) = Len(queue) - 1
      /\ received \in Seq(1 .. MaxSends) /\ queue' = Tail(queue)
  BY HeadThenTail, HeadTailProperties
<1>2. Len(queue) > 0
  BY EmptySeq
<1>3. received' = received \o <<Head(queue)>>
  BY <1>1, AppendIsConcat
<1>4. (received \o <<Head(queue)>>) \o Tail(queue) = received \o (<<Head(queue)>> \o Tail(queue))
  BY <1>1, ConcatAssociative, SMTT(30)
<1>5. received' \in Seq(1 .. MaxSends)
  BY <1>1, AppendProperties
<1> QED
  BY <1>1, <1>2, <1>3, <1>4, <1>5

\* Every step keeps the line in order.
LEMMA SemaphoreStep ==
    ASSUME SemaphoreTypeOK, MessageTypeOK, TaskTypeOK, LineInv, TaskInv, [ChannelNext]_channelVars
    PROVE  (SemaphoreTypeOK /\ LineInv)'
<1> USE ChannelAssumption DEF SemaphoreTypeOK, LineInv, Contains, IdleSender, IdleReceiver, TryLockReceiver,
        NewValue, Waiting, Callers, coreVars
<1>1. ASSUME NEW t \in Producers, Send(t) PROVE (SemaphoreTypeOK /\ LineInv)'
  <2>1. ~InLine(t)
    BY <1>1 DEF Send, TaskInv
  <2>2. CASE Acquire(t, "send")
    BY <2>1, <2>2, AcquireWaits
  <2>3. CASE UNCHANGED <<free, granted, sendQueue>>
    BY <2>3
  <2> QED
    BY <1>1, <2>2, <2>3 DEF Send
<1>2. ASSUME NEW t \in Producers, TrySend(t) PROVE (SemaphoreTypeOK /\ LineInv)'
  BY <1>2 DEF TrySend
<1>3. ASSUME NEW t \in Producers, Reserve(t) PROVE (SemaphoreTypeOK /\ LineInv)'
  <2>1. ~InLine(t)
    BY <1>3 DEF Reserve, TaskInv
  <2>2. CASE Acquire(t, "reserve")
    BY <2>1, <2>2, AcquireWaits
  <2>3. CASE UNCHANGED <<free, granted, sendQueue>>
    BY <2>3
  <2> QED
    BY <1>3, <2>2, <2>3 DEF Reserve
<1>4. ASSUME NEW t \in Producers, SendGranted(t) PROVE (SemaphoreTypeOK /\ LineInv)'
  BY <1>4 DEF SendGranted
<1>5. ASSUME NEW t \in Producers, ReserveGranted(t) PROVE (SemaphoreTypeOK /\ LineInv)'
  BY <1>5 DEF ReserveGranted
<1>6. ASSUME NEW t \in Producers, Refused(t) PROVE (SemaphoreTypeOK /\ LineInv)'
  BY <1>6 DEF Refused
<1>7. ASSUME NEW t \in Producers, CancelSend(t) PROVE (SemaphoreTypeOK /\ LineInv)'
  BY <1>7, CancelLeaves DEF CancelSend, TaskInv
<1>8. ASSUME NEW t \in Producers, PermitSend(t) PROVE (SemaphoreTypeOK /\ LineInv)'
  BY <1>8 DEF PermitSend
<1>9. ASSUME NEW t \in Producers, DropPermit(t) PROVE (SemaphoreTypeOK /\ LineInv)'
  <2>1. CASE GiveBack
    BY <2>1, GiveBackGives
  <2>2. CASE UNCHANGED <<free, granted, sendQueue>>
    BY <2>2
  <2> QED
    BY <1>9, <2>1, <2>2 DEF DropPermit
<1>10. ASSUME NEW t \in Producers, DropSender(t) PROVE (SemaphoreTypeOK /\ LineInv)'
  BY <1>10 DEF DropSender
<1>11. ASSUME NEW t \in Consumers, Recv(t) \/ RecvNone(t) \/ CancelRecv(t)
      PROVE  (SemaphoreTypeOK /\ LineInv)'
  BY <1>11 DEF Recv, RecvNone, CancelRecv
<1>12. ASSUME NEW t \in Consumers, RecvValue(t) \/ TryRecv(t) PROVE (SemaphoreTypeOK /\ LineInv)'
  <2>1. CASE GiveBack
    BY <2>1, GiveBackGives
  <2>2. CASE UNCHANGED <<free, granted, sendQueue>>
    BY <2>2
  <2> QED
    BY <1>12, <2>1, <2>2 DEF RecvValue, TryRecv, Pop
<1>13. ASSUME NEW t \in Consumers, Close(t) PROVE (SemaphoreTypeOK /\ LineInv)'
  BY <1>13 DEF Close
<1>14. ASSUME NEW t \in Consumers, DropReceiver(t) PROVE (SemaphoreTypeOK /\ LineInv)'
  <2>1. free' \in Nat
    BY <1>14 DEF DropReceiver, MessageTypeOK
  <2>2. UNCHANGED granted
    BY <1>14 DEF DropReceiver
  <2>3. sendQueue' = <<>> \/ sendQueue' = sendQueue
    BY <1>14 DEF DropReceiver
  <2>4. CASE sendQueue' = <<>>
    BY <2>1, <2>2, <2>4, EmptySeq
  <2>5. CASE sendQueue' = sendQueue
    BY <2>1, <2>2, <2>5
  <2> QED
    BY <2>3, <2>4, <2>5
<1>15. CASE UNCHANGED channelVars
  BY <1>15 DEF channelVars
<1> QED
  BY <1>1, <1>2, <1>3, <1>4, <1>5, <1>6, <1>7, <1>8, <1>9, <1>10, <1>11, <1>12, <1>13,
     <1>14, <1>15
     DEF ChannelNext, PollSender, PollReceiver

\* Every step keeps the types of the tasks' state.
LEMMA TaskTypeStep ==
    ASSUME SemaphoreTypeOK, MessageTypeOK, TaskTypeOK, LineInv, TaskInv, [ChannelNext]_channelVars
    PROVE  TaskTypeOK'
<1> USE ChannelAssumption DEF TaskTypeOK, Acquire, IdleSender, IdleReceiver, TryLockReceiver, NewValue, Waiting,
        Callers, coreVars
<1>1. ASSUME NEW t \in Producers, Send(t) PROVE TaskTypeOK'
  BY <1>1 DEF Send
<1>2. ASSUME NEW t \in Producers, TrySend(t) PROVE TaskTypeOK'
  BY <1>2 DEF TrySend
<1>3. ASSUME NEW t \in Producers, Reserve(t) PROVE TaskTypeOK'
  BY <1>3 DEF Reserve
<1>4. ASSUME NEW t \in Producers, SendGranted(t) PROVE TaskTypeOK'
  BY <1>4 DEF SendGranted
<1>5. ASSUME NEW t \in Producers, ReserveGranted(t) PROVE TaskTypeOK'
  BY <1>5 DEF ReserveGranted
<1>6. ASSUME NEW t \in Producers, Refused(t) PROVE TaskTypeOK'
  BY <1>6 DEF Refused
<1>7. ASSUME NEW t \in Producers, CancelSend(t) PROVE TaskTypeOK'
  BY <1>7 DEF CancelSend
<1>8. ASSUME NEW t \in Producers, PermitSend(t) PROVE TaskTypeOK'
  BY <1>8 DEF PermitSend
<1>9. ASSUME NEW t \in Producers, DropPermit(t) PROVE TaskTypeOK'
  BY <1>9 DEF DropPermit
<1>10. ASSUME NEW t \in Producers, DropSender(t) PROVE TaskTypeOK'
  BY <1>10 DEF DropSender
<1>11. ASSUME NEW t \in Consumers, Recv(t) \/ RecvNone(t) \/ CancelRecv(t)
      PROVE  TaskTypeOK'
  BY <1>11 DEF Recv, RecvNone, CancelRecv
<1>12. ASSUME NEW t \in Consumers, RecvValue(t) \/ TryRecv(t) PROVE TaskTypeOK'
  BY <1>12 DEF RecvValue, TryRecv
<1>13. ASSUME NEW t \in Consumers, Close(t) PROVE TaskTypeOK'
  BY <1>13 DEF Close
<1>14. ASSUME NEW t \in Consumers, DropReceiver(t) PROVE TaskTypeOK'
  BY <1>14 DEF DropReceiver
<1>15. CASE UNCHANGED channelVars
  BY <1>15 DEF channelVars
<1> QED
  BY <1>1, <1>2, <1>3, <1>4, <1>5, <1>6, <1>7, <1>8, <1>9, <1>10, <1>11, <1>12, <1>13,
     <1>14, <1>15
     DEF ChannelNext, PollSender, PollReceiver

\* Every step accounts for the values accepted.
LEMMA MessageStep ==
    ASSUME SemaphoreTypeOK, MessageTypeOK, TaskTypeOK, LineInv, TaskInv,
           NothingLost, [ChannelNext]_channelVars
    PROVE  (MessageTypeOK /\ NothingLost)'
<1> USE ChannelAssumption DEF MessageTypeOK, NothingLost, IdleSender, IdleReceiver, TryLockReceiver, NewValue,
        Waiting, Callers, coreVars
<1>1. ASSUME NEW t \in Producers, Send(t) PROVE (MessageTypeOK /\ NothingLost)'
  <2>1. sends + 1 \in 1 .. MaxSends
    BY <1>1 DEF Send, Acquire, TaskTypeOK
  <2>2. CASE Push(sends + 1)
    BY <1>1, <2>1, <2>2, PushAppends DEF Send, Acquire
  <2>3. CASE UNCHANGED <<queue, accepted>>
    BY <1>1, <2>3 DEF Send, Acquire
  <2> QED
    BY <1>1, <2>2, <2>3 DEF Send, Acquire
<1>2. ASSUME NEW t \in Producers, TrySend(t) PROVE (MessageTypeOK /\ NothingLost)'
  <2>1. sends + 1 \in 1 .. MaxSends
    BY <1>2 DEF TrySend, TaskTypeOK
  <2>2. CASE Push(sends + 1)
    BY <1>2, <2>1, <2>2, PushAppends DEF TrySend
  <2>3. CASE UNCHANGED <<queue, accepted>>
    BY <1>2, <2>3 DEF TrySend
  <2> QED
    BY <1>2, <2>2, <2>3 DEF TrySend
<1>3. ASSUME NEW t \in Producers, Reserve(t) PROVE (MessageTypeOK /\ NothingLost)'
  BY <1>3 DEF Reserve, Acquire
<1>4. ASSUME NEW t \in Producers, SendGranted(t) PROVE (MessageTypeOK /\ NothingLost)'
  <2>1. val[t] \in 1 .. MaxSends
    BY <1>4 DEF SendGranted, TaskInv
  <2> QED
    BY <1>4, <2>1, PushAppends DEF SendGranted
<1>5. ASSUME NEW t \in Producers, ReserveGranted(t) PROVE (MessageTypeOK /\ NothingLost)'
  BY <1>5 DEF ReserveGranted
<1>6. ASSUME NEW t \in Producers, Refused(t) PROVE (MessageTypeOK /\ NothingLost)'
  BY <1>6 DEF Refused
<1>7. ASSUME NEW t \in Producers, CancelSend(t) PROVE (MessageTypeOK /\ NothingLost)'
  BY <1>7 DEF CancelSend
<1>8. ASSUME NEW t \in Producers, PermitSend(t) PROVE (MessageTypeOK /\ NothingLost)'
  <2>1. sends + 1 \in 1 .. MaxSends
    BY <1>8 DEF PermitSend, TaskTypeOK
  <2>2. CASE Push(sends + 1)
    BY <1>8, <2>1, <2>2, PushAppends DEF PermitSend
  <2>3. CASE UNCHANGED <<queue, accepted>>
    BY <1>8, <2>3 DEF PermitSend
  <2> QED
    BY <1>8, <2>2, <2>3 DEF PermitSend
<1>9. ASSUME NEW t \in Producers, DropPermit(t) PROVE (MessageTypeOK /\ NothingLost)'
  BY <1>9 DEF DropPermit
<1>10. ASSUME NEW t \in Producers, DropSender(t) PROVE (MessageTypeOK /\ NothingLost)'
  BY <1>10 DEF DropSender
<1>11. ASSUME NEW t \in Consumers, Recv(t) \/ RecvNone(t) \/ CancelRecv(t)
      PROVE  (MessageTypeOK /\ NothingLost)'
  BY <1>11 DEF Recv, RecvNone, CancelRecv
<1>12. ASSUME NEW t \in Consumers, RecvValue(t) \/ TryRecv(t) PROVE (MessageTypeOK /\ NothingLost)'
  <2>1. Pop /\ UNCHANGED <<receivers, accepted>>
    BY <1>12 DEF RecvValue, TryRecv
  <2> QED
    BY <2>1, PopMoves
<1>13. ASSUME NEW t \in Consumers, Close(t) PROVE (MessageTypeOK /\ NothingLost)'
  BY <1>13 DEF Close
<1>14. ASSUME NEW t \in Consumers, DropReceiver(t) PROVE (MessageTypeOK /\ NothingLost)'
  <2>1. receivers' # {} => UNCHANGED queue
    BY <1>14 DEF DropReceiver
  <2>2. UNCHANGED <<received, accepted>> /\ (queue' = <<>> \/ queue' = queue)
    BY <1>14 DEF DropReceiver
  <2>3. receivers' # {} => receivers # {}
    BY <1>14 DEF DropReceiver
  <2>4. queue' \in Seq(1 .. MaxSends)
    BY <2>2, EmptySeq
  <2> QED
    BY <2>1, <2>2, <2>3, <2>4
<1>15. CASE UNCHANGED channelVars
  BY <1>15 DEF channelVars
<1> QED
  BY <1>1, <1>2, <1>3, <1>4, <1>5, <1>6, <1>7, <1>8, <1>9, <1>10, <1>11, <1>12, <1>13,
     <1>14, <1>15
     DEF ChannelNext, PollSender, PollReceiver

\* Every step keeps what tasks wait with.
LEMMA TaskStep ==
    ASSUME SemaphoreTypeOK, MessageTypeOK, TaskTypeOK, LineInv, TaskInv, [ChannelNext]_channelVars
    PROVE  TaskInv'
<1> USE ChannelAssumption DEF TaskTypeOK, TaskInv, IdleSender, IdleReceiver, TryLockReceiver, NewValue, Waiting,
        Callers, coreVars
<1>1. ASSUME NEW t \in Producers, Send(t) PROVE TaskInv'
  <2>1. ~InLine(t)
    BY <1>1 DEF Send
  <2>2. CASE Acquire(t, "send")
    BY <1>1, <2>1, <2>2, AcquireWaits DEF Send
  <2>3. CASE ~bounded
    BY <1>1, <2>1, <2>3 DEF Send, Acquire, InLine
  <2> QED
    BY <1>1, <2>2, <2>3 DEF Send
<1>2. ASSUME NEW t \in Producers, TrySend(t) PROVE TaskInv'
  <2>1. \A u \in Producers : InLine(u)' => InLine(u)
    BY <1>2, GiveBackGives DEF TrySend, InLine
  <2> QED
    BY <1>2, <2>1 DEF TrySend
<1>3. ASSUME NEW t \in Producers, Reserve(t) PROVE TaskInv'
  <2>1. ~InLine(t)
    BY <1>3 DEF Reserve
  <2>2. CASE Acquire(t, "reserve")
    BY <1>3, <2>1, <2>2, AcquireWaits DEF Reserve
  <2>3. CASE ~bounded
    BY <1>3, <2>1, <2>3 DEF Reserve, Acquire, InLine
  <2> QED
    BY <1>3, <2>2, <2>3 DEF Reserve
<1>4. ASSUME NEW t \in Producers, SendGranted(t) PROVE TaskInv'
  <2>1. \A u \in Producers : InLine(u)' => InLine(u) /\ u # t
    BY <1>4 DEF SendGranted, InLine, LineInv
  <2> QED
    BY <1>4, <2>1 DEF SendGranted
<1>5. ASSUME NEW t \in Producers, ReserveGranted(t) PROVE TaskInv'
  <2>1. \A u \in Producers : InLine(u)' => InLine(u) /\ u # t
    BY <1>5 DEF ReserveGranted, InLine, LineInv
  <2> QED
    BY <1>5, <2>1 DEF ReserveGranted
<1>6. ASSUME NEW t \in Producers, Refused(t) PROVE TaskInv'
  <2>1. \A u \in Producers : InLine(u)' => InLine(u) /\ u # t
    BY <1>6 DEF Refused, InLine, LineInv
  <2> QED
    BY <1>6, <2>1 DEF Refused
<1>7. ASSUME NEW t \in Producers, CancelSend(t) PROVE TaskInv'
  <2>1. \A u \in Producers : InLine(u)' => InLine(u) /\ u # t
    BY <1>7, CancelLeaves DEF CancelSend
  <2> QED
    BY <1>7, <2>1 DEF CancelSend
<1>8. ASSUME NEW t \in Producers, PermitSend(t) PROVE TaskInv'
  <2>1. \A u \in Producers : InLine(u)' => InLine(u)
    BY <1>8, GiveBackGives DEF PermitSend, InLine
  <2> QED
    BY <1>8, <2>1 DEF PermitSend
<1>9. ASSUME NEW t \in Producers, DropPermit(t) PROVE TaskInv'
  <2>1. \A u \in Producers : InLine(u)' => InLine(u)
    BY <1>9, GiveBackGives DEF DropPermit, InLine
  <2> QED
    BY <1>9, <2>1 DEF DropPermit
<1>10. ASSUME NEW t \in Producers, DropSender(t) PROVE TaskInv'
  <2>1. \A u \in Producers : InLine(u)' => InLine(u)
    BY <1>10, GiveBackGives DEF DropSender, InLine
  <2> QED
    BY <1>10, <2>1 DEF DropSender
<1>11. ASSUME NEW t \in Consumers, Recv(t) \/ RecvNone(t) \/ CancelRecv(t)
      PROVE  TaskInv'
  <2>1. \A u \in Producers : InLine(u)' => InLine(u)
    BY <1>11, GiveBackGives DEF Recv, RecvNone, CancelRecv, InLine
  <2> QED
    BY <1>11, <2>1 DEF Recv, RecvNone, CancelRecv
<1>12. ASSUME NEW t \in Consumers, RecvValue(t) \/ TryRecv(t) PROVE TaskInv'
  <2>1. \A u \in Producers : InLine(u)' => InLine(u)
    BY <1>12, GiveBackGives DEF RecvValue, TryRecv, Pop, InLine
  <2> QED
    BY <1>12, <2>1 DEF RecvValue, TryRecv, Pop
<1>13. ASSUME NEW t \in Consumers, Close(t) PROVE TaskInv'
  <2>1. \A u \in Producers : InLine(u)' => InLine(u)
    BY <1>13, GiveBackGives DEF Close, Contains, InLine
  <2> QED
    BY <1>13, <2>1 DEF Close, Contains
<1>14. ASSUME NEW t \in Consumers, DropReceiver(t) PROVE TaskInv'
  <2>1. \A u \in Producers : InLine(u)' => InLine(u)
    BY <1>14, GiveBackGives DEF DropReceiver, Contains, InLine
  <2> QED
    BY <1>14, <2>1 DEF DropReceiver, Contains
<1>15. CASE UNCHANGED channelVars
  <2>1. \A u \in Producers : InLine(u)' => InLine(u)
    BY <1>15, GiveBackGives DEF channelVars, InLine
  <2> QED
    BY <1>15, <2>1 DEF channelVars
<1> QED
  BY <1>1, <1>2, <1>3, <1>4, <1>5, <1>6, <1>7, <1>8, <1>9, <1>10, <1>11, <1>12, <1>13,
     <1>14, <1>15
     DEF ChannelNext, PollSender, PollReceiver

\* A permit that takes a slot, or gives one up, changes their number by one.
LEMMA PermitCounts ==
    ASSUME SemaphoreTypeOK, NEW t \in Producers,
           \A u \in Producers : u # t => permit'[u] = permit[u]
    PROVE  /\ permit[t] # "slot" /\ permit'[t] = "slot" => Cardinality(Slots)' = Cardinality(Slots) + 1
           /\ permit[t] = "slot" /\ permit'[t] # "slot" => Cardinality(Slots)' = Cardinality(Slots) - 1
           /\ permit[t] # "slot" /\ permit'[t] # "slot" => Cardinality(Slots)' = Cardinality(Slots)
<1>1. permit'[t] = "slot" => Slots' = Slots \cup {t}
  BY DEF Slots
<1>2. permit'[t] # "slot" => Slots' = Slots \ {t}
  BY DEF Slots
<1>3. t \in Slots <=> permit[t] = "slot"
  BY DEF Slots
<1> QED
  BY <1>1, <1>2, <1>3, Counts, FS_AddElement, FS_RemoveElement, SMTT(30)

\* A slot granted and used up is one less.
LEMMA GrantCounts ==
    ASSUME SemaphoreTypeOK, NEW t \in granted, granted' = granted \ {t}
    PROVE  Cardinality(granted)' = Cardinality(granted) - 1
BY Counts, FS_RemoveElement

\* What moves between the four places where slots are.
LEMMA SlotsMove ==
    ASSUME SemaphoreTypeOK, MessageTypeOK, SlotInv, SemaphoreTypeOK', MessageTypeOK',
           bounded, UNCHANGED bounded,
           free' + Cardinality(granted)' + Len(queue') + Cardinality(Slots)'
             = free + Cardinality(granted) + Len(queue) + Cardinality(Slots)
    PROVE  SlotInv'
<1>1. /\ free \in Nat /\ Cardinality(granted) \in Nat /\ Cardinality(Slots) \in Nat /\ Len(queue) \in Nat
      /\ free + Len(queue) + Cardinality(granted) + Cardinality(Slots) = Capacity
  BY Counts DEF SlotInv, MessageTypeOK
<1>2. /\ free' \in Nat /\ Cardinality(granted)' \in Nat /\ Cardinality(Slots)' \in Nat
      /\ Len(queue') \in Nat
  BY CountsNext DEF MessageTypeOK
<1>3. free' + Len(queue') + Cardinality(granted)' + Cardinality(Slots)' = Capacity
  BY <1>1, <1>2
<1> QED
  BY <1>3 DEF SlotInv

\* Every step conserves the slots.
LEMMA SlotStep ==
    ASSUME SemaphoreTypeOK, MessageTypeOK, TaskTypeOK, LineInv, TaskInv, SlotInv,
           SemaphoreTypeOK', MessageTypeOK', [ChannelNext]_channelVars
    PROVE  SlotInv'
<1> USE Counts, CountsNext
    DEF SlotInv, MessageTypeOK, IdleSender, IdleReceiver, TryLockReceiver, NewValue,
        Waiting, Callers, coreVars
<1>1. ASSUME NEW t \in Producers, Send(t) PROVE SlotInv'
  <2>1. CASE Acquire(t, "send")
    <3>1. ~InLine(t)
      BY <1>1 DEF Send, TaskInv
    <3>2. free' + Cardinality(granted)' = free + Cardinality(granted)
      BY <2>1, <3>1, AcquireWaits
    <3>3. bounded /\ UNCHANGED <<bounded, queue, permit>>
      BY <1>1, <2>1 DEF Send, Acquire
    <3>4. Len(queue') = Len(queue) /\ Len(queue) \in Nat /\ Cardinality(Slots)' = Cardinality(Slots)
      BY <3>3, CountsNext
    <3>5. free' + Cardinality(granted)' + Len(queue') + Cardinality(Slots)'
            = free + Cardinality(granted) + Len(queue) + Cardinality(Slots)
      BY <3>2, <3>4
    <3> QED
      BY <3>3, <3>5, SlotsMove
  <2>2. CASE ~bounded
    BY <1>1, <2>2 DEF Send, Acquire
  <2> QED
    BY <1>1, <2>1, <2>2 DEF Send
<1>2. ASSUME NEW t \in Producers, TrySend(t) PROVE SlotInv'
  <2>1. sends + 1 \in 1 .. MaxSends
    BY <1>2, ChannelAssumption DEF TrySend, TaskTypeOK
  <2>2. Len(queue') = Len(queue) + 1
    BY <1>2, <2>1, PushAppends DEF TrySend
  <2> QED
    BY <1>2, <2>2 DEF TrySend, Slots, SemaphoreTypeOK
<1>3. ASSUME NEW t \in Producers, Reserve(t) PROVE SlotInv'
  <2>1. CASE Acquire(t, "reserve")
    <3>1. ~InLine(t)
      BY <1>3 DEF Reserve, TaskInv
    <3>2. free' + Cardinality(granted)' = free + Cardinality(granted)
      BY <2>1, <3>1, AcquireWaits
    <3>3. bounded /\ UNCHANGED <<bounded, queue, permit>>
      BY <1>3, <2>1 DEF Reserve, Acquire
    <3>4. Len(queue') = Len(queue) /\ Len(queue) \in Nat /\ Cardinality(Slots)' = Cardinality(Slots)
      BY <3>3, CountsNext
    <3>5. free' + Cardinality(granted)' + Len(queue') + Cardinality(Slots)'
            = free + Cardinality(granted) + Len(queue) + Cardinality(Slots)
      BY <3>2, <3>4
    <3> QED
      BY <3>3, <3>5, SlotsMove
  <2>2. CASE ~bounded
    BY <1>3, <2>2 DEF Reserve, Acquire
  <2> QED
    BY <1>3, <2>1, <2>2 DEF Reserve
<1>4. ASSUME NEW t \in Producers, SendGranted(t) PROVE SlotInv'
  <2>1. bounded /\ val[t] \in 1 .. MaxSends
    BY <1>4 DEF SendGranted, TaskInv
  <2>2. Len(queue') = Len(queue) + 1
    BY <1>4, <2>1, PushAppends DEF SendGranted
  <2>3. Cardinality(granted)' = Cardinality(granted) - 1
    BY <1>4, GrantCounts DEF SendGranted
  <2> QED
    BY <1>4, <2>1, <2>2, <2>3 DEF SendGranted, Slots
<1>5. ASSUME NEW t \in Producers, ReserveGranted(t) PROVE SlotInv'
  <2>1. bounded /\ permit[t] # "slot"
    BY <1>5 DEF ReserveGranted, TaskInv
  <2>2. Cardinality(granted)' = Cardinality(granted) - 1
    BY <1>5, GrantCounts DEF ReserveGranted
  <2>3. Cardinality(Slots)' = Cardinality(Slots) + 1
    <3>1. permit'[t] = "slot" /\ \A u \in Producers : u # t => permit'[u] = permit[u]
      BY <1>5 DEF TaskTypeOK, ReserveGranted
    <3> QED
      BY <2>1, <3>1, PermitCounts
  <2> QED
    BY <1>5, <2>1, <2>2, <2>3 DEF ReserveGranted
<1>6. ASSUME NEW t \in Producers, Refused(t) PROVE SlotInv'
  BY <1>6 DEF Refused, Slots
<1>7. ASSUME NEW t \in Producers, CancelSend(t) PROVE SlotInv'
  <2>1. bounded
    BY <1>7 DEF CancelSend, TaskInv
  <2>2. SemaphoreTypeOK' /\ free' + Cardinality(granted)' = free + Cardinality(granted)
    BY <1>7, <2>1, CancelLeaves
  <2>3. UNCHANGED <<bounded, queue, permit>>
    BY <1>7 DEF CancelSend
  <2>4. free' \in Nat /\ Cardinality(granted)' \in Nat /\ Cardinality(Slots)' = Cardinality(Slots)
    BY <2>2, <2>3, CountsNext
  <2>5. free' + Cardinality(granted)' + Len(queue') + Cardinality(Slots)'
           = free + Cardinality(granted) + Len(queue) + Cardinality(Slots)
    BY <2>1, <2>2, <2>3, <2>4
  <2> QED
    BY <2>1, <2>2, <2>3, <2>4, <2>5, SlotsMove
<1>8. ASSUME NEW t \in Producers, PermitSend(t) PROVE SlotInv'
  <2>1. CASE permit[t] = "slot"
    <3>1. bounded /\ sends + 1 \in 1 .. MaxSends
      BY <1>8, <2>1, ChannelAssumption DEF PermitSend, TaskInv, TaskTypeOK
    <3>2. Len(queue') = Len(queue) + 1
      BY <1>8, <2>1, <3>1, PushAppends DEF PermitSend
    <3>3. Cardinality(Slots)' = Cardinality(Slots) - 1
      <4>1. permit'[t] = "used" /\ \A u \in Producers : u # t => permit'[u] = permit[u]
        BY <1>8 DEF TaskTypeOK, PermitSend
      <4> QED
        BY <2>1, <4>1, PermitCounts
    <3> QED
      BY <1>8, <3>1, <3>2, <3>3 DEF PermitSend
  <2>2. CASE permit[t] # "slot"
    BY <1>8, <2>2 DEF PermitSend, TaskInv
  <2> QED
    BY <2>1, <2>2
<1>9. ASSUME NEW t \in Producers, DropPermit(t) PROVE SlotInv'
  <2>1. CASE permit[t] = "slot"
    <3>1. bounded
      BY <1>9, <2>1 DEF TaskInv
    <3>2. free' + Cardinality(granted)' = free + Cardinality(granted) + 1
      BY <1>9, <2>1, <3>1, GiveBackGives DEF DropPermit
    <3>3. Cardinality(Slots)' = Cardinality(Slots) - 1
      <4>1. permit'[t] = "none" /\ \A u \in Producers : u # t => permit'[u] = permit[u]
        BY <1>9 DEF TaskTypeOK, DropPermit
      <4> QED
        BY <2>1, <4>1, PermitCounts
    <3>4. SemaphoreTypeOK'
      BY <1>9, <2>1, GiveBackGives DEF DropPermit
    <3> QED
      <4>1. free' \in Nat /\ Cardinality(granted)' \in Nat
        BY <3>4, CountsNext
      <4>2. UNCHANGED <<bounded, queue>>
        BY <1>9 DEF DropPermit
      <4>3. Len(queue') = Len(queue) /\ Len(queue) \in Nat
        BY <4>2
      <4>4. free' + Cardinality(granted)' + Len(queue') + Cardinality(Slots)'
               = free + Cardinality(granted) + Len(queue) + Cardinality(Slots)
        BY <3>2, <3>3, <4>1, <4>3, SMTT(30)
      <4> QED
        BY <3>1, <3>2, <3>3, <4>1, <4>2, <4>4, SlotsMove
  <2>2. CASE permit[t] # "slot"
    <3>1. Cardinality(Slots)' = Cardinality(Slots)
      <4>1. permit'[t] = "none" /\ \A u \in Producers : u # t => permit'[u] = permit[u]
        BY <1>9 DEF TaskTypeOK, DropPermit
      <4> QED
        BY <2>2, <4>1, PermitCounts
    <3> QED
      BY <1>9, <2>2, <3>1 DEF DropPermit
  <2> QED
    BY <2>1, <2>2
<1>10. ASSUME NEW t \in Producers, DropSender(t) PROVE SlotInv'
  BY <1>10 DEF DropSender, Slots
<1>11. ASSUME NEW t \in Consumers, Recv(t) \/ RecvNone(t) \/ CancelRecv(t)
      PROVE  SlotInv'
  <2>1. UNCHANGED <<bounded, queue, free, granted, permit>>
    BY <1>11 DEF Recv, RecvNone, CancelRecv
  <2> QED
    BY <2>1 DEF Slots
<1>12. ASSUME NEW t \in Consumers, RecvValue(t) \/ TryRecv(t) PROVE SlotInv'
  <2>1. Pop /\ UNCHANGED <<bounded, permit>>
    BY <1>12 DEF RecvValue, TryRecv
  <2>2. Len(queue') = Len(queue) - 1
    BY <2>1, PopMoves
  <2>3. GiveBack
    BY <2>1 DEF Pop
  <2>4. CASE bounded
    <3>1. SemaphoreTypeOK' /\ free' + Cardinality(granted)' = free + Cardinality(granted) + 1
      BY <2>3, <2>4, GiveBackGives
    <3>2. free' \in Nat /\ Cardinality(granted)' \in Nat /\ Cardinality(Slots)' = Cardinality(Slots)
      BY <2>1, <3>1, CountsNext
    <3>3. free' + Cardinality(granted)' + Len(queue') + Cardinality(Slots)'
             = free + Cardinality(granted) + Len(queue) + Cardinality(Slots)
      BY <2>1, <2>2, <2>4, <3>1, <3>2, SMTT(30)
    <3> QED
      BY <2>1, <2>2, <2>4, <3>1, <3>2, <3>3, SlotsMove
  <2>5. CASE ~bounded
    BY <2>1, <2>3, <2>5, GiveBackGives
  <2> QED
    BY <2>4, <2>5
<1>13. ASSUME NEW t \in Consumers, Close(t) PROVE SlotInv'
  BY <1>13 DEF Close, Slots
<1>14. ASSUME NEW t \in Consumers, DropReceiver(t) PROVE SlotInv'
  <2>1. CASE receivers = {t}
    BY <1>14, <2>1, EmptySeq DEF DropReceiver, Slots
  <2>2. CASE receivers # {t}
    BY <1>14, <2>2 DEF DropReceiver, Slots
  <2> QED
    BY <2>1, <2>2
<1>15. CASE UNCHANGED channelVars
  BY <1>15 DEF channelVars, Slots
<1> QED
  BY <1>1, <1>2, <1>3, <1>4, <1>5, <1>6, <1>7, <1>8, <1>9, <1>10, <1>11, <1>12, <1>13,
     <1>14, <1>15
     DEF ChannelNext, PollSender, PollReceiver

\* A drained channel has no slot out, nobody in line and no permit that could send.
LEMMA DrainedIsQuiet ==
    ASSUME SemaphoreTypeOK, MessageTypeOK, TaskTypeOK, TaskInv, SlotInv, Drained
    PROVE  /\ queue = <<>> /\ (~TxAlive \/ closed)
           /\ granted = {}
           /\ \A t \in Producers : permit[t] # "slot"
           /\ ~bounded => \A t \in Producers : doing[t] \notin Waiting
           /\ ~TxAlive => \A t \in Producers :
                t \notin senders /\ permit[t] # "pseudo" /\ doing[t] \notin Waiting
<1>1. queue = <<>> /\ (~TxAlive \/ (closed /\ (bounded => free = Capacity)))
  BY DEF Drained
<1>2. CASE ~TxAlive
  <2>1. senders = {} /\ \A t \in Producers : permit[t] \notin {"slot", "pseudo"}
    BY <1>2 DEF TxAlive
  <2> QED
    BY <1>1, <1>2, <2>1 DEF TaskInv, InLine, SemaphoreTypeOK
<1>3. CASE TxAlive /\ bounded
  <2>1. free = Capacity /\ Len(queue) = 0
    BY <1>1, <1>3, EmptySeq
  <2>2. Cardinality(granted) = 0 /\ Cardinality(Slots) = 0
    BY <1>3, <2>1, Counts DEF SlotInv
  <2>3. granted = {} /\ Slots = {}
    BY <2>2, Counts, FS_EmptySet
  <2> QED
    BY <1>1, <1>3, <2>3 DEF Slots
<1>4. CASE TxAlive /\ ~bounded
  BY <1>1, <1>4 DEF TaskInv, InLine, SemaphoreTypeOK
<1> QED
  BY <1>2, <1>3, <1>4

\* No step makes a drained channel accept a value or come back to life.
LEMMA FinalStep ==
    ASSUME SemaphoreTypeOK, MessageTypeOK, TaskTypeOK, LineInv, TaskInv,
           SlotInv, Drained, [ChannelNext]_channelVars
    PROVE  Drained' /\ UNCHANGED accepted
<1> USE DrainedIsQuiet
    DEF Drained, TxAlive, TaskTypeOK, Push, Pop, Acquire, IdleSender, IdleReceiver,
        TryLockReceiver, NewValue, Waiting, Callers, coreVars
<1>1. ASSUME NEW t \in Producers, Send(t) PROVE Drained' /\ UNCHANGED accepted
  BY <1>1 DEF Send
<1>2. ASSUME NEW t \in Producers, TrySend(t) PROVE Drained' /\ UNCHANGED accepted
  BY <1>2 DEF TrySend
<1>3. ASSUME NEW t \in Producers, Reserve(t) PROVE Drained' /\ UNCHANGED accepted
  BY <1>3 DEF Reserve
<1>4. ASSUME NEW t \in Producers, SendGranted(t) PROVE Drained' /\ UNCHANGED accepted
  BY <1>4 DEF SendGranted
<1>5. ASSUME NEW t \in Producers, ReserveGranted(t) PROVE Drained' /\ UNCHANGED accepted
  BY <1>5 DEF ReserveGranted
<1>6. ASSUME NEW t \in Producers, Refused(t) PROVE Drained' /\ UNCHANGED accepted
  BY <1>6 DEF Refused
<1>7. ASSUME NEW t \in Producers, CancelSend(t) PROVE Drained' /\ UNCHANGED accepted
  BY <1>7 DEF CancelSend
<1>8. ASSUME NEW t \in Producers, PermitSend(t) PROVE Drained' /\ UNCHANGED accepted
  BY <1>8 DEF PermitSend
<1>9. ASSUME NEW t \in Producers, DropPermit(t) PROVE Drained' /\ UNCHANGED accepted
  BY <1>9 DEF DropPermit
<1>10. ASSUME NEW t \in Producers, DropSender(t) PROVE Drained' /\ UNCHANGED accepted
  BY <1>10 DEF DropSender
<1>11. ASSUME NEW t \in Consumers, Recv(t) \/ RecvNone(t) \/ CancelRecv(t)
      PROVE  Drained' /\ UNCHANGED accepted
  BY <1>11 DEF Recv, RecvNone, CancelRecv
<1>12. ASSUME NEW t \in Consumers, RecvValue(t) \/ TryRecv(t) PROVE Drained' /\ UNCHANGED accepted
  BY <1>12 DEF RecvValue, TryRecv
<1>13. ASSUME NEW t \in Consumers, Close(t) PROVE Drained' /\ UNCHANGED accepted
  BY <1>13 DEF Close
<1>14. ASSUME NEW t \in Consumers, DropReceiver(t) PROVE Drained' /\ UNCHANGED accepted
  <2>1. queue' = <<>> /\ UNCHANGED <<free, bounded, senders, permit, accepted>>
    <3>1. queue = <<>> /\ Len(queue) = 0 /\ free \in Nat
      BY EmptySeq DEF SemaphoreTypeOK
    <3> QED
      BY <1>14, <3>1 DEF DropReceiver
  <2>2. closed => closed'
    BY <1>14 DEF DropReceiver
  <2> QED
    BY <2>1, <2>2
<1>15. CASE UNCHANGED channelVars
  BY <1>15 DEF channelVars
<1> QED
  BY <1>1, <1>2, <1>3, <1>4, <1>5, <1>6, <1>7, <1>8, <1>9, <1>10, <1>11, <1>12, <1>13,
     <1>14, <1>15
     DEF ChannelNext, PollSender, PollReceiver

\* Every step keeps a channel that has answered None drained.
LEMMA EndStep ==
    ASSUME SemaphoreTypeOK, MessageTypeOK, TaskTypeOK, LineInv, TaskInv, SlotInv,
           EndInv, [ChannelNext]_channelVars
    PROVE  EndInv'
<1> SUFFICES ASSUME ended' PROVE Drained'
  BY DEF EndInv
<1>1. CASE ended
  BY <1>1, FinalStep DEF EndInv
<1>2. CASE ~ended
  <2>1. PICK t \in Consumers : RecvNone(t)
    BY <1>2 DEF ChannelNext, channelVars, PollSender, PollReceiver, Send, TrySend, Reserve, SendGranted,
       ReserveGranted, Refused, CancelSend, PermitSend, DropPermit, DropSender, Recv, RecvValue,
       CancelRecv, TryRecv, Close, DropReceiver
  <2> QED
    BY <2>1 DEF RecvNone, Drained, TxAlive, coreVars
<1> QED
  BY <1>1, <1>2

-----------------------------------------------------------------------------
\* The inductive invariant holds of every channel.
THEOREM ChannelInvariantHolds ==
    ChannelSpec => []ChInv
<1>1. ChannelInit => ChInv
  <2> SUFFICES ASSUME ChannelInit PROVE ChInv
    OBVIOUS
  <2>1. Capacity \in Nat \ {0}
    BY ChannelAssumption DEF Capacity
  <2>2. SemaphoreTypeOK /\ MessageTypeOK /\ TaskTypeOK
    <3>1. SemaphoreTypeOK
      BY <2>1 DEF ChannelInit, SemaphoreTypeOK
    <3>2. MessageTypeOK
      BY DEF ChannelInit, MessageTypeOK
    <3>3. TaskTypeOK
      <4>1. bounded \in BOOLEAN /\ closed \in BOOLEAN /\ ended \in BOOLEAN
        BY DEF ChannelInit
      <4>2. sends \in 0 .. MaxSends /\ val \in [Producers -> 0 .. MaxSends]
        BY ChannelAssumption DEF ChannelInit
      <4>3. /\ senders \subseteq Producers /\ receivers \subseteq Consumers
            /\ permit \in [Producers -> {"none", "slot", "pseudo", "used"}]
            /\ doing \in [Callers -> {"idle", "send", "reserve", "recv"}]
        BY DEF ChannelInit
      <4> QED
        BY <4>1, <4>2, <4>3 DEF TaskTypeOK
    <3> QED
      BY <3>1, <3>2, <3>3
  <2>3. LineInv /\ TaskInv
    BY DEF ChannelInit, LineInv, TaskInv, InLine, Contains, Waiting, Callers
  <2>4. SlotInv
    <3>1. granted = {} /\ Slots = {} /\ Len(queue) = 0 /\ free = Capacity
      BY DEF ChannelInit, Slots
    <3>2. Cardinality(granted) = 0 /\ Cardinality(Slots) = 0
      BY <3>1, FS_EmptySet
    <3> QED
      BY <2>1, <3>1, <3>2 DEF SlotInv
  <2>5. NothingLost /\ EndInv
    BY DEF ChannelInit, NothingLost, EndInv
  <2> QED
    BY <2>2, <2>3, <2>4, <2>5 DEF ChInv
<1>2. ChInv /\ [ChannelNext]_channelVars => ChInv'
  BY SemaphoreStep, MessageStep, TaskTypeStep, TaskStep, SlotStep, EndStep DEF ChInv
<1> QED
  BY <1>1, <1>2, PTL DEF ChannelSpec

\* The slots of a bounded channel are conserved for every buffer
\* (SlotsConserved).
THEOREM SlotsAreConserved ==
    ChannelSpec => []SlotsConserved
<1>1. ChInv => SlotsConserved
  BY DEF ChInv, SlotInv, SlotsConserved, Slots
<1> QED
  BY <1>1, ChannelInvariantHolds, PTL

MutexTypeOK == rxLock \in Seq(Consumers)

\* Every step keeps the receiver's mutex a line of consumers.
LEMMA MutexStep ==
    ASSUME MutexTypeOK, [ChannelNext]_channelVars PROVE MutexTypeOK'
<1> USE DEF MutexTypeOK
<1>1. ASSUME NEW t \in Consumers, Recv(t) PROVE MutexTypeOK'
  BY <1>1 DEF Recv
<1>2. ASSUME NEW t \in Consumers, RecvValue(t) \/ RecvNone(t) PROVE MutexTypeOK'
  BY <1>2 DEF RecvValue, RecvNone, Holds
<1>3. ASSUME NEW t \in Consumers, CancelRecv(t) PROVE MutexTypeOK'
  BY <1>3, LeaveType DEF CancelRecv
<1>4. CASE UNCHANGED rxLock
  BY <1>4
<1> QED
  BY <1>1, <1>2, <1>3, <1>4
     DEF ChannelNext, channelVars, PollSender, PollReceiver, Send, TrySend, Reserve, SendGranted,
         ReserveGranted, Refused, CancelSend, PermitSend, DropPermit, DropSender, TryRecv, Close, DropReceiver

\* The state of a channel keeps its types; that no more slots are free than there
\* are rests on their conservation.
THEOREM ChannelTypeCorrect ==
    ChannelSpec => []ChannelTypeOK
<1>1. ChannelInit => MutexTypeOK
  BY DEF ChannelInit, MutexTypeOK
<1>2. MutexTypeOK /\ [ChannelNext]_channelVars => MutexTypeOK'
  BY MutexStep
<1>3. ChInv /\ MutexTypeOK => ChannelTypeOK
  <2> SUFFICES ASSUME ChInv, MutexTypeOK PROVE ChannelTypeOK
    OBVIOUS
  <2>1. /\ free \in Nat /\ Cardinality(granted) \in Nat /\ Cardinality(Slots) \in Nat
        /\ Len(queue) \in Nat /\ Capacity \in Nat
    BY Counts, ChannelAssumption DEF ChInv, MessageTypeOK, Capacity
  <2>2. free \in 0 .. Capacity
    <3>1. CASE bounded
      BY <2>1, <3>1 DEF ChInv, SlotInv
    <3>2. CASE ~bounded
      BY <2>1, <3>2 DEF ChInv, SlotInv
    <3> QED
      BY <3>1, <3>2
  <2> QED
    BY <2>2 DEF ChInv, SemaphoreTypeOK, MessageTypeOK, TaskTypeOK, MutexTypeOK, ChannelTypeOK
<1> QED
  BY <1>1, <1>2, <1>3, ChannelInvariantHolds, PTL DEF ChannelSpec

\* While somebody can receive, nothing accepted is lost, duplicated or reordered
\* (NothingLost).
THEOREM NoValueIsLost ==
    ChannelSpec => []NothingLost
<1>1. ChInv => NothingLost
  BY DEF ChInv
<1> QED
  BY <1>1, ChannelInvariantHolds, PTL

\* Once recv() has answered None nothing is accepted any more (NoneIsFinal).
THEOREM NoneStaysFinal ==
    ChannelSpec => NoneIsFinal
<1>1. ChInv /\ [ChannelNext]_channelVars => [ended => accepted' = accepted]_channelVars
  BY FinalStep DEF ChInv, EndInv
<1> QED
  BY <1>1, ChannelInvariantHolds, PTL DEF ChannelSpec, NoneIsFinal

-----------------------------------------------------------------------------
(* The oneshot of the same file: its two halves are shared among clones as   *)
(* the channel's are, and nothing is asked of its constants.                 *)

\* The one send is still to be made, or the cell tells what became of it; the
\* value is taken out together with the receiver.
OneshotInv ==
    /\ tx => told = {} /\ cell # "value"
    /\ told # {} <=> cell = "value"
    /\ told # {} => \E t \in TxTasks : told = {t}
    /\ got # {} => told # {} /\ ~rx /\ \E t \in RxTasks : got = {t}
    /\ told # {} /\ rxs # {} => got # {} \/ (rx /\ cell = "value")

\* Whichever clone sends, receives, is cancelled or dropped, the value stays where
\* the invariant says.
LEMMA OneshotStep ==
    ASSUME OneshotInv, [OneshotNext]_oneshotVars PROVE OneshotInv'
<1> USE DEF OneshotInv
<1>1. ASSUME NEW t \in TxTasks, OneshotSend(t) PROVE OneshotInv'
  <2>1. CASE rx /\ rxs # {}
    <3>1. told' = {t} /\ cell' = "value" /\ ~tx' /\ got' = {}
      BY <1>1, <2>1 DEF OneshotSend
    <3> QED
      BY <1>1, <2>1, <3>1 DEF OneshotSend
  <2>2. CASE ~(rx /\ rxs # {})
    BY <1>1, <2>2 DEF OneshotSend
  <2> QED
    BY <2>1, <2>2
<1>2. ASSUME NEW t \in TxTasks, DropTx(t) PROVE OneshotInv'
  BY <1>2 DEF DropTx
<1>3. ASSUME NEW t \in RxTasks, Answer(t) PROVE OneshotInv'
  <2>1. CASE rx /\ cell = "value"
    <3>1. got' = {t} /\ ~rx'
      BY <1>3, <2>1 DEF Answer
    <3> QED
      BY <1>3, <2>1, <3>1 DEF Answer
  <2>2. CASE ~(rx /\ cell = "value")
    BY <1>3, <2>2 DEF Answer
  <2> QED
    BY <2>1, <2>2
<1>4. ASSUME NEW t \in RxTasks, OneshotRecv(t) \/ CancelOneshotRecv(t) PROVE OneshotInv'
  BY <1>4 DEF OneshotRecv, CancelOneshotRecv
<1>5. ASSUME NEW t \in RxTasks, DropRx(t) PROVE OneshotInv'
  BY <1>5 DEF DropRx
<1>6. CASE UNCHANGED oneshotVars
  BY <1>6 DEF oneshotVars
<1> QED
  BY <1>1, <1>2, <1>3, <1>4, <1>5, <1>6 DEF OneshotNext

\* OneshotReceiver::recv hands the value out at most once, and a cancelled receive
\* does not lose it (DeliveredOnce).
THEOREM OneshotDeliversOnce == OneshotSpec => []DeliveredOnce
<1>1. OneshotInit => OneshotInv
  BY DEF OneshotInit, OneshotInv
<1>2. OneshotInv /\ [OneshotNext]_oneshotVars => OneshotInv'
  BY OneshotStep
<1>3. OneshotInv => DeliveredOnce
  <2> SUFFICES ASSUME OneshotInv PROVE DeliveredOnce
    OBVIOUS
  <2>1. Cardinality(told) = IF told = {} THEN 0 ELSE 1
    BY FS_EmptySet, FS_Singleton DEF OneshotInv
  <2>2. Cardinality(got) = IF got = {} THEN 0 ELSE 1
    BY FS_EmptySet, FS_Singleton DEF OneshotInv
  <2> QED
    BY <2>1, <2>2 DEF OneshotInv, DeliveredOnce
<1> QED
  BY <1>1, <1>2, <1>3, PTL DEF OneshotSpec
=============================================================================
