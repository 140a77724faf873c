---------------------------- MODULE AsyncChannel ----------------------------
(***************************************************************************)
(* The channels of std.async.channel (async/rust/src/channel.rs): bounded  *)
(* and unbounded multi-producer channels whose receiver can be cloned, the *)
(* clones sharing one tokio mutex that recv holds while it waits.          *)
(*                                                                         *)
(* Tokio is external and modelled from what the code relies on: a bounded  *)
(* channel is a fair semaphore of slots over a queue, a slot that is given *)
(* back goes to the longest waiting sender, closing refuses the waiting    *)
(* senders but honours slots already granted, and the mutex is fair.  Any  *)
(* future may be dropped while it waits.                                   *)
(***************************************************************************)
EXTENDS Integers, Sequences, FiniteSets, SequencesExt

CONSTANTS
    Producers,   \* tasks that start with a Sender
    Consumers,   \* tasks that start with a clone of the Receiver
    Buffer,      \* the argument of channel()
    MaxSends     \* bound: values sent

Callers == Producers \cup Consumers

ASSUME ChannelAssumption ==
    /\ IsFiniteSet(Producers) /\ Producers \cap Consumers = {}
    /\ Buffer \in Int /\ MaxSends \in Nat

\* normalize_bounded_capacity
Capacity == IF Buffer <= 0 THEN 1 ELSE Buffer

VARIABLES
    bounded,     \* channel() or unbounded_channel()
    queue,       \* values accepted and not yet received
    free,        \* slots nobody holds (bounded)
    granted,     \* producers whose acquisition was granted a slot
    sendQueue,   \* producers waiting for a slot, in order
    closed,
    senders, receivers,   \* tasks with a live handle
    permit,      \* each producer's SenderPermit
    rxLock,      \* consumers in the receiver's mutex; the first one holds it
    doing,       \* what each task is in
    val,         \* the value a waiting send carries
    sends,       \* values sent so far; a value is its number
    accepted, received,   \* the values the channel took and gave, in order
    ended        \* some recv() returned None

coreVars == <<bounded, queue, free, granted, sendQueue, closed>>
channelVars == <<bounded, queue, free, granted, sendQueue, closed, senders, receivers,
                 permit, rxLock, doing, val, sends, accepted, received, ended>>

ChannelInit ==
    /\ bounded \in BOOLEAN
    /\ queue = <<>> /\ free = Capacity /\ granted = {} /\ sendQueue = <<>>
    /\ closed = FALSE
    /\ senders = Producers /\ receivers = Consumers
    /\ permit = [t \in Producers |-> "none"]
    /\ rxLock = <<>>
    /\ doing = [t \in Callers |-> "idle"]
    /\ val = [t \in Producers |-> 0] /\ sends = 0
    /\ accepted = <<>> /\ received = <<>> /\ ended = FALSE

-----------------------------------------------------------------------------
(* The semaphore and the queue. *)

Push(v) == /\ queue' = Append(queue, v)
           /\ accepted' = Append(accepted, v)

\* A slot goes to the first waiting sender, or becomes free.
GiveBack ==
    IF ~bounded THEN UNCHANGED <<free, granted, sendQueue>>
    ELSE IF sendQueue = <<>>
           THEN free' = free + 1 /\ UNCHANGED <<granted, sendQueue>>
           ELSE /\ granted' = granted \cup {Head(sendQueue)}
                /\ sendQueue' = Tail(sendQueue)
                /\ UNCHANGED free

\* A waiter leaves the line it stands in, once at most.
Leave(line, t) ==
    IF Contains(line, t) THEN RemoveAt(line, CHOOSE i \in 1..Len(line) : line[i] = t) ELSE line

\* Somebody can still send: a Sender is alive, or a permit that owns one.
TxAlive == senders # {} \/ \E t \in Producers : permit[t] \in {"slot", "pseudo"}

\* When recv() answers None.
DrainedIgnoresPermits == queue = <<>> /\ (~TxAlive \/ closed)
DrainedOnCloseOnly == queue = <<>> /\ closed /\ (bounded => free = Capacity)
Drained ==
    /\ queue = <<>>
    /\ \/ ~TxAlive
       \/ closed /\ (bounded => free = Capacity)

-----------------------------------------------------------------------------
(* Senders. *)

IdleSender(t) == t \in senders /\ doing[t] = "idle"

\* Acquire a slot, or wait for one; a closed channel answers at once.
Acquire(t, op) ==
    /\ bounded /\ ~closed
    /\ doing' = [doing EXCEPT ![t] = op]
    /\ IF free > 0
         THEN free' = free - 1 /\ granted' = granted \cup {t} /\ UNCHANGED sendQueue
         ELSE sendQueue' = Append(sendQueue, t) /\ UNCHANGED <<free, granted>>
    /\ UNCHANGED <<bounded, queue, closed, accepted>>

NewValue(t) == /\ sends < MaxSends
               /\ sends' = sends + 1
               /\ val' = [val EXCEPT ![t] = sends + 1]

Send(t) ==
    /\ IdleSender(t)
    /\ NewValue(t)
    /\ \/ Acquire(t, "send")
       \/ /\ ~bounded /\ ~closed
          /\ Push(sends + 1)
          /\ UNCHANGED <<bounded, free, granted, sendQueue, closed, doing>>
    /\ UNCHANGED <<senders, receivers, permit, rxLock, received, ended>>

\* A full or a closed channel returns the value and changes nothing.
TrySend(t) ==
    /\ IdleSender(t)
    /\ NewValue(t)
    /\ ~closed /\ (bounded => free > 0)
    /\ Push(sends + 1)
    /\ free' = IF bounded THEN free - 1 ELSE free
    /\ UNCHANGED <<bounded, granted, sendQueue, closed, senders, receivers, permit,
                   rxLock, doing, received, ended>>

\* One permit per task at a time.
Reserve(t) ==
    /\ IdleSender(t)
    /\ permit[t] = "none"
    /\ \/ Acquire(t, "reserve") /\ UNCHANGED permit
       \/ /\ ~bounded /\ ~closed
          /\ permit' = [permit EXCEPT ![t] = "pseudo"]
          /\ UNCHANGED <<coreVars, doing, accepted>>
    /\ UNCHANGED <<senders, receivers, rxLock, val, sends, received, ended>>

\* The future is polled with its slot granted: the value goes in, closed or not.
SendGranted(t) ==
    /\ doing[t] = "send" /\ t \in granted
    /\ Push(val[t])
    /\ granted' = granted \ {t}
    /\ doing' = [doing EXCEPT ![t] = "idle"]
    /\ UNCHANGED <<bounded, free, sendQueue, closed, senders, receivers, permit, rxLock,
                   val, sends, received, ended>>

ReserveGranted(t) ==
    /\ doing[t] = "reserve" /\ t \in granted
    /\ permit' = [permit EXCEPT ![t] = "slot"]
    /\ granted' = granted \ {t}
    /\ doing' = [doing EXCEPT ![t] = "idle"]
    /\ UNCHANGED <<bounded, queue, free, sendQueue, closed, senders, receivers, rxLock,
                   val, sends, accepted, received, ended>>

\* Woken by the close: the error carries the value back.
Refused(t) ==
    /\ doing[t] \in {"send", "reserve"} /\ closed
    /\ t \notin granted /\ ~Contains(sendQueue, t)
    /\ doing' = [doing EXCEPT ![t] = "idle"]
    /\ UNCHANGED <<coreVars, senders, receivers, permit, rxLock, val, sends,
                   accepted, received, ended>>

\* The waiting future is dropped, and the value of a send with it.
CancelSend(t) ==
    /\ doing[t] \in {"send", "reserve"}
    /\ IF t \in granted
         THEN IF sendQueue = <<>>
                THEN /\ free' = free + 1 /\ granted' = granted \ {t}
                     /\ UNCHANGED sendQueue
                ELSE /\ granted' = (granted \ {t}) \cup {Head(sendQueue)}
                     /\ sendQueue' = Tail(sendQueue)
                     /\ UNCHANGED free
         ELSE sendQueue' = Leave(sendQueue, t) /\ UNCHANGED <<free, granted>>
    /\ doing' = [doing EXCEPT ![t] = "idle"]
    /\ UNCHANGED <<bounded, queue, closed, senders, receivers, permit, rxLock, val, sends,
                   accepted, received, ended>>

\* SenderPermit::send takes the permit out of its slot; a used one returns the
\* value.  A bounded permit sends without asking whether the channel is closed.
PermitSend(t) ==
    /\ t \in Producers /\ doing[t] = "idle"
    /\ permit[t] \in {"slot", "pseudo"}
    /\ permit' = [permit EXCEPT ![t] = "used"]
    /\ NewValue(t)
    /\ IF permit[t] = "pseudo" /\ closed
         THEN UNCHANGED <<queue, accepted>>
         ELSE Push(sends + 1)
    /\ UNCHANGED <<bounded, free, granted, sendQueue, closed, senders, receivers, rxLock,
                   doing, received, ended>>

DropPermitLeaksSlot(t) ==
    /\ t \in Producers /\ doing[t] = "idle"
    /\ permit[t] # "none"
    /\ permit' = [permit EXCEPT ![t] = "none"]
    /\ UNCHANGED <<coreVars, senders, receivers, rxLock, doing, val, sends,
                   accepted, received, ended>>

DropPermit(t) ==
    /\ t \in Producers /\ doing[t] = "idle"
    /\ permit[t] # "none"
    /\ permit' = [permit EXCEPT ![t] = "none"]
    /\ IF permit[t] = "slot" THEN GiveBack ELSE UNCHANGED <<free, granted, sendQueue>>
    /\ UNCHANGED <<bounded, queue, closed, senders, receivers, rxLock, doing, val, sends,
                   accepted, received, ended>>

DropSender(t) ==
    /\ IdleSender(t)
    /\ senders' = senders \ {t}
    /\ UNCHANGED <<coreVars, receivers, permit, rxLock, doing, val, sends,
                   accepted, received, ended>>

-----------------------------------------------------------------------------
(* Receivers. *)

IdleReceiver(t) == t \in receivers /\ doing[t] = "idle"
Holds(t) == doing[t] = "recv" /\ rxLock # <<>> /\ Head(rxLock) = t

Recv(t) ==
    /\ IdleReceiver(t)
    /\ rxLock' = Append(rxLock, t)
    /\ doing' = [doing EXCEPT ![t] = "recv"]
    /\ UNCHANGED <<coreVars, senders, receivers, permit, val, sends,
                   accepted, received, ended>>

Pop == /\ queue # <<>>
       /\ received' = Append(received, Head(queue))
       /\ queue' = Tail(queue)
       /\ GiveBack

RecvValue(t) ==
    /\ Holds(t)
    /\ Pop
    /\ rxLock' = Tail(rxLock)
    /\ doing' = [doing EXCEPT ![t] = "idle"]
    /\ UNCHANGED <<bounded, closed, senders, receivers, permit, val, sends, accepted, ended>>

RecvNone(t) ==
    /\ Holds(t)
    /\ Drained
    /\ ended' = TRUE
    /\ rxLock' = Tail(rxLock)
    /\ doing' = [doing EXCEPT ![t] = "idle"]
    /\ UNCHANGED <<coreVars, senders, receivers, permit, val, sends, accepted, received>>

\* The receiving future is dropped; its place in the mutex, or the mutex, goes.
CancelTakesMessage(t) ==
    /\ doing[t] = "recv"
    /\ rxLock' = Leave(rxLock, t)
    /\ doing' = [doing EXCEPT ![t] = "idle"]
    /\ IF Head(rxLock) = t /\ queue # <<>>
         THEN queue' = Tail(queue) /\ GiveBack
         ELSE UNCHANGED <<queue, free, granted, sendQueue>>
    /\ UNCHANGED <<bounded, closed, senders, receivers, permit, val, sends,
                   accepted, received, ended>>

CancelRecv(t) ==
    /\ doing[t] = "recv"
    /\ rxLock' = Leave(rxLock, t)
    /\ doing' = [doing EXCEPT ![t] = "idle"]
    /\ UNCHANGED <<coreVars, senders, receivers, permit, val, sends,
                   accepted, received, ended>>

\* try_lock_receiver_sync: with the mutex taken try_recv answers None and close
\* answers false (outside a runtime they wait), and nothing changes.
TryLockReceiver(t) == IdleReceiver(t) /\ rxLock = <<>>

TryRecv(t) ==
    /\ TryLockReceiver(t)
    /\ Pop
    /\ UNCHANGED <<bounded, closed, senders, receivers, permit, rxLock, doing, val, sends,
                   accepted, ended>>

CloseWithoutWaking(t) ==
    /\ TryLockReceiver(t)
    /\ closed' = TRUE
    /\ UNCHANGED <<bounded, queue, free, granted, sendQueue, senders, receivers, permit,
                   rxLock, doing, val, sends, accepted, received, ended>>

Close(t) ==
    /\ TryLockReceiver(t)
    /\ closed' = TRUE /\ sendQueue' = <<>>
    /\ UNCHANGED <<bounded, queue, free, granted, senders, receivers, permit, rxLock,
                   doing, val, sends, accepted, received, ended>>

\* The last clone closes the channel and drops what is queued.
DropReceiver(t) ==
    /\ IdleReceiver(t)
    /\ receivers' = receivers \ {t}
    /\ IF receivers = {t}
         THEN /\ closed' = TRUE /\ sendQueue' = <<>> /\ queue' = <<>>
              /\ free' = IF bounded THEN free + Len(queue) ELSE free
         ELSE UNCHANGED <<closed, sendQueue, queue, free>>
    /\ UNCHANGED <<bounded, granted, senders, permit, rxLock, doing, val, sends,
                   accepted, received, ended>>

-----------------------------------------------------------------------------
\* What an executor does with a task that was woken.
PollSender(t)   == SendGranted(t) \/ ReserveGranted(t) \/ Refused(t)
PollReceiver(t) == RecvValue(t) \/ RecvNone(t)

ChannelNext ==
    \/ \E t \in Producers :
         \/ Send(t) \/ TrySend(t) \/ Reserve(t) \/ PollSender(t) \/ CancelSend(t)
         \/ PermitSend(t) \/ DropPermit(t) \/ DropSender(t)
    \/ \E t \in Consumers :
         \/ Recv(t) \/ PollReceiver(t) \/ CancelRecv(t)
         \/ TryRecv(t) \/ Close(t) \/ DropReceiver(t)

ChannelSpec == ChannelInit /\ [][ChannelNext]_channelVars
\* Woken tasks are polled; nobody is obliged to send, receive, close or drop.
ChannelFairness == /\ \A t \in Producers : WF_channelVars(PollSender(t))
            /\ \A t \in Consumers : WF_channelVars(PollReceiver(t))

-----------------------------------------------------------------------------
(* Properties. *)

\* Every variable has its type.
ChannelTypeOK ==
    /\ bounded \in BOOLEAN /\ closed \in BOOLEAN /\ ended \in BOOLEAN
    /\ free \in 0 .. Capacity
    /\ granted \subseteq Producers /\ sendQueue \in Seq(Producers)
    /\ senders \subseteq Producers /\ receivers \subseteq Consumers
    /\ permit \in [Producers -> {"none", "slot", "pseudo", "used"}]
    /\ rxLock \in Seq(Consumers)
    /\ doing \in [Callers -> {"idle", "send", "reserve", "recv"}]
    /\ val \in [Producers -> 0 .. MaxSends] /\ sends \in 0 .. MaxSends
    /\ queue \in Seq(1 .. MaxSends) /\ accepted \in Seq(1 .. MaxSends)
    /\ received \in Seq(1 .. MaxSends)

\* No slot of a bounded channel is lost or made up: cancelled sends, dropped
\* permits and a closing receiver give back exactly what they held.
SlotsConserved ==
    bounded =>
        free + Len(queue) + Cardinality(granted)
             + Cardinality({t \in Producers : permit[t] = "slot"}) = Capacity

\* While somebody can receive, what was accepted was received or is queued, in
\* the order it was accepted: cancelled receives and clones that take turns in
\* the mutex lose, duplicate and reorder nothing.
NothingLost == receivers # {} => accepted = received \o queue

\* recv() answers None only when nothing can arrive any more, permits and slots
\* granted before the close included.
NoneIsFinal == [][ended => accepted' = accepted]_channelVars

\* A sender that waits for a slot does not wait past the close.
WaitersLeaveClosedChannel ==
    \A t \in Producers : closed /\ doing[t] \in {"send", "reserve"} ~> doing[t] = "idle"

\* When the last sender and the last permit are gone every waiting clone of the
\* receiver comes back, however many wait behind each other in the mutex.
ReceiversSeeTheEnd ==
    \A t \in Consumers : doing[t] = "recv" /\ ~TxAlive ~> doing[t] = "idle"
=============================================================================
