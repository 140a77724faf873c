---------------------------- MODULE AsyncOneshot ----------------------------
(***************************************************************************)
(* oneshot() of std.async.channel (async/rust/src/channel.rs).  Both       *)
(* halves can be cloned: the sender is an Option behind a mutex that the   *)
(* first send empties, the receiver an Option behind a fair async mutex    *)
(* that recv holds while it waits and empties once it has its answer.      *)
(***************************************************************************)
EXTENDS Naturals, Sequences, FiniteSets, SequencesExt

CONSTANTS TxTasks, RxTasks   \* tasks with a clone of the sender, of the receiver

VARIABLES
    txs, rxs,    \* tasks whose clone is alive
    tx,          \* the sender slot still holds the tokio sender
    rx,          \* the receiver slot still holds the tokio receiver
    cell,        \* tokio's shared cell: "empty", "value" or "closed" (by the sender)
    rxMutex,     \* consumers in the receiver's mutex; the first one holds it
    rxTask,      \* what each consumer is in
    told,        \* the producer that was told its value is delivered
    got          \* the consumers that were given the value

oneshotVars == <<txs, rxs, tx, rx, cell, rxMutex, rxTask, told, got>>

OneshotInit ==
    /\ txs = TxTasks /\ rxs = RxTasks
    /\ tx = TRUE /\ rx = TRUE /\ cell = "empty"
    /\ rxMutex = <<>> /\ rxTask = [t \in RxTasks |-> "idle"]
    /\ told = {} /\ got = {}

\* take() leaves None behind: only the first send of all clones can succeed,
\* and it does when the tokio receiver is alive.
OneshotSend(t) ==
    /\ t \in txs /\ tx
    /\ tx' = FALSE
    /\ IF rx /\ rxs # {}
         THEN cell' = "value" /\ told' = told \cup {t}
         ELSE UNCHANGED <<cell, told>>
    /\ UNCHANGED <<txs, rxs, rx, rxMutex, rxTask, got>>

\* The last clone takes an unused tokio sender with it.
DropTx(t) ==
    /\ t \in txs
    /\ txs' = txs \ {t}
    /\ IF txs = {t} /\ tx
         THEN tx' = FALSE /\ cell' = "closed"
         ELSE UNCHANGED <<tx, cell>>
    /\ UNCHANGED <<rxs, rx, rxMutex, rxTask, told, got>>

-----------------------------------------------------------------------------
OneshotRecv(t) ==
    /\ t \in rxs /\ rxTask[t] = "idle"
    /\ rxMutex' = Append(rxMutex, t)
    /\ rxTask' = [rxTask EXCEPT ![t] = "recv"]
    /\ UNCHANGED <<txs, rxs, tx, rx, cell, told, got>>

LeaveMutex(t) == rxMutex' = Remove(rxMutex, t) /\ rxTask' = [rxTask EXCEPT ![t] = "idle"]

\* The mutex is held and the cell has an answer, or an earlier recv had it.
AnswerNeedsReceiver(t) ==
    /\ rxTask[t] = "recv" /\ Head(rxMutex) = t
    /\ rx /\ cell # "empty"
    /\ got' = IF cell = "value" THEN got \cup {t} ELSE got
    /\ rx' = FALSE
    /\ LeaveMutex(t)
    /\ UNCHANGED <<txs, rxs, tx, cell, told>>

Answer(t) ==
    /\ rxTask[t] = "recv" /\ Head(rxMutex) = t
    /\ rx => cell # "empty"
    /\ got' = IF rx /\ cell = "value" THEN got \cup {t} ELSE got
    /\ rx' = FALSE
    /\ LeaveMutex(t)
    /\ UNCHANGED <<txs, rxs, tx, cell, told>>

\* The receiving future is dropped; receiver.await borrowed the slot, which
\* still holds the tokio receiver.
CancelTakesReceiver(t) ==
    /\ rxTask[t] = "recv"
    /\ rx' = IF Head(rxMutex) = t THEN FALSE ELSE rx
    /\ LeaveMutex(t)
    /\ UNCHANGED <<txs, rxs, tx, cell, told, got>>

CancelOneshotRecv(t) ==
    /\ rxTask[t] = "recv"
    /\ LeaveMutex(t)
    /\ UNCHANGED <<txs, rxs, tx, rx, cell, told, got>>

DropRx(t) ==
    /\ t \in rxs /\ rxTask[t] = "idle"
    /\ rxs' = rxs \ {t}
    /\ UNCHANGED <<txs, tx, rx, cell, rxMutex, rxTask, told, got>>

OneshotNext == \/ \E t \in TxTasks : OneshotSend(t) \/ DropTx(t)
        \/ \E t \in RxTasks : OneshotRecv(t) \/ Answer(t) \/ CancelOneshotRecv(t) \/ DropRx(t)

\* A woken receiver is polled.
OneshotFairness == \A t \in RxTasks : WF_oneshotVars(Answer(t))
OneshotSpec == OneshotInit /\ [][OneshotNext]_oneshotVars /\ OneshotFairness

-----------------------------------------------------------------------------
(* Properties. *)

\* A delivered value is handed out at most once, and while a receiver is left
\* it was handed out or waits in the cell, whatever receives were cancelled.
DeliveredOnce ==
    /\ Cardinality(told) <= 1 /\ Cardinality(got) <= Cardinality(told)
    /\ told # {} /\ rxs # {} => got # {} \/ (rx /\ cell = "value")

\* Once the one send was made, or every sender clone is gone, no clone of the
\* receiver waits for ever, those behind another in the mutex included.
EveryReceiveEnds ==
    \A t \in RxTasks : ~tx /\ rxTask[t] = "recv" ~> rxTask[t] = "idle"
=============================================================================
