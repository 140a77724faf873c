----------------------------- MODULE MCStdAsync -----------------------------
(* The synchronisation primitives of std.async, each on its own: a behaviour *)
(* is one of a barrier, of a channel or of a oneshot, and the other two stay *)
(* untouched.                                                                *)
(*   barrier: three tasks and three parties, so each generation takes all.   *)
(*   channel: two producers and two receiver clones; a buffer of -1 is one   *)
(*            slot.                                                          *)
(*   oneshot: two clones of the sender and three of the receiver.            *)
EXTENDS AsyncBarrier, AsyncChannel, AsyncOneshot

MCNegative == -1

VARIABLE primitive

asyncVars == <<primitive, vars, channelVars, oneshotVars>>

AsyncInit ==
    /\ primitive \in {"barrier", "channel", "oneshot"}
    /\ Init /\ ChannelInit /\ OneshotInit
    /\ primitive # "channel" => ~bounded

AsyncNext ==
    \/ primitive = "barrier" /\ Next /\ UNCHANGED <<primitive, channelVars, oneshotVars>>
    \/ primitive = "channel" /\ ChannelNext /\ UNCHANGED <<primitive, vars, oneshotVars>>
    \/ primitive = "oneshot" /\ OneshotNext /\ UNCHANGED <<primitive, vars, channelVars>>

AsyncSpec ==
    /\ AsyncInit /\ [][AsyncNext]_asyncVars
    /\ Fairness /\ ChannelFairness /\ OneshotFairness
=============================================================================
