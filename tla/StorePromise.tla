---------------------------- MODULE StorePromise ----------------------------
(***************************************************************************)
(* What the artifact store promises its users, without locks, staging,     *)
(* sweeps or files: a set of entries that become visible at once, requests *)
(* answered with all of the entries they ask for or with none, and entries *)
(* that go only while nobody has them.                                     *)
(***************************************************************************)
CONSTANTS Procs, Ids

VARIABLES
    visible,    \* entries whose manifest and payload can be read
    asked,      \* the entries each process is selecting
    held        \* the entries each process was handed and still consumes

Init == /\ visible = {}
        /\ asked = [p \in Procs |-> {}] /\ held = [p \in Procs |-> {}]

Unused(e) == \A p \in Procs : e \notin held[p]

\* A new entry, under a name that nothing visible has.
Admit(e) ==
    /\ e \notin visible
    /\ visible' = visible \cup {e}
    /\ UNCHANGED <<asked, held>>

Evict(e) ==
    /\ Unused(e)
    /\ visible' = visible \ {e}
    /\ UNCHANGED <<asked, held>>

Ask(p, S) ==
    /\ asked[p] = {}
    /\ asked' = [asked EXCEPT ![p] = S]
    /\ UNCHANGED <<visible, held>>

HandOut(p) ==
    /\ asked[p] \subseteq visible
    /\ held' = [held EXCEPT ![p] = @ \cup asked[p]]
    /\ asked' = [asked EXCEPT ![p] = {}]
    /\ UNCHANGED visible

Refuse(p) ==
    /\ asked' = [asked EXCEPT ![p] = {}]
    /\ UNCHANGED <<visible, held>>

GiveBack(p, e) ==
    /\ held' = [held EXCEPT ![p] = @ \ {e}]
    /\ UNCHANGED <<visible, asked>>

\* A process dies, and may leave one unused entry unreadable.
Die(p) ==
    /\ asked' = [asked EXCEPT ![p] = {}] /\ held' = [held EXCEPT ![p] = {}]
    /\ \/ UNCHANGED visible
       \/ \E e \in visible : Unused(e) /\ visible' = visible \ {e}

Next ==
    \/ \E e \in Ids : Admit(e) \/ Evict(e)
    \/ \E p \in Procs : \/ \E S \in SUBSET Ids : Ask(p, S)
                        \/ HandOut(p) \/ Refuse(p)
                        \/ \E e \in Ids : GiveBack(p, e)
                        \/ Die(p)

Spec == Init /\ [][Next]_<<visible, asked, held>>
=============================================================================
