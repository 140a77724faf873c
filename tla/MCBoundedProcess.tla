-------------------------- MODULE MCBoundedProcess --------------------------
(* A child and one descendant; no byte of stderr is admitted, one of stdout. *)
EXTENDS BoundedProcess

\* One byte more than each limit, so that a read may retain a part of what it returns.
MCMaxWritten == [s \in Streams |-> IF s = "stdout" THEN 2 ELSE 1]
MCLimit == [s \in Streams |-> IF s = "stdout" THEN 1 ELSE 0]
=============================================================================
