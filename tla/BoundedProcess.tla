--------------------------- MODULE BoundedProcess ---------------------------
(***************************************************************************)
(* Supervision of one child process by run_bounded_process: a supervisor   *)
(* that polls, two reader threads that drain the child's streams, and a    *)
(* process group (the child and its descendants) that writes, forks,       *)
(* closes its streams and exits as it likes.                               *)
(*                                                                         *)
(* Bytes are counted, not represented.  A group signal takes effect at     *)
(* once on every member, and no member leaves the group: the code's        *)
(* documentation admits no child that creates a session of its own.        *)
(***************************************************************************)
EXTENDS Naturals

CONSTANTS
  Child,        \* the direct child
  Descendants,  \* what the child and its descendants may fork
  Limit,        \* stream -> how many bytes are retained of it
  MaxWritten,   \* stream -> bound of the bytes the group writes to it
  PipeCapacity, \* bound: bytes a pipe holds
  Unset         \* no termination requested, no result yet

Streams == {"stdout", "stderr"}
Members == {Child} \cup Descendants

ASSUME ConstantsAssumption ==
  /\ Child \notin Descendants
  /\ Limit \in [Streams -> Nat]
  /\ MaxWritten \in [Streams -> Nat] /\ PipeCapacity \in Nat \ {0}
  /\ Unset \notin {"Completed", "Cancelled", "TimedOut",
                  "StdoutLimitExceeded", "StderrLimitExceeded", "Interrupted", "Error"}

VARIABLES
  stage,     \* where the supervisor is in run_bounded_process_unix
  group,     \* members of the process group that are running
  forked,    \* members that were ever started
  holders,   \* stream -> running members that hold its write end
  status,    \* the direct child: "unspawned", "running", "exited" or "killed"
  reaped,    \* direct_child_status.is_some()
  pipe,      \* stream -> bytes written and not yet read
  written,   \* stream -> bytes written so far
  reader,    \* stream -> "none", "reading", "failing" or "finished"
  failed,    \* streams whose reader ended in an I/O error
  kept,      \* stream -> bytes retained
  exceeded,  \* streams whose reader stored limit_exceeded
  cancelled, \* the caller's cancellation flag
  elapsed,   \* the timeout has passed since started_at
  requested, \* requested_termination
  result     \* Unset, "Interrupted", "Error" or what Ok carries

supervisor == <<stage, reaped, requested, result>>
processes  == <<group, forked, holders, status>>
streams    == <<pipe, written, reader, failed, kept, exceeded>>
processVars == <<supervisor, processes, streams, cancelled, elapsed>>

Terminations == {"Completed", "Cancelled", "TimedOut",
                 "StdoutLimitExceeded", "StderrLimitExceeded"}

SupervisionTypeOK ==
  /\ stage \in {"start", "readStdout", "readStderr", "joinStdout", "failed", "stdout",
                "stderr", "cancel", "timeout", "tryWait", "finished", "drain", "close",
                "join", "returned"}
  /\ group \subseteq Members /\ forked \subseteq Members
  /\ holders \in [Streams -> SUBSET Members]
  /\ status \in {"unspawned", "running", "exited", "killed"}
  /\ reaped \in BOOLEAN
  /\ pipe \in [Streams -> Nat] /\ written \in [Streams -> Nat] /\ kept \in [Streams -> Nat]
  /\ reader \in [Streams -> {"none", "reading", "failing", "finished"}]
  /\ failed \subseteq Streams /\ exceeded \subseteq Streams
  /\ cancelled \in BOOLEAN /\ elapsed \in BOOLEAN
  /\ requested \in Terminations \cup {Unset}
  /\ result \in Terminations \cup {Unset, "Interrupted", "Error"}

ProcessInit ==
  /\ stage = "start"
  /\ group = {} /\ forked = {}
  /\ holders = [s \in Streams |-> {}]
  /\ status = "unspawned" /\ reaped = FALSE
  /\ pipe = [s \in Streams |-> 0] /\ written = [s \in Streams |-> 0]
  /\ reader = [s \in Streams |-> "none"]
  /\ failed = {} /\ kept = [s \in Streams |-> 0] /\ exceeded = {}
  /\ cancelled \in BOOLEAN /\ elapsed = FALSE
  /\ requested = Unset /\ result = Unset

-----------------------------------------------------------------------------
(* The supervisor. *)

Goto(next) == stage' = next
Return(r)  == stage' = "returned" /\ result' = r

\* terminate_process_group_id: SIGKILL reaches every running member, whose
\* streams the system then closes.
KillGroup ==
  /\ group' = {}
  /\ holders' = [s \in Streams |-> {}]
  /\ status' = IF status = "running" THEN "killed" ELSE status

\* Mutant: Only the direct child is killed when the group is refused.
RefuseKillsChildOnly ==
  /\ group' = group \ {Child}
  /\ holders' = [s \in Streams |-> holders[s] \ {Child}]
  /\ status' = IF status = "running" THEN "killed" ELSE status
  /\ reaped' = TRUE

\* refuse_process_group: kill the group and, unless it is done, reap the child.
Refuse == KillGroup /\ reaped' = TRUE

ReadersFinished == \A s \in Streams : reader[s] = "finished"

\* A cancellation set before the call returns before anything is spawned.
CancelledBeforeSpawn ==
  /\ stage = "start" /\ cancelled
  /\ Return("Interrupted")
  /\ UNCHANGED <<reaped, requested, processes, streams, cancelled, elapsed>>

\* The command cannot be started, or it starts in a group of its own with
\* both streams piped.
Spawn ==
  /\ stage = "start" /\ ~cancelled
  /\ \/ Return("Error") /\ UNCHANGED processes
     \/ /\ Goto("readStdout")
        /\ group' = {Child} /\ forked' = {Child}
        /\ holders' = [s \in Streams |-> {Child}]
        /\ status' = "running"
        /\ UNCHANGED result
  /\ UNCHANGED <<reaped, requested, streams, cancelled, elapsed>>

\* spawn_limited_reader for stdout, then for stderr.
SpawnStdoutReader ==
  /\ stage = "readStdout"
  /\ Goto("readStderr")
  /\ reader' = [reader EXCEPT !["stdout"] = "reading"]
  /\ UNCHANGED <<reaped, requested, result, processes, pipe, written, failed, kept, exceeded,
                 cancelled, elapsed>>

SpawnStderrReader ==
  /\ stage = "readStderr"
  /\ Goto("failed")
  /\ reader' = [reader EXCEPT !["stderr"] = "reading"]
  /\ UNCHANGED <<reaped, requested, result, processes, pipe, written, failed, kept, exceeded,
                 cancelled, elapsed>>

\* No thread for a reader: the group is refused, and a reader that already
\* runs is joined, before the error is returned.
SpawnReaderFails ==
  /\ stage \in {"readStdout", "readStderr"}
  /\ Refuse
  /\ IF stage = "readStdout" THEN Return("Error") ELSE Goto("joinStdout") /\ UNCHANGED result
  /\ UNCHANGED <<requested, forked, streams, cancelled, elapsed>>

JoinStdoutReader ==
  /\ stage = "joinStdout" /\ reader["stdout"] = "finished"
  /\ Return("Error")
  /\ UNCHANGED <<reaped, requested, processes, streams, cancelled, elapsed>>

\* Mutant: An error of a reader is returned without refusing the group.
PollFailedKeepsGroup ==
  /\ stage = "failed"
  /\ Goto(IF failed # {} THEN "drain" ELSE IF requested = Unset THEN "stdout" ELSE "tryWait")
  /\ UNCHANGED <<reaped, requested, result, processes, streams, cancelled, elapsed>>

\* One round of the poll loop, check by check.
PollFailed ==
  /\ stage = "failed"
  /\ IF failed # {}
     THEN Refuse /\ Goto("drain") /\ UNCHANGED forked
     ELSE /\ Goto(IF requested = Unset THEN "stdout" ELSE "tryWait")
          /\ UNCHANGED <<reaped, processes>>
  /\ UNCHANGED <<requested, result, streams, cancelled, elapsed>>

\* One refusal condition: when it is observed the group is refused and the
\* termination is recorded, otherwise the next condition is looked at.
Poll(here, observed, termination, next) ==
  /\ stage = here
  /\ IF observed
     THEN Refuse /\ requested' = termination /\ Goto("tryWait") /\ UNCHANGED forked
     ELSE Goto(next) /\ UNCHANGED <<reaped, requested, processes>>
  /\ UNCHANGED <<result, streams, cancelled, elapsed>>

PollStdout  == Poll("stdout", "stdout" \in exceeded, "StdoutLimitExceeded", "stderr")
PollStderr  == Poll("stderr", "stderr" \in exceeded, "StderrLimitExceeded", "cancel")
PollCancel  == Poll("cancel", cancelled, "Cancelled", "timeout")
PollTimeout == Poll("timeout", elapsed, "TimedOut", "tryWait")

\* try_wait: nothing to do once the child is reaped.
TryWait ==
  /\ stage = "tryWait"
  /\ Goto("finished")
  /\ reaped' = (reaped \/ status # "running")
  /\ UNCHANGED <<requested, result, processes, streams, cancelled, elapsed>>

\* try_wait fails: refuse the group; if the child cannot be waited for either,
\* that error is returned at once, otherwise the readers are awaited first.
TryWaitFails ==
  /\ stage = "tryWait" /\ ~reaped
  /\ KillGroup /\ UNCHANGED forked
  /\ \/ reaped' = TRUE /\ Goto("drain") /\ UNCHANGED result
     \/ reaped' = reaped /\ Return("Error")
  /\ UNCHANGED <<requested, streams, cancelled, elapsed>>

\* Leave the loop when the child is reaped and both readers are done.
CheckFinished ==
  /\ stage = "finished"
  /\ Goto(IF reaped /\ ReadersFinished THEN "close" ELSE "failed")
  /\ UNCHANGED <<reaped, requested, result, processes, streams, cancelled, elapsed>>

\* wait_for_stream_readers and join_stream_reader_errors.
DrainAfterError ==
  /\ stage = "drain" /\ ReadersFinished
  /\ Return("Error")
  /\ UNCHANGED <<reaped, requested, processes, streams, cancelled, elapsed>>

\* terminate_remaining_process_group.
CloseGroup ==
  /\ stage = "close"
  /\ KillGroup /\ Goto("join")
  /\ UNCHANGED <<reaped, requested, result, forked, streams, cancelled, elapsed>>

\* Mutant: The recorded request is forgotten when the result is built.
TerminationForgetsRequest ==
  CASE "stdout" \in exceeded -> "StdoutLimitExceeded"
    [] "stdout" \notin exceeded /\ "stderr" \in exceeded -> "StderrLimitExceeded"
    [] exceeded = {} -> "Completed"

\* Mutant: What was requested goes before what the streams show.
TerminationPrefersRequest ==
  IF requested # Unset THEN requested ELSE TerminationForgetsRequest

\* stream_limit_termination(..).or(requested_termination).
Termination ==
  CASE "stdout" \in exceeded -> "StdoutLimitExceeded"
    [] "stdout" \notin exceeded /\ "stderr" \in exceeded -> "StderrLimitExceeded"
    [] exceeded = {} -> IF requested # Unset THEN requested ELSE "Completed"

\* Both readers are joined; an error of either is returned after one more
\* signal to the group.
Join ==
  /\ stage = "join" /\ ReadersFinished
  /\ IF failed # {}
     THEN KillGroup /\ Return("Error") /\ UNCHANGED forked
     ELSE Return(Termination) /\ UNCHANGED processes
  /\ UNCHANGED <<reaped, requested, streams, cancelled, elapsed>>

Supervisor ==
  \/ CancelledBeforeSpawn \/ Spawn \/ SpawnStdoutReader \/ SpawnStderrReader
  \/ SpawnReaderFails \/ JoinStdoutReader
  \/ PollFailed \/ PollStdout \/ PollStderr \/ PollCancel \/ PollTimeout
  \/ TryWait \/ TryWaitFails \/ CheckFinished \/ DrainAfterError
  \/ CloseGroup \/ Join

-----------------------------------------------------------------------------
(* The readers: read_limited_stream in a thread of its own. *)

Least(a, b) == IF a <= b THEN a ELSE b

\* One read returns n of the bytes that wait; the prefix below the limit is
\* retained and anything beyond is noted, while draining goes on.
Read(s, n) ==
  LET retained == Least(Limit[s] - kept[s], n)
  IN /\ reader[s] = "reading" /\ n \in 1 .. pipe[s]
     /\ pipe' = [pipe EXCEPT ![s] = @ - n]
     /\ kept' = [kept EXCEPT ![s] = @ + retained]
     /\ exceeded' = IF retained < n THEN exceeded \cup {s} ELSE exceeded
     /\ UNCHANGED <<written, reader, failed, supervisor, processes, cancelled, elapsed>>

\* End of file: nothing waits and nobody can write any more.
ReadEnd(s) ==
  /\ reader[s] = "reading" /\ pipe[s] = 0 /\ holders[s] = {}
  /\ reader' = [reader EXCEPT ![s] = "finished"]
  /\ UNCHANGED <<pipe, written, failed, kept, exceeded, supervisor, processes, cancelled, elapsed>>

\* A read fails: reader_failed is stored first, reader_finished afterwards.
ReadFails(s) ==
  /\ reader[s] = "reading"
  /\ reader' = [reader EXCEPT ![s] = "failing"]
  /\ failed' = failed \cup {s}
  /\ UNCHANGED <<pipe, written, kept, exceeded, supervisor, processes, cancelled, elapsed>>

ReaderStops(s) ==
  /\ reader[s] = "failing"
  /\ reader' = [reader EXCEPT ![s] = "finished"]
  /\ UNCHANGED <<pipe, written, failed, kept, exceeded, supervisor, processes, cancelled, elapsed>>

Reads(s) == (\E n \in 1 .. pipe[s] : Read(s, n)) \/ ReadEnd(s) \/ ReaderStops(s)

-----------------------------------------------------------------------------
(* The group, the caller and the clock: anything the code must cope with. *)

Write(p, s) ==
  /\ p \in group \cap holders[s]
  /\ pipe[s] < PipeCapacity /\ written[s] < MaxWritten[s]
  /\ pipe' = [pipe EXCEPT ![s] = @ + 1]
  /\ written' = [written EXCEPT ![s] = @ + 1]
  /\ UNCHANGED <<reader, failed, kept, exceeded, supervisor, processes, cancelled, elapsed>>

Fork(p, d) ==
  /\ p \in group /\ d \in Descendants \ forked
  /\ group' = group \cup {d} /\ forked' = forked \cup {d}
  /\ holders' = [s \in Streams |-> IF p \in holders[s] THEN holders[s] \cup {d} ELSE holders[s]]
  /\ UNCHANGED <<status, supervisor, streams, cancelled, elapsed>>

CloseStream(p, s) ==
  /\ p \in group \cap holders[s]
  /\ holders' = [holders EXCEPT ![s] = @ \ {p}]
  /\ UNCHANGED <<group, forked, status, supervisor, streams, cancelled, elapsed>>

Exit(p) ==
  /\ p \in group
  /\ group' = group \ {p}
  /\ holders' = [s \in Streams |-> holders[s] \ {p}]
  /\ status' = IF p = Child THEN "exited" ELSE status
  /\ UNCHANGED <<forked, supervisor, streams, cancelled, elapsed>>

Cancel ==
  /\ ~cancelled /\ cancelled' = TRUE
  /\ UNCHANGED <<supervisor, processes, streams, elapsed>>

\* started_at is taken once both readers run.
TimeoutPasses ==
  /\ ~elapsed /\ reader["stderr"] # "none" /\ elapsed' = TRUE
  /\ UNCHANGED <<supervisor, processes, streams, cancelled>>

Environment ==
  \/ \E p \in Members, s \in Streams : Write(p, s) \/ CloseStream(p, s)
  \/ \E p \in Members, d \in Descendants : Fork(p, d)
  \/ \E p \in Members : Exit(p)
  \/ Cancel \/ TimeoutPasses

\* The call is over: nothing of this system moves any more.
Returned == stage = "returned" /\ UNCHANGED processVars

ProcessNext ==
  \/ Supervisor
  \/ \E s \in Streams : Reads(s) \/ ReadFails(s)
  \/ Environment
  \/ Returned

ProcessSpec == ProcessInit /\ [][ProcessNext]_processVars

\* The supervisor's and the readers' threads are scheduled; the group, the
\* caller, the clock and I/O errors owe nothing.
ProcessFairness ==
  /\ WF_processVars(Supervisor)
  /\ \A s \in Streams : WF_processVars(Reads(s))

-----------------------------------------------------------------------------
(* Properties *)

\* However the call ends, early errors included, no member of the group is
\* running when it returns: descendants of the child "cannot ... survive
\* either completion or refusal".
NobodySurvives == result # Unset => group = {}

\* The reported termination tells the whole output: a stream limit is
\* reported exactly when that stream's total output passed its limit, stdout
\* before stderr, whatever was requested meanwhile; otherwise a cancellation
\* or timeout is reported only if it happened, and an Ok retains the longest
\* admissible prefix of both streams.
TerminationIsTruthful ==
  result \in Terminations =>
    /\ (result = "StdoutLimitExceeded") <=> (written["stdout"] > Limit["stdout"])
    /\ (result = "StderrLimitExceeded") <=> /\ written["stdout"] <= Limit["stdout"]
                                            /\ written["stderr"] > Limit["stderr"]
    /\ result = "Cancelled" => cancelled
    /\ result = "TimedOut" => elapsed
    /\ \A s \in Streams : kept[s] = Least(written[s], Limit[s])

\* A Completed result is one the supervisor did not interfere with: the child
\* exited by itself and was reaped, and nothing was requested or went wrong.
CompletedIsUndisturbed ==
  result = "Completed" => status = "exited" /\ reaped /\ requested = Unset /\ failed = {}

\* Once a refusal condition holds or the whole group is gone, the supervisor
\* returns, even if a quiet descendant holds the inherited pipes open and
\* never exits.
SupervisionEnds ==
  /\ (stage # "start" /\ (cancelled \/ elapsed \/ exceeded # {} \/ failed # {})) ~> (result # Unset)
  /\ (stage # "start" /\ group = {}) ~> (result # Unset)
=============================================================================
