---------------------------- MODULE CargoProofs -----------------------------
(***************************************************************************)
(* Proofs about what surrounds a Cargo run, for any processes, limits,     *)
(* domains and sizes: the supervision of a child process, and the generated*)
(* cache with the prewarm queue that holds its leases.                     *)
(*                                                                         *)
(* A group that was killed stays empty, since only members fork (QuietInv);*)
(* what a reader retained and noted accounts for every byte written        *)
(* (StreamInv); and only a child that ended by itself is reaped without a  *)
(* request (ChildInv).                                                     *)
(*                                                                         *)
(* A lease holds a shared lock of the very file its domain's path names    *)
(* (LeaseInv), because only the holder of the manager lock unlinks, and only*)
(* what it has locked (ManagerInv, VictimInv, LockInv); a measurement is   *)
(* exact because it excludes every lease of the domain (RefreshInv,        *)
(* RecordInv).                                                             *)
(***************************************************************************)
EXTENDS BoundedProcess, LspPrewarm, FiniteSetTheorems, TLAPS

-----------------------------------------------------------------------------
(* Supervision of a child process. *)

\* SupervisionTypeOK by parts: the supervisor's state, the group's, the streams'.
SupervisorTypeOK ==
  /\ stage \in {"start", "readStdout", "readStderr", "joinStdout", "failed", "stdout",
                "stderr", "cancel", "timeout", "tryWait", "finished", "drain", "close",
                "join", "returned"}
  /\ reaped \in BOOLEAN
  /\ requested \in Terminations \cup {Unset}
  /\ result \in Terminations \cup {Unset, "Interrupted", "Error"}

ProcessTypeOK ==
  /\ group \subseteq Members /\ forked \subseteq Members
  /\ holders \in [Streams -> SUBSET Members]
  /\ status \in {"unspawned", "running", "exited", "killed"}

StreamTypeOK ==
  /\ pipe \in [Streams -> Nat] /\ written \in [Streams -> Nat] /\ kept \in [Streams -> Nat]
  /\ reader \in [Streams -> {"none", "reading", "failing", "finished"}]
  /\ failed \subseteq Streams /\ exceeded \subseteq Streams
  /\ cancelled \in BOOLEAN /\ elapsed \in BOOLEAN

Polling == {"failed", "stdout", "stderr", "cancel", "timeout", "tryWait", "finished", "close", "join"}

\* Where the supervisor is: it has a result once it has returned, and the group
\* is empty before the start, after a refusal and after the loop.
QuietInv ==
  /\ stage = "returned" <=> result # Unset
  /\ stage \in {"start", "joinStdout", "drain", "join", "returned"} => group = {}
  /\ Child \in group <=> status = "running"
  /\ stage = "start" => \A s \in Streams : reader[s] = "none"

\* The bytes of a stream: what was read is retained up to the limit, and a
\* reader that noted the limit has seen more than that.
StreamInv ==
  \A s \in Streams :
    /\ kept[s] <= Limit[s]
    /\ s \notin exceeded => kept[s] + pipe[s] = written[s]
    /\ s \in exceeded => kept[s] = Limit[s] /\ written[s] > Limit[s]
    /\ reader[s] = "failing" => s \in failed
    /\ reader[s] = "finished" /\ s \notin failed => pipe[s] = 0 /\ holders[s] = {}

\* What was requested has happened.
RequestInv ==
  /\ requested # "Completed"
  /\ requested = "StdoutLimitExceeded" => "stdout" \in exceeded
  /\ requested = "StderrLimitExceeded" => "stderr" \in exceeded
  /\ requested = "Cancelled" => cancelled
  /\ requested = "TimedOut" => elapsed

\* Past the loop both readers are done.
DoneInv ==
  stage \in {"close", "join"} \/ result \in Terminations => ReadersFinished /\ reaped

\* Before the readers run nothing is reaped or requested; without a request the
\* child is killed by nobody, and is reaped only once it ended by itself.
ChildInv ==
  /\ stage \in {"start", "readStdout", "readStderr"} => ~reaped /\ requested = Unset
  /\ stage \in {"readStdout", "readStderr"} \cup Polling /\ requested = Unset =>
       status \in {"running", "exited"} /\ (reaped => status = "exited")

\* What an Ok reports.
ReportInv ==
  result \in Terminations => /\ failed = {} /\ result = Termination
                             /\ requested = Unset => status = "exited"

PInv == SupervisionTypeOK /\ QuietInv /\ StreamInv /\ RequestInv /\ DoneInv /\ ChildInv /\ ReportInv

-----------------------------------------------------------------------------
\* What stream_limit_termination(..).or(requested_termination) yields is a termination.
LEMMA TerminationIsOne == SupervisionTypeOK => Termination \in Terminations
BY DEF SupervisionTypeOK, Termination, Terminations, Streams

\* Every step keeps the types of the supervisor's state.
LEMMA SupervisorTypeStep ==
    ASSUME SupervisionTypeOK, [ProcessNext]_processVars PROVE SupervisorTypeOK'
<1> USE ConstantsAssumption, TerminationIsOne
    DEF SupervisionTypeOK, SupervisorTypeOK, Terminations, KillGroup, Refuse, Goto, Return, supervisor,
        processes, streams, processVars
<1>1. CASE CancelledBeforeSpawn \/ Spawn
  BY <1>1 DEF CancelledBeforeSpawn, Spawn
<1>2. CASE SpawnStdoutReader \/ SpawnStderrReader
  BY <1>2 DEF SpawnStdoutReader, SpawnStderrReader
<1>3. CASE SpawnReaderFails \/ JoinStdoutReader
  BY <1>3 DEF SpawnReaderFails, JoinStdoutReader
<1>4. CASE PollFailed
  BY <1>4 DEF PollFailed
<1>5. CASE PollStdout \/ PollStderr
  BY <1>5 DEF PollStdout, PollStderr, Poll
<1>6. CASE PollCancel \/ PollTimeout
  BY <1>6 DEF PollCancel, PollTimeout, Poll
<1>7. CASE TryWait \/ TryWaitFails
  BY <1>7 DEF TryWait, TryWaitFails
<1>8. CASE CheckFinished \/ DrainAfterError
  BY <1>8 DEF CheckFinished, DrainAfterError
<1>9. CASE CloseGroup
  BY <1>9 DEF CloseGroup
<1>10. CASE Join
  BY <1>10 DEF Join
<1>11. ASSUME NEW s \in Streams, NEW n \in 1 .. pipe[s], Read(s, n) PROVE SupervisorTypeOK'
  BY <1>11 DEF Read
<1>12. ASSUME NEW s \in Streams, ReadEnd(s) \/ ReadFails(s) \/ ReaderStops(s) PROVE SupervisorTypeOK'
  BY <1>12 DEF ReadEnd, ReadFails, ReaderStops
<1>13. ASSUME NEW p \in Members, NEW s \in Streams, Write(p, s) \/ CloseStream(p, s)
       PROVE  SupervisorTypeOK'
  BY <1>13 DEF Write, CloseStream
<1>14. ASSUME NEW p \in Members, NEW d \in Descendants, Fork(p, d) PROVE SupervisorTypeOK'
  BY <1>14 DEF Fork
<1>15. ASSUME NEW p \in Members, Exit(p) PROVE SupervisorTypeOK'
  BY <1>15 DEF Exit
<1>16. CASE Cancel \/ TimeoutPasses
  BY <1>16 DEF Cancel, TimeoutPasses
<1>17. CASE Returned \/ UNCHANGED processVars
  BY <1>17 DEF Returned
<1> QED
  BY <1>1, <1>2, <1>3, <1>4, <1>5, <1>6, <1>7, <1>8, <1>9, <1>10, <1>11, <1>12, <1>13,
     <1>14, <1>15, <1>16, <1>17
     DEF ProcessNext, Supervisor, Reads, Environment

\* Every step keeps the types of the process group.
LEMMA ProcessTypeStep ==
    ASSUME SupervisionTypeOK, [ProcessNext]_processVars PROVE ProcessTypeOK'
<1> USE ConstantsAssumption
    DEF SupervisionTypeOK, ProcessTypeOK, Members, KillGroup, Refuse, Goto, Return, supervisor, processes,
        streams, processVars
<1>1. CASE CancelledBeforeSpawn \/ Spawn
  BY <1>1 DEF CancelledBeforeSpawn, Spawn
<1>2. CASE SpawnStdoutReader \/ SpawnStderrReader
  BY <1>2 DEF SpawnStdoutReader, SpawnStderrReader
<1>3. CASE SpawnReaderFails \/ JoinStdoutReader
  BY <1>3 DEF SpawnReaderFails, JoinStdoutReader
<1>4. CASE PollFailed
  BY <1>4 DEF PollFailed
<1>5. CASE PollStdout \/ PollStderr
  BY <1>5 DEF PollStdout, PollStderr, Poll
<1>6. CASE PollCancel \/ PollTimeout
  BY <1>6 DEF PollCancel, PollTimeout, Poll
<1>7. CASE TryWait \/ TryWaitFails
  BY <1>7 DEF TryWait, TryWaitFails
<1>8. CASE CheckFinished \/ DrainAfterError
  BY <1>8 DEF CheckFinished, DrainAfterError
<1>9. CASE CloseGroup
  BY <1>9 DEF CloseGroup
<1>10. CASE Join
  BY <1>10 DEF Join
<1>11. ASSUME NEW s \in Streams, NEW n \in 1 .. pipe[s], Read(s, n) PROVE ProcessTypeOK'
  BY <1>11 DEF Read
<1>12. ASSUME NEW s \in Streams, ReadEnd(s) \/ ReadFails(s) \/ ReaderStops(s) PROVE ProcessTypeOK'
  BY <1>12 DEF ReadEnd, ReadFails, ReaderStops
<1>13. ASSUME NEW p \in Members, NEW s \in Streams, Write(p, s) \/ CloseStream(p, s)
       PROVE  ProcessTypeOK'
  BY <1>13 DEF Write, CloseStream
<1>14. ASSUME NEW p \in Members, NEW d \in Descendants, Fork(p, d) PROVE ProcessTypeOK'
  BY <1>14 DEF Fork
<1>15. ASSUME NEW p \in Members, Exit(p) PROVE ProcessTypeOK'
  BY <1>15 DEF Exit
<1>16. CASE Cancel \/ TimeoutPasses
  BY <1>16 DEF Cancel, TimeoutPasses
<1>17. CASE Returned \/ UNCHANGED processVars
  BY <1>17 DEF Returned
<1> QED
  BY <1>1, <1>2, <1>3, <1>4, <1>5, <1>6, <1>7, <1>8, <1>9, <1>10, <1>11, <1>12, <1>13,
     <1>14, <1>15, <1>16, <1>17
     DEF ProcessNext, Supervisor, Reads, Environment

\* Every step keeps the types of the streams and of their readers.
LEMMA StreamTypeStep ==
    ASSUME SupervisionTypeOK, StreamInv, [ProcessNext]_processVars PROVE StreamTypeOK'
<1> USE ConstantsAssumption DEF SupervisionTypeOK, StreamTypeOK, Poll, supervisor, processes, streams, processVars
<1>1. CASE CancelledBeforeSpawn \/ Spawn
  BY <1>1 DEF CancelledBeforeSpawn, Spawn
<1>2. CASE SpawnStdoutReader \/ SpawnStderrReader
  BY <1>2 DEF SpawnStdoutReader, SpawnStderrReader
<1>3. CASE SpawnReaderFails \/ JoinStdoutReader
  BY <1>3 DEF SpawnReaderFails, JoinStdoutReader
<1>4. CASE PollFailed
  BY <1>4 DEF PollFailed
<1>5. CASE PollStdout \/ PollStderr
  BY <1>5 DEF PollStdout, PollStderr, Poll
<1>6. CASE PollCancel \/ PollTimeout
  BY <1>6 DEF PollCancel, PollTimeout, Poll
<1>7. CASE TryWait \/ TryWaitFails
  BY <1>7 DEF TryWait, TryWaitFails
<1>8. CASE CheckFinished \/ DrainAfterError
  BY <1>8 DEF CheckFinished, DrainAfterError
<1>9. CASE CloseGroup
  BY <1>9 DEF CloseGroup
<1>10. CASE Join
  BY <1>10 DEF Join
<1>11. ASSUME NEW s \in Streams, NEW n \in 1 .. pipe[s], Read(s, n) PROVE StreamTypeOK'
  <2>1. Limit[s] - kept[s] \in Nat
    BY DEF StreamInv
  <2>2. Least(Limit[s] - kept[s], n) \in Nat
    BY <2>1 DEF Least
  <2> QED
    BY <1>11, <2>2 DEF Read
<1>12. ASSUME NEW s \in Streams, ReadEnd(s) \/ ReadFails(s) \/ ReaderStops(s) PROVE StreamTypeOK'
  BY <1>12 DEF ReadEnd, ReadFails, ReaderStops
<1>13. ASSUME NEW p \in Members, NEW s \in Streams, Write(p, s) \/ CloseStream(p, s) PROVE StreamTypeOK'
  BY <1>13 DEF Write, CloseStream
<1>14. ASSUME NEW p \in Members, NEW d \in Descendants, Fork(p, d) PROVE StreamTypeOK'
  BY <1>14 DEF Fork
<1>15. ASSUME NEW p \in Members, Exit(p) PROVE StreamTypeOK'
  BY <1>15 DEF Exit
<1>16. CASE Cancel \/ TimeoutPasses
  BY <1>16 DEF Cancel, TimeoutPasses
<1>17. CASE Returned \/ UNCHANGED processVars
  BY <1>17 DEF Returned
<1> QED
  BY <1>1, <1>2, <1>3, <1>4, <1>5, <1>6, <1>7, <1>8, <1>9, <1>10, <1>11, <1>12, <1>13,
     <1>14, <1>15, <1>16, <1>17
     DEF ProcessNext, Supervisor, Reads, Environment

\* Every step preserves the types.
LEMMA TypeStep ==
    ASSUME SupervisionTypeOK, StreamInv, [ProcessNext]_processVars PROVE SupervisionTypeOK'
<1>1. SupervisorTypeOK' /\ ProcessTypeOK' /\ StreamTypeOK'
  BY SupervisorTypeStep, ProcessTypeStep, StreamTypeStep
<1> QED
  BY <1>1 DEF SupervisionTypeOK, SupervisorTypeOK, ProcessTypeOK, StreamTypeOK

\* Every step leaves a group that was killed empty.
LEMMA QuietStep ==
    ASSUME SupervisionTypeOK, QuietInv, [ProcessNext]_processVars PROVE QuietInv'
<1> USE ConstantsAssumption
    DEF SupervisionTypeOK, QuietInv, Members, KillGroup, Refuse, Goto, Return, supervisor, processes,
        streams, processVars
<1>1. CASE CancelledBeforeSpawn \/ Spawn
  BY <1>1 DEF CancelledBeforeSpawn, Spawn
<1>2. CASE SpawnStdoutReader \/ SpawnStderrReader
  BY <1>2 DEF SpawnStdoutReader, SpawnStderrReader
<1>3. CASE SpawnReaderFails \/ JoinStdoutReader
  BY <1>3 DEF SpawnReaderFails, JoinStdoutReader
<1>4. CASE PollFailed
  BY <1>4 DEF PollFailed
<1>5. CASE PollStdout \/ PollStderr
  BY <1>5 DEF PollStdout, PollStderr, Poll
<1>6. CASE PollCancel \/ PollTimeout
  BY <1>6 DEF PollCancel, PollTimeout, Poll
<1>7. CASE TryWait \/ TryWaitFails
  BY <1>7 DEF TryWait, TryWaitFails
<1>8. CASE CheckFinished \/ DrainAfterError
  BY <1>8 DEF CheckFinished, DrainAfterError
<1>9. CASE CloseGroup
  BY <1>9 DEF CloseGroup
<1>10. CASE Join
  <2>1. Termination # Unset
    BY TerminationIsOne DEF Terminations
  <2> QED
    BY <1>10, <2>1 DEF Join
<1>11. ASSUME NEW s \in Streams, NEW n \in 1 .. pipe[s], Read(s, n) PROVE QuietInv'
  BY <1>11 DEF Read
<1>12. ASSUME NEW s \in Streams, ReadEnd(s) \/ ReadFails(s) \/ ReaderStops(s) PROVE QuietInv'
  BY <1>12 DEF ReadEnd, ReadFails, ReaderStops
<1>13. ASSUME NEW p \in Members, NEW s \in Streams, Write(p, s) \/ CloseStream(p, s) PROVE QuietInv'
  BY <1>13 DEF Write, CloseStream
<1>14. ASSUME NEW p \in Members, NEW d \in Descendants, Fork(p, d) PROVE QuietInv'
  BY <1>14 DEF Fork
<1>15. ASSUME NEW p \in Members, Exit(p) PROVE QuietInv'
  BY <1>15 DEF Exit
<1>16. CASE Cancel \/ TimeoutPasses
  BY <1>16 DEF Cancel, TimeoutPasses
<1>17. CASE Returned \/ UNCHANGED processVars
  BY <1>17 DEF Returned
<1> QED
  BY <1>1, <1>2, <1>3, <1>4, <1>5, <1>6, <1>7, <1>8, <1>9, <1>10, <1>11, <1>12, <1>13,
     <1>14, <1>15, <1>16, <1>17
     DEF ProcessNext, Supervisor, Reads, Environment

\* Every step accounts for the bytes of both streams.
LEMMA StreamStep ==
    ASSUME SupervisionTypeOK, QuietInv, StreamInv, [ProcessNext]_processVars PROVE StreamInv'
<1> USE ConstantsAssumption
    DEF SupervisionTypeOK, QuietInv, StreamInv, Least, Streams, KillGroup, Refuse, Goto, Return, supervisor,
        processes, streams, processVars
<1>1. CASE CancelledBeforeSpawn \/ Spawn
  BY <1>1 DEF CancelledBeforeSpawn, Spawn
<1>2. CASE SpawnStdoutReader \/ SpawnStderrReader
  BY <1>2 DEF SpawnStdoutReader, SpawnStderrReader
<1>3. CASE SpawnReaderFails \/ JoinStdoutReader
  BY <1>3 DEF SpawnReaderFails, JoinStdoutReader
<1>4. CASE PollFailed
  BY <1>4 DEF PollFailed
<1>5. CASE PollStdout \/ PollStderr
  BY <1>5 DEF PollStdout, PollStderr, Poll
<1>6. CASE PollCancel \/ PollTimeout
  BY <1>6 DEF PollCancel, PollTimeout, Poll
<1>7. CASE TryWait \/ TryWaitFails
  BY <1>7 DEF TryWait, TryWaitFails
<1>8. CASE CheckFinished \/ DrainAfterError
  BY <1>8 DEF CheckFinished, DrainAfterError
<1>9. CASE CloseGroup
  BY <1>9 DEF CloseGroup
<1>10. CASE Join
  BY <1>10 DEF Join
<1>11. ASSUME NEW s \in Streams, NEW n \in 1 .. pipe[s], Read(s, n) PROVE StreamInv'
  BY <1>11 DEF Read
<1>12. ASSUME NEW s \in Streams, ReadEnd(s) \/ ReadFails(s) \/ ReaderStops(s) PROVE StreamInv'
  BY <1>12 DEF ReadEnd, ReadFails, ReaderStops
<1>13. ASSUME NEW p \in Members, NEW s \in Streams, Write(p, s) \/ CloseStream(p, s) PROVE StreamInv'
  BY <1>13 DEF Write, CloseStream
<1>14. ASSUME NEW p \in Members, NEW d \in Descendants, Fork(p, d) PROVE StreamInv'
  BY <1>14 DEF Fork
<1>15. ASSUME NEW p \in Members, Exit(p) PROVE StreamInv'
  BY <1>15 DEF Exit
<1>16. CASE Cancel \/ TimeoutPasses
  BY <1>16 DEF Cancel, TimeoutPasses
<1>17. CASE Returned \/ UNCHANGED processVars
  BY <1>17 DEF Returned
<1> QED
  BY <1>1, <1>2, <1>3, <1>4, <1>5, <1>6, <1>7, <1>8, <1>9, <1>10, <1>11, <1>12, <1>13,
     <1>14, <1>15, <1>16, <1>17
     DEF ProcessNext, Supervisor, Reads, Environment

\* Every step requests only what has happened.
LEMMA RequestStep ==
    ASSUME SupervisionTypeOK, RequestInv, [ProcessNext]_processVars PROVE RequestInv'
<1> USE ConstantsAssumption
    DEF SupervisionTypeOK, RequestInv, KillGroup, Refuse, Goto, Return, supervisor, processes, streams, processVars
<1>1. CASE CancelledBeforeSpawn \/ Spawn
  BY <1>1 DEF CancelledBeforeSpawn, Spawn
<1>2. CASE SpawnStdoutReader \/ SpawnStderrReader
  BY <1>2 DEF SpawnStdoutReader, SpawnStderrReader
<1>3. CASE SpawnReaderFails \/ JoinStdoutReader
  BY <1>3 DEF SpawnReaderFails, JoinStdoutReader
<1>4. CASE PollFailed
  BY <1>4 DEF PollFailed
<1>5. CASE PollStdout \/ PollStderr
  BY <1>5 DEF PollStdout, PollStderr, Poll
<1>6. CASE PollCancel \/ PollTimeout
  BY <1>6 DEF PollCancel, PollTimeout, Poll
<1>7. CASE TryWait \/ TryWaitFails
  BY <1>7 DEF TryWait, TryWaitFails
<1>8. CASE CheckFinished \/ DrainAfterError
  BY <1>8 DEF CheckFinished, DrainAfterError
<1>9. CASE CloseGroup
  BY <1>9 DEF CloseGroup
<1>10. CASE Join
  BY <1>10 DEF Join
<1>11. ASSUME NEW s \in Streams, NEW n \in 1 .. pipe[s], Read(s, n) PROVE RequestInv'
  BY <1>11 DEF Read
<1>12. ASSUME NEW s \in Streams, ReadEnd(s) \/ ReadFails(s) \/ ReaderStops(s) PROVE RequestInv'
  BY <1>12 DEF ReadEnd, ReadFails, ReaderStops
<1>13. ASSUME NEW p \in Members, NEW s \in Streams, Write(p, s) \/ CloseStream(p, s) PROVE RequestInv'
  BY <1>13 DEF Write, CloseStream
<1>14. ASSUME NEW p \in Members, NEW d \in Descendants, Fork(p, d) PROVE RequestInv'
  BY <1>14 DEF Fork
<1>15. ASSUME NEW p \in Members, Exit(p) PROVE RequestInv'
  BY <1>15 DEF Exit
<1>16. CASE Cancel \/ TimeoutPasses
  BY <1>16 DEF Cancel, TimeoutPasses
<1>17. CASE Returned \/ UNCHANGED processVars
  BY <1>17 DEF Returned
<1> QED
  BY <1>1, <1>2, <1>3, <1>4, <1>5, <1>6, <1>7, <1>8, <1>9, <1>10, <1>11, <1>12, <1>13,
     <1>14, <1>15, <1>16, <1>17
     DEF ProcessNext, Supervisor, Reads, Environment

\* Every step keeps the readers done past the loop.
LEMMA DoneStep ==
    ASSUME SupervisionTypeOK, QuietInv, DoneInv, [ProcessNext]_processVars PROVE DoneInv'
<1> USE ConstantsAssumption
    DEF SupervisionTypeOK, QuietInv, DoneInv, ReadersFinished, Terminations, KillGroup, Refuse, Goto,
        Return, supervisor, processes, streams, processVars
<1>1. CASE CancelledBeforeSpawn \/ Spawn
  BY <1>1 DEF CancelledBeforeSpawn, Spawn
<1>2. CASE SpawnStdoutReader \/ SpawnStderrReader
  BY <1>2 DEF SpawnStdoutReader, SpawnStderrReader
<1>3. CASE SpawnReaderFails \/ JoinStdoutReader
  BY <1>3 DEF SpawnReaderFails, JoinStdoutReader
<1>4. CASE PollFailed
  BY <1>4 DEF PollFailed
<1>5. CASE PollStdout \/ PollStderr
  BY <1>5 DEF PollStdout, PollStderr, Poll
<1>6. CASE PollCancel \/ PollTimeout
  BY <1>6 DEF PollCancel, PollTimeout, Poll
<1>7. CASE TryWait \/ TryWaitFails
  BY <1>7 DEF TryWait, TryWaitFails
<1>8. CASE CheckFinished \/ DrainAfterError
  BY <1>8 DEF CheckFinished, DrainAfterError
<1>9. CASE CloseGroup
  BY <1>9 DEF CloseGroup
<1>10. CASE Join
  BY <1>10 DEF Join
<1>11. ASSUME NEW s \in Streams, NEW n \in 1 .. pipe[s], Read(s, n) PROVE DoneInv'
  BY <1>11 DEF Read
<1>12. ASSUME NEW s \in Streams, ReadEnd(s) \/ ReadFails(s) \/ ReaderStops(s) PROVE DoneInv'
  BY <1>12 DEF ReadEnd, ReadFails, ReaderStops
<1>13. ASSUME NEW p \in Members, NEW s \in Streams, Write(p, s) \/ CloseStream(p, s) PROVE DoneInv'
  BY <1>13 DEF Write, CloseStream
<1>14. ASSUME NEW p \in Members, NEW d \in Descendants, Fork(p, d) PROVE DoneInv'
  BY <1>14 DEF Fork
<1>15. ASSUME NEW p \in Members, Exit(p) PROVE DoneInv'
  BY <1>15 DEF Exit
<1>16. CASE Cancel \/ TimeoutPasses
  BY <1>16 DEF Cancel, TimeoutPasses
<1>17. CASE Returned \/ UNCHANGED processVars
  BY <1>17 DEF Returned
<1> QED
  BY <1>1, <1>2, <1>3, <1>4, <1>5, <1>6, <1>7, <1>8, <1>9, <1>10, <1>11, <1>12, <1>13,
     <1>14, <1>15, <1>16, <1>17
     DEF ProcessNext, Supervisor, Reads, Environment

\* Every step reaps without a request only a child that has exited.
LEMMA ChildStep ==
    ASSUME SupervisionTypeOK, QuietInv, DoneInv, ChildInv, [ProcessNext]_processVars PROVE ChildInv'
<1> USE ConstantsAssumption
    DEF SupervisionTypeOK, QuietInv, DoneInv, ChildInv, Polling, Members, KillGroup, Refuse, Goto, Return,
        supervisor, processes, streams, processVars
<1>1. CASE CancelledBeforeSpawn \/ Spawn
  BY <1>1 DEF CancelledBeforeSpawn, Spawn
<1>2. CASE SpawnStdoutReader \/ SpawnStderrReader
  BY <1>2 DEF SpawnStdoutReader, SpawnStderrReader
<1>3. CASE SpawnReaderFails \/ JoinStdoutReader
  BY <1>3 DEF SpawnReaderFails, JoinStdoutReader
<1>4. CASE PollFailed
  BY <1>4 DEF PollFailed
<1>5. CASE PollStdout \/ PollStderr
  BY <1>5 DEF PollStdout, PollStderr, Poll
<1>6. CASE PollCancel \/ PollTimeout
  BY <1>6 DEF PollCancel, PollTimeout, Poll
<1>7. CASE TryWait \/ TryWaitFails
  BY <1>7 DEF TryWait, TryWaitFails
<1>8. CASE CheckFinished \/ DrainAfterError
  BY <1>8 DEF CheckFinished, DrainAfterError
<1>9. CASE CloseGroup
  BY <1>9 DEF CloseGroup
<1>10. CASE Join
  BY <1>10 DEF Join
<1>11. ASSUME NEW s \in Streams, NEW n \in 1 .. pipe[s], Read(s, n) PROVE ChildInv'
  BY <1>11 DEF Read
<1>12. ASSUME NEW s \in Streams, ReadEnd(s) \/ ReadFails(s) \/ ReaderStops(s) PROVE ChildInv'
  BY <1>12 DEF ReadEnd, ReadFails, ReaderStops
<1>13. ASSUME NEW p \in Members, NEW s \in Streams, Write(p, s) \/ CloseStream(p, s) PROVE ChildInv'
  BY <1>13 DEF Write, CloseStream
<1>14. ASSUME NEW p \in Members, NEW d \in Descendants, Fork(p, d) PROVE ChildInv'
  BY <1>14 DEF Fork
<1>15. ASSUME NEW p \in Members, Exit(p) PROVE ChildInv'
  BY <1>15 DEF Exit
<1>16. CASE Cancel \/ TimeoutPasses
  BY <1>16 DEF Cancel, TimeoutPasses
<1>17. CASE Returned \/ UNCHANGED processVars
  BY <1>17 DEF Returned
<1> QED
  BY <1>1, <1>2, <1>3, <1>4, <1>5, <1>6, <1>7, <1>8, <1>9, <1>10, <1>11, <1>12, <1>13,
     <1>14, <1>15, <1>16, <1>17
     DEF ProcessNext, Supervisor, Reads, Environment

\* Every step keeps the report true.
LEMMA ReportStep ==
    ASSUME SupervisionTypeOK, QuietInv, DoneInv, ChildInv, ReportInv, [ProcessNext]_processVars PROVE ReportInv'
<1> USE ConstantsAssumption
    DEF SupervisionTypeOK, QuietInv, DoneInv, ChildInv, ReportInv, ReadersFinished, Terminations,
        Termination, Polling, KillGroup, Refuse, Goto, Return, supervisor, processes, streams,
        processVars
<1>1. CASE CancelledBeforeSpawn \/ Spawn
  BY <1>1 DEF CancelledBeforeSpawn, Spawn
<1>2. CASE SpawnStdoutReader \/ SpawnStderrReader
  BY <1>2 DEF SpawnStdoutReader, SpawnStderrReader
<1>3. CASE SpawnReaderFails \/ JoinStdoutReader
  BY <1>3 DEF SpawnReaderFails, JoinStdoutReader
<1>4. CASE PollFailed
  BY <1>4 DEF PollFailed
<1>5. CASE PollStdout \/ PollStderr
  BY <1>5 DEF PollStdout, PollStderr, Poll
<1>6. CASE PollCancel \/ PollTimeout
  BY <1>6 DEF PollCancel, PollTimeout, Poll
<1>7. CASE TryWait \/ TryWaitFails
  BY <1>7 DEF TryWait, TryWaitFails
<1>8. CASE CheckFinished \/ DrainAfterError
  BY <1>8 DEF CheckFinished, DrainAfterError
<1>9. CASE CloseGroup
  BY <1>9 DEF CloseGroup
<1>10. CASE Join
  BY <1>10 DEF Join
<1>11. ASSUME NEW s \in Streams, NEW n \in 1 .. pipe[s], Read(s, n) PROVE ReportInv'
  BY <1>11 DEF Read
<1>12. ASSUME NEW s \in Streams, ReadEnd(s) \/ ReadFails(s) \/ ReaderStops(s) PROVE ReportInv'
  BY <1>12 DEF ReadEnd, ReadFails, ReaderStops
<1>13. ASSUME NEW p \in Members, NEW s \in Streams, Write(p, s) \/ CloseStream(p, s) PROVE ReportInv'
  BY <1>13 DEF Write, CloseStream
<1>14. ASSUME NEW p \in Members, NEW d \in Descendants, Fork(p, d) PROVE ReportInv'
  BY <1>14 DEF Fork
<1>15. ASSUME NEW p \in Members, Exit(p) PROVE ReportInv'
  BY <1>15 DEF Exit
<1>16. CASE Cancel \/ TimeoutPasses
  BY <1>16 DEF Cancel, TimeoutPasses
<1>17. CASE Returned \/ UNCHANGED processVars
  BY <1>17 DEF Returned
<1> QED
  BY <1>1, <1>2, <1>3, <1>4, <1>5, <1>6, <1>7, <1>8, <1>9, <1>10, <1>11, <1>12, <1>13,
     <1>14, <1>15, <1>16, <1>17
     DEF ProcessNext, Supervisor, Reads, Environment

\* The inductive invariant holds of every supervision.
THEOREM ProcessInvariantHolds == ProcessSpec => []PInv
<1>1. ProcessInit => PInv
  <2> SUFFICES ASSUME ProcessInit PROVE PInv
    OBVIOUS
  <2> USE ConstantsAssumption DEF ProcessInit
  <2>1. SupervisionTypeOK
    BY DEF SupervisionTypeOK
  <2>2. QuietInv
    BY DEF QuietInv
  <2>3. StreamInv
    BY DEF StreamInv, Streams
  <2>4. RequestInv /\ ChildInv
    BY DEF RequestInv, ChildInv, Polling
  <2>5. DoneInv /\ ReportInv
    BY DEF DoneInv, ReportInv, Terminations
  <2> QED
    BY <2>1, <2>2, <2>3, <2>4, <2>5 DEF PInv
<1>2. PInv /\ [ProcessNext]_processVars => PInv'
  BY TypeStep, QuietStep, StreamStep, RequestStep, DoneStep, ChildStep, ReportStep DEF PInv
<1> QED
  BY <1>1, <1>2, PTL DEF ProcessSpec

\* The state of a supervision keeps its types.
THEOREM ProcessTypeCorrect == ProcessSpec => []SupervisionTypeOK
<1>1. PInv => SupervisionTypeOK
  BY DEF PInv
<1> QED
  BY <1>1, ProcessInvariantHolds, PTL

\* However run_bounded_process returns, nothing of the group is left running
\* (NobodySurvives).
THEOREM NobodyIsLeft == ProcessSpec => []NobodySurvives
<1>1. PInv => NobodySurvives
  BY DEF PInv, QuietInv, NobodySurvives
<1> QED
  BY <1>1, ProcessInvariantHolds, PTL

\* The reported termination tells the whole output, for every limit and every
\* amount written (TerminationIsTruthful).
THEOREM TerminationTellsTheTruth == ProcessSpec => []TerminationIsTruthful
<1>1. PInv => TerminationIsTruthful
  <2> SUFFICES ASSUME PInv, result \in Terminations
               PROVE  /\ (result = "StdoutLimitExceeded") <=> (written["stdout"] > Limit["stdout"])
                      /\ (result = "StderrLimitExceeded") <=> /\ written["stdout"] <= Limit["stdout"]
                                                              /\ written["stderr"] > Limit["stderr"]
                      /\ result = "Cancelled" => cancelled
                      /\ result = "TimedOut" => elapsed
                      /\ \A s \in Streams : kept[s] = Least(written[s], Limit[s])
    BY DEF TerminationIsTruthful
  <2> USE ConstantsAssumption DEF PInv, SupervisionTypeOK, Streams
  <2>1. \A s \in Streams : reader[s] = "finished" /\ s \notin failed
    BY DEF DoneInv, ReportInv, ReadersFinished
  <2>2. \A s \in Streams : /\ s \in exceeded <=> written[s] > Limit[s]
                           /\ s \notin exceeded => kept[s] = written[s]
                           /\ s \in exceeded => kept[s] = Limit[s]
    BY <2>1 DEF StreamInv
  <2>3. /\ "stdout" \in exceeded => result = "StdoutLimitExceeded"
        /\ "stdout" \notin exceeded /\ "stderr" \in exceeded => result = "StderrLimitExceeded"
        /\ exceeded = {} => result = IF requested # Unset THEN requested ELSE "Completed"
    BY DEF ReportInv, Termination
  <2>4. exceeded = {} => result \notin {"StdoutLimitExceeded", "StderrLimitExceeded"}
    BY <2>3 DEF RequestInv
  <2>5. (result = "StdoutLimitExceeded") <=> (written["stdout"] > Limit["stdout"])
    BY <2>2, <2>3, <2>4
  <2>6. (result = "StderrLimitExceeded") <=> /\ written["stdout"] <= Limit["stdout"]
                                             /\ written["stderr"] > Limit["stderr"]
    BY <2>2, <2>3, <2>4
  <2>7. (result = "Cancelled" => cancelled) /\ (result = "TimedOut" => elapsed)
    BY <2>3 DEF RequestInv
  <2>8. \A s \in Streams : kept[s] = Least(written[s], Limit[s])
    BY <2>2 DEF Least
  <2> QED
    BY <2>5, <2>6, <2>7, <2>8
<1> QED
  BY <1>1, ProcessInvariantHolds, PTL

\* Completed is reported of an undisturbed child only (CompletedIsUndisturbed).
THEOREM CompletionIsUndisturbed == ProcessSpec => []CompletedIsUndisturbed
<1>1. PInv => CompletedIsUndisturbed
  <2> SUFFICES ASSUME PInv, result = "Completed"
               PROVE  status = "exited" /\ reaped /\ requested = Unset /\ failed = {}
    BY DEF CompletedIsUndisturbed
  <2>1. result \in Terminations
    BY DEF Terminations
  <2>2. exceeded = {}
    BY <2>1 DEF PInv, ReportInv, Termination, SupervisionTypeOK, Streams
  <2>3. requested = Unset
    BY <2>1, <2>2 DEF PInv, ReportInv, Termination, RequestInv
  <2> QED
    BY <2>1, <2>3 DEF PInv, ReportInv, DoneInv
<1> QED
  BY <1>1, ProcessInvariantHolds, PTL

-----------------------------------------------------------------------------
(* The generated cache and the prewarm queue. *)

\* Metadata that claims to be measured.
Measured(d) == meta[d] # None /\ meta[d].measured

\* What the sweep of p looks at.
Candidate(p) == Head(plan[p])[1]

\* The file of its domain is open, and nobody but p may have unlinked it.
Opened(p) ==
  \/ pc[p] \in {"try", "measure", "shared"}
  \/ pc[p] = "discard" /\ op[p] = "acquire"
  \/ Leases(p)

Pcs == SweepPcs \cup {"idle", "manager", "open", "try", "measure", "shared", "record", "leased",
                     "reopen", "retry", "refresh", "discard", "write"}

\* The types the arguments below need; a plan is only ever looked at as Candidate.
CacheTypeOK ==
  /\ manager \in Procs \cup {None}
  /\ active \in [Domains -> Inodes \cup {0}]
  /\ meta \in [Domains -> {None} \cup [bytes: Nat, measured: BOOLEAN]]
  /\ size \in [Domains -> Nat]
  /\ pc \in [Procs -> Pcs]
  /\ op \in [Procs -> {None, "acquire", "release", "prune", "select", "inspect"}]
  /\ dom \in [Procs -> Domains \cup {None}]
  /\ fd \in [Procs -> Inodes \cup {0}]
  /\ known \in [Procs -> Nat]
  /\ DOMAIN plan = Procs /\ DOMAIN victim = Procs
  /\ raced \in BOOLEAN

\* Where a process is tells what it does, and that it has a domain to do it to.
TaskInv ==
  \A p \in Procs :
    /\ pc[p] \in {"open", "try", "measure", "shared", "record", "leased"} => op[p] = "acquire"
    /\ pc[p] \in {"reopen", "retry", "refresh", "write"} => op[p] = "release"
    /\ pc[p] = "discard" => op[p] \in {"acquire", "release"}
    /\ pc[p] # "idle" /\ op[p] \in {"acquire", "release"} => dom[p] \in Domains

\* Acquisition and pruning happen under the manager lock.
ManagerInv ==
  \A p \in Procs :
    \/ pc[p] \in {"open", "try", "measure", "shared", "sweep", "unlink", "recount", "record"}
    \/ pc[p] = "collect" /\ op[p] # "inspect"
    \/ pc[p] = "discard" /\ op[p] = "acquire"
    => manager = p

\* What makes p a member of Exclusive(i), and of Shared(i).
Locks(p, i) == \/ fd[p] = i /\ pc[p] \in {"measure", "refresh", "discard", "write"}
               \/ victim[p] = i /\ pc[p] = "unlink"
Holds(p, i) == fd[p] = i /\ Leases(p)

\* An exclusive lock excludes every other lock of its inode.
LockInv ==
  \A i \in Inodes, p, q \in Procs : Locks(p, i) => (Locks(q, i) => q = p) /\ ~Holds(q, i)

\* The open file of an acquired domain is the one its path names.
LeaseInv == \A p \in Procs : Opened(p) => fd[p] # 0 /\ active[dom[p]] = fd[p]

\* The history tells every overlap of a release's measurement with a use.
RacedInv == ~raced => RefreshOnlyWhenIdle

\* As long as there was none: a measured record, and a size about to be
\* recorded, is at least what the domain holds, and no domain in use has one.
RecordInv ==
  ~raced => /\ \A d \in Domains : Measured(d) => size[d] <= meta[d].bytes
            /\ \A p \in Procs : pc[p] = "leased" => ~Measured(dom[p])
            /\ \A p \in Procs : pc[p] = "write" => size[dom[p]] <= known[p]

CInv ==
  /\ CacheTypeOK /\ TaskInv /\ ManagerInv /\ LockInv /\ LeaseInv /\ PruneSparesLeased
  /\ RacedInv /\ RecordInv

\* The worker is a leased task of the server, alone, and the flag tells of it.
QueueInv ==
  /\ serving \subseteq Procs /\ workers \subseteq serving
  /\ \A p, q \in workers : p = q
  /\ \A p \in workers : pc[p] = "leased"
  /\ inFlight \in BOOLEAN /\ (inFlight <=> workers # {})
  /\ pending \cup batch # {} => inFlight

-----------------------------------------------------------------------------
\* The cache as a system of its own: what any process does with it.
Move(p) ==
  \/ \E d \in Domains : Acquire(p, d) \/ PruneSelected(p, d)
  \/ Steps(p) \/ Fails(p) \/ RefreshFails(p)
  \/ Build(p) \/ Release(p) \/ Prune(p) \/ Inspect(p) \/ Die(p)

CacheNext == (\E p \in Procs : Move(p)) \/ ServerDies

\* Whatever the queue does, the cache makes a step of its own or none.
LEMMA QueueMovesCache == [PrewarmNext]_prewarmVars => [CacheNext]_vars
BY DEF PrewarmNext, prewarmVars, vars, CacheNext, Move, Analyse, CacheStep, CacheStepFails,
   PrewarmStep, OtherUse, NothingToWarm, SpawnPrewarm, TakeBatch, Prewarm

\* A function takes at most as many values as it has arguments.
LEMMA FewValues ==
    ASSUME NEW S, IsFiniteSet(S), NEW f, DOMAIN f = S
    PROVE  IsFiniteSet(Range(f)) /\ Cardinality(Range(f)) <= Cardinality(S)
<1>1. [x \in S |-> f[x]] \in Surjection(S, Range(f))
  BY DEF Range, Surjection
<1> QED
  BY <1>1, FS_Surjection

\* open_active_lock finds an inode for a new file: fewer are in use than there are.
LEMMA FreshInodeExists == CacheTypeOK => FreshInode \in Inodes
<1> SUFFICES ASSUME CacheTypeOK PROVE FreshInode \in Inodes
  OBVIOUS
<1> DEFINE A == Range(active)
           F == Range(fd)
           V == Range(victim)
<1>1. IsFiniteSet(A) /\ Cardinality(A) <= Cardinality(Domains)
  BY FewValues, CacheAssumption DEF CacheTypeOK
<1>2. IsFiniteSet(F) /\ Cardinality(F) <= Cardinality(Procs)
  BY FewValues, CacheAssumption DEF CacheTypeOK
<1>3. IsFiniteSet(V) /\ Cardinality(V) <= Cardinality(Procs)
  BY FewValues, CacheAssumption DEF CacheTypeOK
<1> HIDE DEF A, F, V
<1>4. /\ Cardinality(Procs) \in Nat /\ Cardinality(Domains) \in Nat
      /\ Cardinality(A) \in Nat /\ Cardinality(F) \in Nat /\ Cardinality(V) \in Nat
  BY <1>1, <1>2, <1>3, FS_CardinalityType, CacheAssumption
<1>5. IsFiniteSet(A \cup F) /\ Cardinality(A \cup F) \in Nat
      /\ Cardinality(A \cup F) <= Cardinality(A) + Cardinality(F)
  <2>1. IsFiniteSet(A \cap F) /\ Cardinality(A \cap F) \in Nat
    BY <1>1, FS_Subset, FS_CardinalityType
  <2>2. /\ IsFiniteSet(A \cup F) /\ Cardinality(A \cup F) \in Nat
        /\ Cardinality(A \cup F) = Cardinality(A) + Cardinality(F) - Cardinality(A \cap F)
    BY <1>1, <1>2, FS_Union, FS_CardinalityType, Zenon
  <2> QED
    BY <2>1, <2>2, <1>4
<1>6. IsFiniteSet(A \cup F \cup V) /\ Cardinality(A \cup F \cup V) \in Nat
      /\ Cardinality(A \cup F \cup V) <= Cardinality(A \cup F) + Cardinality(V)
  <2>1. IsFiniteSet((A \cup F) \cap V) /\ Cardinality((A \cup F) \cap V) \in Nat
    BY <1>3, FS_Subset, FS_CardinalityType
  <2>2. /\ IsFiniteSet(A \cup F \cup V) /\ Cardinality(A \cup F \cup V) \in Nat
        /\ Cardinality(A \cup F \cup V)
             = Cardinality(A \cup F) + Cardinality(V) - Cardinality((A \cup F) \cap V)
    BY <1>3, <1>5, FS_Union, FS_CardinalityType, Zenon
  <2> QED
    BY <2>1, <2>2, <1>4, <1>5
<1>7. ~(Inodes \subseteq A \cup F \cup V)
  <2> SUFFICES ASSUME Inodes \subseteq A \cup F \cup V PROVE FALSE
    OBVIOUS
  <2>1. IsFiniteSet(Inodes) /\ Cardinality(Inodes) <= Cardinality(A \cup F \cup V)
    BY <1>6, FS_Subset
  <2>2. Cardinality(Inodes) \in Nat
    BY <2>1, FS_CardinalityType
  <2> QED
    BY <2>1, <2>2, <1>1, <1>2, <1>3, <1>4, <1>5, <1>6, CacheAssumption
<1>8. PICK i \in Inodes : i \notin A /\ i \notin F /\ i \notin V
  BY <1>7
<1>9. (\A d \in Domains : active[d] # i) /\ (\A p \in Procs : fd[p] # i /\ victim[p] # i)
  BY <1>8 DEF A, F, V, Range, CacheTypeOK
<1> QED
  BY <1>9 DEF FreshInode

\* open_active_lock opens the file the path names, or a new one.
LEMMA OpensAnInode ==
    ASSUME CacheTypeOK, NEW d \in Domains
    PROVE  OpenedInode(d) \in Inodes /\ (active[d] # 0 => OpenedInode(d) = active[d])
BY FreshInodeExists DEF OpenedInode, CacheTypeOK

\* An idle inode is locked by nobody; one without an exclusive lock by no measurer.
LEMMA LocksAreHeld ==
    ASSUME NEW i
    PROVE  /\ Unlocked(i) <=> \A p \in Procs : ~Locks(p, i) /\ ~Holds(p, i)
           /\ Exclusive(i) = {} <=> \A p \in Procs : ~Locks(p, i)
BY DEF Unlocked, Exclusive, Shared, Locks, Holds

\* Steps that can end the operation, by what they do when they do not: a
\* sweep gets its plan, an acquisition goes on to its record.
Ends(p) == Idle(p) /\ UNCHANGED <<files, raced>>

PlansSweep(p) ==
  /\ pc[p] = "collect" /\ op[p] # "inspect" /\ pc' = Set(pc, p, "sweep")
  /\ \E x : plan' = Set(plan, p, x)
  /\ UNCHANGED <<files, raced, manager, task, fd, victim>>

EndsAcquire(p) ==
  /\ pc[p] = "recount" /\ op[p] = "acquire" /\ pc' = Set(pc, p, "record")
  /\ UNCHANGED <<files, raced, manager, task, fd, sweep>>

\* collect_entries only reads: an inspection ends, a sweep gets its plan.
LEMMA CollectOnlyReads ==
    ASSUME NEW p \in Procs, Collect(p) PROVE Ends(p) \/ PlansSweep(p)
<1> DEFINE found == SelectSeq(lru, LAMBDA d : d \in present /\ (op[p] = "select" => d = dom[p]))
           entries == [i \in DOMAIN found |-> <<found[i], EntryBytes(p, found[i])>>]
<1>1. /\ pc[p] = "collect" /\ UNCHANGED <<files, raced>>
      /\ op[p] = "inspect" => Idle(p)
      /\ op[p] # "inspect" => /\ plan' = Set(plan, p, entries)
                             /\ pc' = Set(pc, p, "sweep")
                             /\ UNCHANGED <<manager, task, fd, victim>>
  BY Zenon DEF Collect
<1> HIDE DEF entries
<1>2. CASE op[p] = "inspect"
  BY <1>1, <1>2 DEF Ends
<1>3. CASE op[p] # "inspect"
  <2>1. \E x : plan' = Set(plan, p, x)
    BY <1>1, <1>3, Zenon
  <2> QED
    BY <1>1, <1>3, <2>1 DEF PlansSweep
<1> QED
  BY <1>2, <1>3

\* The steps of a process, with those that end an operation told apart.
LEMMA MoveKinds ==
    ASSUME NEW p \in Procs, Move(p)
    PROVE  \/ \E d \in Domains : Acquire(p, d) \/ PruneSelected(p, d)
           \/ LockManager(p) \/ OpenDomain(p) \/ TryLock(p) \/ MeasureDomain(p) \/ Discard(p)
           \/ LockShared(p) \/ Record(p) \/ Build(p) \/ Release(p) \/ Reopen(p) \/ Retry(p)
           \/ Refresh(p) \/ WriteMeasured(p) \/ RefreshFails(p) \/ Prune(p) \/ Inspect(p)
           \/ PlansSweep(p) \/ SweepEnds(p) \/ EndsAcquire(p) \/ SweepNext(p) \/ UnlinkEntry(p)
           \/ RemoveDirectory(p) \/ Ends(p)
<1>1. Die(p) \/ Fails(p) => Ends(p)
  BY DEF Die, Fails, Ends
<1>2. Recount(p) => Ends(p) \/ EndsAcquire(p)
  BY DEF Recount, Ends, EndsAcquire
<1> QED
  BY <1>1, <1>2, CollectOnlyReads DEF Move, Steps

\* A step of one process leaves every other process where it is.
LEMMA OthersStay ==
    ASSUME CacheTypeOK, NEW p \in Procs, Move(p) PROVE \A q \in Procs \ {p} : pc'[q] = pc[q]
BY MoveKinds, SMTT(30)
   DEF CacheTypeOK, Acquire, PruneSelected, LockManager, OpenDomain, TryLock, MeasureDomain,
   MeasureAndEnforce, Discard, LockShared, Record, Build, Release, Reopen, Retry, Refresh,
   WriteMeasured, RefreshFails, LeaveDomain, Prune, Inspect, PlansSweep, SweepEnds, EndsAcquire,
   SweepNext, UnlinkEntry, RemoveDirectory, Ends, Idle, Set

\* Every step keeps track of what each process does.
LEMMA TaskStep ==
    ASSUME CacheTypeOK, TaskInv, [CacheNext]_vars
    PROVE  TaskInv'
<1> USE CacheAssumption
    DEF CacheTypeOK, Pcs, TaskInv, SweepPcs, vars, files, sweep, task, Set, Idle
<1>1. ASSUME NEW p \in Procs, NEW d \in Domains, Acquire(p, d) \/ PruneSelected(p, d) PROVE TaskInv'
  BY <1>1 DEF Acquire, PruneSelected
<1>2. ASSUME NEW p \in Procs, LockManager(p) PROVE TaskInv'
  BY <1>2 DEF LockManager
<1>3. ASSUME NEW p \in Procs, OpenDomain(p) PROVE TaskInv'
  BY <1>3 DEF OpenDomain
<1>4. ASSUME NEW p \in Procs, TryLock(p) PROVE TaskInv'
  BY <1>4 DEF TryLock
<1>5. ASSUME NEW p \in Procs, MeasureDomain(p) PROVE TaskInv'
  BY <1>5 DEF MeasureDomain, MeasureAndEnforce
<1>6. ASSUME NEW p \in Procs, Discard(p) PROVE TaskInv'
  BY <1>6 DEF Discard
<1>7. ASSUME NEW p \in Procs, LockShared(p) PROVE TaskInv'
  BY <1>7 DEF LockShared
<1>8. ASSUME NEW p \in Procs, Record(p) PROVE TaskInv'
  BY <1>8 DEF Record
<1>9. ASSUME NEW p \in Procs, Build(p) PROVE TaskInv'
  BY <1>9 DEF Build
<1>10. ASSUME NEW p \in Procs, Release(p) PROVE TaskInv'
  BY <1>10 DEF Release
<1>11. ASSUME NEW p \in Procs, Reopen(p) PROVE TaskInv'
  BY <1>11 DEF Reopen
<1>12. ASSUME NEW p \in Procs, Retry(p) PROVE TaskInv'
  BY <1>12 DEF Retry
<1>13. ASSUME NEW p \in Procs, Refresh(p) PROVE TaskInv'
  BY <1>13 DEF Refresh, MeasureAndEnforce, LeaveDomain
<1>14. ASSUME NEW p \in Procs, WriteMeasured(p) PROVE TaskInv'
  BY <1>14 DEF WriteMeasured, LeaveDomain
<1>15. ASSUME NEW p \in Procs, RefreshFails(p) PROVE TaskInv'
  BY <1>15 DEF RefreshFails, Measures, LeaveDomain
<1>16. ASSUME NEW p \in Procs, Prune(p) \/ Inspect(p) PROVE TaskInv'
  BY <1>16 DEF Prune, Inspect
<1>17. ASSUME NEW p \in Procs, PlansSweep(p) PROVE TaskInv'
  BY <1>17 DEF PlansSweep
<1>18. ASSUME NEW p \in Procs, SweepEnds(p) PROVE TaskInv'
  BY <1>18 DEF SweepEnds
<1>19. ASSUME NEW p \in Procs, EndsAcquire(p) PROVE TaskInv'
  BY <1>19 DEF EndsAcquire
<1>20. ASSUME NEW p \in Procs, SweepNext(p) PROVE TaskInv'
  BY <1>20 DEF SweepNext
<1>21. ASSUME NEW p \in Procs, UnlinkEntry(p) PROVE TaskInv'
  BY <1>21 DEF UnlinkEntry
<1>22. ASSUME NEW p \in Procs, RemoveDirectory(p) PROVE TaskInv'
  BY <1>22 DEF RemoveDirectory
<1>23. ASSUME NEW p \in Procs, Ends(p) PROVE TaskInv'
  BY <1>23 DEF Ends
<1>24. CASE ServerDies
  BY <1>24 DEF ServerDies
<1>25. CASE UNCHANGED vars
  BY <1>25 DEF vars
<1> QED
  BY MoveKinds, <1>1, <1>2, <1>3, <1>4, <1>5, <1>6, <1>7, <1>8, <1>9, <1>10, <1>11, <1>12,
     <1>13, <1>14, <1>15, <1>16, <1>17, <1>18, <1>19, <1>20, <1>21, <1>22, <1>23, <1>24, <1>25
     DEF CacheNext

\* Every step preserves the types.
LEMMA CacheTypeStep ==
    ASSUME CacheTypeOK, TaskInv, [CacheNext]_vars
    PROVE  CacheTypeOK'
<1> USE CacheAssumption, OpensAnInode
    DEF CacheTypeOK, Pcs, TaskInv, SweepPcs, vars, files, sweep, task, Set, Idle
<1>1. ASSUME NEW p \in Procs, NEW d \in Domains, Acquire(p, d) \/ PruneSelected(p, d) PROVE CacheTypeOK'
  BY <1>1 DEF Acquire, PruneSelected
<1>2. ASSUME NEW p \in Procs, LockManager(p) PROVE CacheTypeOK'
  BY <1>2 DEF LockManager
<1>3. ASSUME NEW p \in Procs, OpenDomain(p) PROVE CacheTypeOK'
  BY <1>3 DEF OpenDomain
<1>4. ASSUME NEW p \in Procs, TryLock(p) PROVE CacheTypeOK'
  BY <1>4 DEF TryLock
<1>5. ASSUME NEW p \in Procs, MeasureDomain(p) PROVE CacheTypeOK'
  BY <1>5 DEF MeasureDomain, MeasureAndEnforce
<1>6. ASSUME NEW p \in Procs, Discard(p) PROVE CacheTypeOK'
  BY <1>6 DEF Discard
<1>7. ASSUME NEW p \in Procs, LockShared(p) PROVE CacheTypeOK'
  BY <1>7 DEF LockShared
<1>8. ASSUME NEW p \in Procs, Record(p) PROVE CacheTypeOK'
  BY <1>8 DEF Record
<1>9. ASSUME NEW p \in Procs, Build(p) PROVE CacheTypeOK'
  BY <1>9 DEF Build
<1>10. ASSUME NEW p \in Procs, Release(p) PROVE CacheTypeOK'
  BY <1>10 DEF Release
<1>11. ASSUME NEW p \in Procs, Reopen(p) PROVE CacheTypeOK'
  BY <1>11 DEF Reopen
<1>12. ASSUME NEW p \in Procs, Retry(p) PROVE CacheTypeOK'
  BY <1>12 DEF Retry
<1>13. ASSUME NEW p \in Procs, Refresh(p) PROVE CacheTypeOK'
  BY <1>13 DEF Refresh, MeasureAndEnforce, LeaveDomain
<1>14. ASSUME NEW p \in Procs, WriteMeasured(p) PROVE CacheTypeOK'
  <2>1. dom[p] \in Domains /\ [bytes |-> known[p], measured |-> TRUE] \in [bytes: Nat, measured: BOOLEAN]
    BY <1>14 DEF WriteMeasured
  <2>2. meta' \in [Domains -> {None} \cup [bytes: Nat, measured: BOOLEAN]]
    <3>1. \/ meta' = meta
          \/ meta' = [meta EXCEPT ![dom[p]] = [bytes |-> known[p], measured |-> TRUE]]
      BY <1>14 DEF WriteMeasured
    <3>2. PICK m \in [bytes: Nat, measured: BOOLEAN] : meta' = meta \/ meta' = [meta EXCEPT ![dom[p]] = m]
      BY <2>1, <3>1, Zenon
    <3> QED
      BY <2>1, <3>2
  <2> QED
    BY <1>14, <2>2 DEF WriteMeasured, LeaveDomain
<1>15. ASSUME NEW p \in Procs, RefreshFails(p) PROVE CacheTypeOK'
  BY <1>15 DEF RefreshFails, Measures, LeaveDomain
<1>16. ASSUME NEW p \in Procs, Prune(p) \/ Inspect(p) PROVE CacheTypeOK'
  BY <1>16 DEF Prune, Inspect
<1>17. ASSUME NEW p \in Procs, PlansSweep(p) PROVE CacheTypeOK'
  BY <1>17 DEF PlansSweep
<1>18. ASSUME NEW p \in Procs, SweepEnds(p) PROVE CacheTypeOK'
  BY <1>18 DEF SweepEnds
<1>19. ASSUME NEW p \in Procs, EndsAcquire(p) PROVE CacheTypeOK'
  BY <1>19 DEF EndsAcquire
<1>20. ASSUME NEW p \in Procs, SweepNext(p) PROVE CacheTypeOK'
  <2>1. active' \in [Domains -> Inodes \cup {0}]
    <3>1. active' = Set(active, Candidate(p), OpenedInode(Candidate(p)))
      BY <1>20 DEF SweepNext, Candidate
    <3>2. CASE Candidate(p) \in Domains
      BY <3>1, <3>2
    <3>3. CASE Candidate(p) \notin Domains
      BY <3>1, <3>3
    <3> QED
      BY <3>2, <3>3
  <2>2. DOMAIN plan' = Procs /\ DOMAIN victim' = Procs
    BY <1>20 DEF SweepNext
  <2>3. pc' \in [Procs -> Pcs]
    BY <1>20 DEF SweepNext
  <2> QED
    BY <1>20, <2>1, <2>2, <2>3 DEF SweepNext
<1>21. ASSUME NEW p \in Procs, UnlinkEntry(p) PROVE CacheTypeOK'
  BY <1>21 DEF UnlinkEntry
<1>22. ASSUME NEW p \in Procs, RemoveDirectory(p) PROVE CacheTypeOK'
  BY <1>22 DEF RemoveDirectory
<1>23. ASSUME NEW p \in Procs, Ends(p) PROVE CacheTypeOK'
  BY <1>23 DEF Ends
<1>24. CASE ServerDies
  BY <1>24 DEF ServerDies
<1>25. CASE UNCHANGED vars
  BY <1>25 DEF vars
<1> QED
  BY MoveKinds, <1>1, <1>2, <1>3, <1>4, <1>5, <1>6, <1>7, <1>8, <1>9, <1>10, <1>11, <1>12,
     <1>13, <1>14, <1>15, <1>16, <1>17, <1>18, <1>19, <1>20, <1>21, <1>22, <1>23, <1>24, <1>25
     DEF CacheNext

\* Every step sweeps and acquires under the manager lock.
LEMMA ManagerStep ==
    ASSUME CacheTypeOK, TaskInv, ManagerInv, [CacheNext]_vars
    PROVE  ManagerInv'
<1> USE CacheAssumption
    DEF CacheTypeOK, Pcs, TaskInv, ManagerInv, SweepPcs, vars, files, sweep, task, Set, Idle
<1>1. ASSUME NEW p \in Procs, NEW d \in Domains, Acquire(p, d) \/ PruneSelected(p, d) PROVE ManagerInv'
  BY <1>1 DEF Acquire, PruneSelected
<1>2. ASSUME NEW p \in Procs, LockManager(p) PROVE ManagerInv'
  BY <1>2 DEF LockManager
<1>3. ASSUME NEW p \in Procs, OpenDomain(p) PROVE ManagerInv'
  BY <1>3 DEF OpenDomain
<1>4. ASSUME NEW p \in Procs, TryLock(p) PROVE ManagerInv'
  BY <1>4 DEF TryLock
<1>5. ASSUME NEW p \in Procs, MeasureDomain(p) PROVE ManagerInv'
  BY <1>5 DEF MeasureDomain, MeasureAndEnforce
<1>6. ASSUME NEW p \in Procs, Discard(p) PROVE ManagerInv'
  BY <1>6 DEF Discard
<1>7. ASSUME NEW p \in Procs, LockShared(p) PROVE ManagerInv'
  BY <1>7 DEF LockShared
<1>8. ASSUME NEW p \in Procs, Record(p) PROVE ManagerInv'
  BY <1>8 DEF Record
<1>9. ASSUME NEW p \in Procs, Build(p) PROVE ManagerInv'
  BY <1>9 DEF Build
<1>10. ASSUME NEW p \in Procs, Release(p) PROVE ManagerInv'
  BY <1>10 DEF Release
<1>11. ASSUME NEW p \in Procs, Reopen(p) PROVE ManagerInv'
  BY <1>11 DEF Reopen
<1>12. ASSUME NEW p \in Procs, Retry(p) PROVE ManagerInv'
  BY <1>12 DEF Retry
<1>13. ASSUME NEW p \in Procs, Refresh(p) PROVE ManagerInv'
  BY <1>13 DEF Refresh, MeasureAndEnforce, LeaveDomain
<1>14. ASSUME NEW p \in Procs, WriteMeasured(p) PROVE ManagerInv'
  BY <1>14 DEF WriteMeasured, LeaveDomain
<1>15. ASSUME NEW p \in Procs, RefreshFails(p) PROVE ManagerInv'
  BY <1>15 DEF RefreshFails, Measures, LeaveDomain
<1>16. ASSUME NEW p \in Procs, Prune(p) \/ Inspect(p) PROVE ManagerInv'
  BY <1>16 DEF Prune, Inspect
<1>17. ASSUME NEW p \in Procs, PlansSweep(p) PROVE ManagerInv'
  BY <1>17 DEF PlansSweep
<1>18. ASSUME NEW p \in Procs, SweepEnds(p) PROVE ManagerInv'
  BY <1>18 DEF SweepEnds
<1>19. ASSUME NEW p \in Procs, EndsAcquire(p) PROVE ManagerInv'
  BY <1>19 DEF EndsAcquire
<1>20. ASSUME NEW p \in Procs, SweepNext(p) PROVE ManagerInv'
  BY <1>20 DEF SweepNext
<1>21. ASSUME NEW p \in Procs, UnlinkEntry(p) PROVE ManagerInv'
  BY <1>21 DEF UnlinkEntry
<1>22. ASSUME NEW p \in Procs, RemoveDirectory(p) PROVE ManagerInv'
  BY <1>22 DEF RemoveDirectory
<1>23. ASSUME NEW p \in Procs, Ends(p) PROVE ManagerInv'
  BY <1>23 DEF Ends
<1>24. CASE ServerDies
  BY <1>24 DEF ServerDies
<1>25. CASE UNCHANGED vars
  BY <1>25 DEF vars
<1> QED
  BY MoveKinds, <1>1, <1>2, <1>3, <1>4, <1>5, <1>6, <1>7, <1>8, <1>9, <1>10, <1>11, <1>12,
     <1>13, <1>14, <1>15, <1>16, <1>17, <1>18, <1>19, <1>20, <1>21, <1>22, <1>23, <1>24, <1>25
     DEF CacheNext

\* Every step locks exclusively only what nobody holds.
LEMMA LockStep ==
    ASSUME CacheTypeOK, TaskInv, ManagerInv, LockInv, [CacheNext]_vars
    PROVE  LockInv'
<1> USE CacheAssumption, LocksAreHeld
    DEF CacheTypeOK, Pcs, TaskInv, ManagerInv, LockInv, Locks, Holds, Leases, SweepPcs, vars, files,
        sweep, task, Set, Idle
<1>1. ASSUME NEW p \in Procs, NEW d \in Domains, Acquire(p, d) \/ PruneSelected(p, d) PROVE LockInv'
  <2>1. ASSUME NEW q \in Procs, NEW i
        PROVE  (Locks(q, i)' => Locks(q, i)) /\ (Holds(q, i)' => Holds(q, i))
    BY <1>1 DEF Acquire, PruneSelected
  <2> HIDE DEF Locks, Holds
  <2> QED
    BY <2>1
<1>2. ASSUME NEW p \in Procs, LockManager(p) PROVE LockInv'
  BY <1>2 DEF LockManager
<1>3. ASSUME NEW p \in Procs, OpenDomain(p) PROVE LockInv'
  BY <1>3 DEF OpenDomain
<1>4. ASSUME NEW p \in Procs, TryLock(p) PROVE LockInv'
  BY <1>4 DEF TryLock
<1>5. ASSUME NEW p \in Procs, MeasureDomain(p) PROVE LockInv'
  BY <1>5 DEF MeasureDomain, MeasureAndEnforce
<1>6. ASSUME NEW p \in Procs, Discard(p) PROVE LockInv'
  <2>1. ASSUME NEW q \in Procs, NEW i
        PROVE  (Locks(q, i)' => Locks(q, i)) /\ (Holds(q, i)' => Holds(q, i))
    BY <1>6 DEF Discard
  <2> HIDE DEF Locks, Holds
  <2> QED
    BY <2>1
<1>7. ASSUME NEW p \in Procs, LockShared(p) PROVE LockInv'
  <2>1. \A q \in Procs : ~Locks(q, fd[p])
    BY <1>7 DEF LockShared, Exclusive
  <2> QED
    BY <1>7, <2>1 DEF LockShared
<1>8. ASSUME NEW p \in Procs, Record(p) PROVE LockInv'
  BY <1>8 DEF Record
<1>9. ASSUME NEW p \in Procs, Build(p) PROVE LockInv'
  BY <1>9 DEF Build
<1>10. ASSUME NEW p \in Procs, Release(p) PROVE LockInv'
  BY <1>10 DEF Release
<1>11. ASSUME NEW p \in Procs, Reopen(p) PROVE LockInv'
  BY <1>11 DEF Reopen
<1>12. ASSUME NEW p \in Procs, Retry(p) PROVE LockInv'
  BY <1>12 DEF Retry
<1>13. ASSUME NEW p \in Procs, Refresh(p) PROVE LockInv'
  BY <1>13 DEF Refresh, MeasureAndEnforce, LeaveDomain
<1>14. ASSUME NEW p \in Procs, WriteMeasured(p) PROVE LockInv'
  BY <1>14 DEF WriteMeasured, LeaveDomain
<1>15. ASSUME NEW p \in Procs, RefreshFails(p) PROVE LockInv'
  <2>1. ASSUME NEW q \in Procs, NEW i
        PROVE  (Locks(q, i)' => Locks(q, i)) /\ (Holds(q, i)' => Holds(q, i))
    BY <1>15 DEF RefreshFails, LeaveDomain
  <2> HIDE DEF Locks, Holds
  <2> QED
    BY <2>1
<1>16. ASSUME NEW p \in Procs, Prune(p) \/ Inspect(p) PROVE LockInv'
  BY <1>16 DEF Prune, Inspect
<1>17. ASSUME NEW p \in Procs, PlansSweep(p) PROVE LockInv'
  <2>1. ASSUME NEW q \in Procs, NEW i
        PROVE  (Locks(q, i)' => Locks(q, i)) /\ (Holds(q, i)' => Holds(q, i))
    BY <1>17 DEF PlansSweep
  <2> HIDE DEF Locks, Holds
  <2> QED
    BY <2>1
<1>18. ASSUME NEW p \in Procs, SweepEnds(p) PROVE LockInv'
  BY <1>18 DEF SweepEnds
<1>19. ASSUME NEW p \in Procs, EndsAcquire(p) PROVE LockInv'
  BY <1>19 DEF EndsAcquire
<1>20. ASSUME NEW p \in Procs, SweepNext(p) PROVE LockInv'
  BY <1>20 DEF SweepNext
<1>21. ASSUME NEW p \in Procs, UnlinkEntry(p) PROVE LockInv'
  <2>1. ASSUME NEW q \in Procs, NEW i
        PROVE  (Locks(q, i)' => Locks(q, i)) /\ (Holds(q, i)' => Holds(q, i))
    BY <1>21 DEF UnlinkEntry
  <2> HIDE DEF Locks, Holds
  <2> QED
    BY <2>1
<1>22. ASSUME NEW p \in Procs, RemoveDirectory(p) PROVE LockInv'
  BY <1>22 DEF RemoveDirectory
<1>23. ASSUME NEW p \in Procs, Ends(p) PROVE LockInv'
  BY <1>23 DEF Ends
<1>24. CASE ServerDies
  <2>1. ASSUME NEW q \in Procs, NEW i
        PROVE  (Locks(q, i)' => Locks(q, i)) /\ (Holds(q, i)' => Holds(q, i))
    BY <1>24 DEF ServerDies
  <2> HIDE DEF Locks, Holds
  <2> QED
    BY <2>1
<1>25. CASE UNCHANGED vars
  BY <1>25 DEF vars
<1> QED
  BY MoveKinds, <1>1, <1>2, <1>3, <1>4, <1>5, <1>6, <1>7, <1>8, <1>9, <1>10, <1>11, <1>12,
     <1>13, <1>14, <1>15, <1>16, <1>17, <1>18, <1>19, <1>20, <1>21, <1>22, <1>23, <1>24, <1>25
     DEF CacheNext

\* Every step leaves the file of an acquired domain in place.
LEMMA LeaseStep ==
    ASSUME CacheTypeOK, TaskInv, ManagerInv, LeaseInv, PruneSparesLeased, [CacheNext]_vars
    PROVE  LeaseInv'
<1> USE CacheAssumption, OpensAnInode
    DEF CacheTypeOK, Pcs, TaskInv, ManagerInv, LeaseInv, PruneSparesLeased, Opened, Leases, SweepPcs,
        vars, files, sweep, task, Set, Idle
<1>1. ASSUME NEW p \in Procs, NEW d \in Domains, Acquire(p, d) \/ PruneSelected(p, d) PROVE LeaseInv'
  BY <1>1 DEF Acquire, PruneSelected
<1>2. ASSUME NEW p \in Procs, LockManager(p) PROVE LeaseInv'
  BY <1>2 DEF LockManager
<1>3. ASSUME NEW p \in Procs, OpenDomain(p) PROVE LeaseInv'
  BY <1>3 DEF OpenDomain
<1>4. ASSUME NEW p \in Procs, TryLock(p) PROVE LeaseInv'
  BY <1>4 DEF TryLock
<1>5. ASSUME NEW p \in Procs, MeasureDomain(p) PROVE LeaseInv'
  BY <1>5 DEF MeasureDomain, MeasureAndEnforce
<1>6. ASSUME NEW p \in Procs, Discard(p) PROVE LeaseInv'
  BY <1>6 DEF Discard
<1>7. ASSUME NEW p \in Procs, LockShared(p) PROVE LeaseInv'
  BY <1>7 DEF LockShared
<1>8. ASSUME NEW p \in Procs, Record(p) PROVE LeaseInv'
  BY <1>8 DEF Record
<1>9. ASSUME NEW p \in Procs, Build(p) PROVE LeaseInv'
  BY <1>9 DEF Build
<1>10. ASSUME NEW p \in Procs, Release(p) PROVE LeaseInv'
  BY <1>10 DEF Release
<1>11. ASSUME NEW p \in Procs, Reopen(p) PROVE LeaseInv'
  BY <1>11 DEF Reopen
<1>12. ASSUME NEW p \in Procs, Retry(p) PROVE LeaseInv'
  BY <1>12 DEF Retry
<1>13. ASSUME NEW p \in Procs, Refresh(p) PROVE LeaseInv'
  BY <1>13 DEF Refresh, MeasureAndEnforce, LeaveDomain
<1>14. ASSUME NEW p \in Procs, WriteMeasured(p) PROVE LeaseInv'
  BY <1>14 DEF WriteMeasured, LeaveDomain
<1>15. ASSUME NEW p \in Procs, RefreshFails(p) PROVE LeaseInv'
  BY <1>15 DEF RefreshFails, Measures, LeaveDomain
<1>16. ASSUME NEW p \in Procs, Prune(p) \/ Inspect(p) PROVE LeaseInv'
  BY <1>16 DEF Prune, Inspect
<1>17. ASSUME NEW p \in Procs, PlansSweep(p) PROVE LeaseInv'
  BY <1>17 DEF PlansSweep
<1>18. ASSUME NEW p \in Procs, SweepEnds(p) PROVE LeaseInv'
  BY <1>18 DEF SweepEnds
<1>19. ASSUME NEW p \in Procs, EndsAcquire(p) PROVE LeaseInv'
  BY <1>19 DEF EndsAcquire
<1>20. ASSUME NEW p \in Procs, SweepNext(p) PROVE LeaseInv'
  BY <1>20 DEF SweepNext
<1>21. ASSUME NEW p \in Procs, UnlinkEntry(p) PROVE LeaseInv'
  <2> SUFFICES ASSUME NEW q \in Procs, Opened(q)'
               PROVE  fd'[q] # 0 /\ active'[dom'[q]] = fd'[q]
    OBVIOUS
  <2>1. Opened(q) /\ dom[q] \in Domains /\ UNCHANGED <<fd, dom>>
    BY <1>21 DEF UnlinkEntry
  <2>2. fd[q] # 0 /\ active[dom[q]] = fd[q]
    BY <2>1
  <2>3. Candidate(p) # dom[q]
    <3>1. CASE Leases(q)
      BY <1>21, <3>1 DEF UnlinkEntry, Candidate
    <3>2. CASE ~Leases(q)
      BY <1>21, <2>1, <3>2 DEF UnlinkEntry
    <3> QED
      BY <3>1, <3>2
  <2>4. active'[dom[q]] = active[dom[q]]
    BY <1>21, <2>1, <2>3 DEF UnlinkEntry, Candidate
  <2> QED
    BY <2>1, <2>2, <2>4
<1>22. ASSUME NEW p \in Procs, RemoveDirectory(p) PROVE LeaseInv'
  BY <1>22 DEF RemoveDirectory
<1>23. ASSUME NEW p \in Procs, Ends(p) PROVE LeaseInv'
  BY <1>23 DEF Ends
<1>24. CASE ServerDies
  BY <1>24 DEF ServerDies
<1>25. CASE UNCHANGED vars
  BY <1>25 DEF vars
<1> QED
  BY MoveKinds, <1>1, <1>2, <1>3, <1>4, <1>5, <1>6, <1>7, <1>8, <1>9, <1>10, <1>11, <1>12,
     <1>13, <1>14, <1>15, <1>16, <1>17, <1>18, <1>19, <1>20, <1>21, <1>22, <1>23, <1>24, <1>25
     DEF CacheNext

\* Every step of a sweep leaves what anybody leases alone.
LEMMA SpareStep ==
    ASSUME CacheTypeOK, TaskInv, ManagerInv, LeaseInv, PruneSparesLeased, [CacheNext]_vars
    PROVE  PruneSparesLeased'
<1> USE CacheAssumption, OpensAnInode
    DEF CacheTypeOK, Pcs, TaskInv, ManagerInv, PruneSparesLeased, Leases, SweepPcs,
        vars, files, sweep, task, Set, Idle
<1>1. ASSUME NEW p \in Procs, NEW d \in Domains, Acquire(p, d) \/ PruneSelected(p, d) PROVE PruneSparesLeased'
  BY <1>1 DEF Acquire, PruneSelected
<1>2. ASSUME NEW p \in Procs, LockManager(p) PROVE PruneSparesLeased'
  BY <1>2 DEF LockManager
<1>3. ASSUME NEW p \in Procs, OpenDomain(p) PROVE PruneSparesLeased'
  BY <1>3 DEF OpenDomain
<1>4. ASSUME NEW p \in Procs, TryLock(p) PROVE PruneSparesLeased'
  BY <1>4 DEF TryLock
<1>5. ASSUME NEW p \in Procs, MeasureDomain(p) PROVE PruneSparesLeased'
  BY <1>5 DEF MeasureDomain, MeasureAndEnforce
<1>6. ASSUME NEW p \in Procs, Discard(p) PROVE PruneSparesLeased'
  BY <1>6 DEF Discard
<1>7. ASSUME NEW p \in Procs, LockShared(p) PROVE PruneSparesLeased'
  BY <1>7 DEF LockShared
<1>8. ASSUME NEW p \in Procs, Record(p) PROVE PruneSparesLeased'
  BY <1>8 DEF Record
<1>9. ASSUME NEW p \in Procs, Build(p) PROVE PruneSparesLeased'
  BY <1>9 DEF Build
<1>10. ASSUME NEW p \in Procs, Release(p) PROVE PruneSparesLeased'
  BY <1>10 DEF Release
<1>11. ASSUME NEW p \in Procs, Reopen(p) PROVE PruneSparesLeased'
  BY <1>11 DEF Reopen
<1>12. ASSUME NEW p \in Procs, Retry(p) PROVE PruneSparesLeased'
  BY <1>12 DEF Retry
<1>13. ASSUME NEW p \in Procs, Refresh(p) PROVE PruneSparesLeased'
  BY <1>13 DEF Refresh, MeasureAndEnforce, LeaveDomain
<1>14. ASSUME NEW p \in Procs, WriteMeasured(p) PROVE PruneSparesLeased'
  BY <1>14 DEF WriteMeasured, LeaveDomain
<1>15. ASSUME NEW p \in Procs, RefreshFails(p) PROVE PruneSparesLeased'
  BY <1>15 DEF RefreshFails, Measures, LeaveDomain
<1>16. ASSUME NEW p \in Procs, Prune(p) \/ Inspect(p) PROVE PruneSparesLeased'
  BY <1>16 DEF Prune, Inspect
<1>17. ASSUME NEW p \in Procs, PlansSweep(p) PROVE PruneSparesLeased'
  BY <1>17 DEF PlansSweep
<1>18. ASSUME NEW p \in Procs, SweepEnds(p) PROVE PruneSparesLeased'
  BY <1>18 DEF SweepEnds
<1>19. ASSUME NEW p \in Procs, EndsAcquire(p) PROVE PruneSparesLeased'
  BY <1>19 DEF EndsAcquire
<1>20. ASSUME NEW p \in Procs, SweepNext(p) PROVE PruneSparesLeased'
  <2> SUFFICES ASSUME NEW r \in Procs, NEW q \in Procs, pc'[r] = "unlink", Leases(q)'
               PROVE  dom'[q] # Head(plan'[r])[1]
    OBVIOUS
  <2>1. /\ UNCHANGED <<op, dom, fd>> /\ Leases(q)
        /\ \A s \in Procs \ {p} : pc'[s] = pc[s] /\ plan'[s] = plan[s]
    BY <1>20 DEF SweepNext
  <2>2. CASE r # p
    BY <2>1, <2>2
  <2>3. CASE r = p
    <3>1. Unlocked(OpenedInode(Candidate(p))) /\ plan' = plan
      BY <1>20, <2>3 DEF SweepNext, Candidate
    <3>2. SUFFICES ASSUME dom[q] = Candidate(p) PROVE FALSE
      BY <2>1, <2>3, <3>1 DEF Candidate
    <3>3. dom[q] \in Domains /\ fd[q] # 0 /\ active[dom[q]] = fd[q]
      BY <2>1 DEF LeaseInv, Opened
    <3>4. ~Holds(q, OpenedInode(Candidate(p)))
      BY <3>1, LocksAreHeld
    <3> QED
      BY <2>1, <3>2, <3>3, <3>4 DEF Holds
  <2> QED
    BY <2>2, <2>3
<1>21. ASSUME NEW p \in Procs, UnlinkEntry(p) PROVE PruneSparesLeased'
  BY <1>21 DEF UnlinkEntry
<1>22. ASSUME NEW p \in Procs, RemoveDirectory(p) PROVE PruneSparesLeased'
  BY <1>22 DEF RemoveDirectory
<1>23. ASSUME NEW p \in Procs, Ends(p) PROVE PruneSparesLeased'
  BY <1>23 DEF Ends
<1>24. CASE ServerDies
  BY <1>24 DEF ServerDies
<1>25. CASE UNCHANGED vars
  BY <1>25 DEF vars
<1> QED
  BY MoveKinds, <1>1, <1>2, <1>3, <1>4, <1>5, <1>6, <1>7, <1>8, <1>9, <1>10, <1>11, <1>12,
     <1>13, <1>14, <1>15, <1>16, <1>17, <1>18, <1>19, <1>20, <1>21, <1>22, <1>23, <1>24, <1>25
     DEF CacheNext

\* Every step that makes a measurement and a use overlap is noted.
LEMMA RacedStep ==
    ASSUME CacheTypeOK, TaskInv, RacedInv, [CacheNext]_vars
    PROVE  RacedInv'
<1> USE CacheAssumption
    DEF CacheTypeOK, Pcs, TaskInv, RacedInv, RefreshOnlyWhenIdle, Refreshed, InUse, Measures, Leases,
        SweepPcs, vars, files, sweep, task, Set, Idle
<1>1. ASSUME NEW p \in Procs, NEW d \in Domains, Acquire(p, d) \/ PruneSelected(p, d) PROVE RacedInv'
  BY <1>1 DEF Acquire, PruneSelected
<1>2. ASSUME NEW p \in Procs, LockManager(p) PROVE RacedInv'
  BY <1>2 DEF LockManager
<1>3. ASSUME NEW p \in Procs, OpenDomain(p) PROVE RacedInv'
  BY <1>3 DEF OpenDomain
<1>4. ASSUME NEW p \in Procs, TryLock(p) PROVE RacedInv'
  BY <1>4 DEF TryLock
<1>5. ASSUME NEW p \in Procs, MeasureDomain(p) PROVE RacedInv'
  BY <1>5 DEF MeasureDomain, MeasureAndEnforce
<1>6. ASSUME NEW p \in Procs, Discard(p) PROVE RacedInv'
  BY <1>6 DEF Discard
<1>7. ASSUME NEW p \in Procs, LockShared(p) PROVE RacedInv'
  <2> SUFFICES ASSUME ~raced', NEW d \in Domains, Refreshed(d)', InUse(d)' PROVE FALSE
    OBVIOUS
  <2>1. ~raced /\ ~Refreshed(dom[p]) /\ UNCHANGED <<dom, op>> /\ pc[p] = "shared"
    BY <1>7 DEF LockShared
  <2>2. pc' = [pc EXCEPT ![p] = "collect"]
    BY <1>7 DEF LockShared
  <2>3. PICK r \in Procs : Measures(r) /\ dom[r] = d
    <3>1. PICK r \in Procs : Measures(r)' /\ dom'[r] = d
      OBVIOUS
    <3>2. Measures(r) /\ dom[r] = d
      BY <2>1, <2>2, <3>1
    <3> QED
      BY <3>2
  <2>4. PICK q \in Procs : Leases(q)' /\ dom[q] = d
    BY <2>1
  <2>5. q # p
    BY <2>1, <2>3, <2>4
  <2>6. Leases(q)
    BY <2>1, <2>2, <2>4, <2>5
  <2> QED
    BY <2>1, <2>3, <2>4, <2>6
<1>8. ASSUME NEW p \in Procs, Record(p) PROVE RacedInv'
  BY <1>8 DEF Record
<1>9. ASSUME NEW p \in Procs, Build(p) PROVE RacedInv'
  BY <1>9 DEF Build
<1>10. ASSUME NEW p \in Procs, Release(p) PROVE RacedInv'
  BY <1>10 DEF Release
<1>11. ASSUME NEW p \in Procs, Reopen(p) PROVE RacedInv'
  BY <1>11 DEF Reopen
<1>12. ASSUME NEW p \in Procs, Retry(p) PROVE RacedInv'
  <2> SUFFICES ASSUME ~raced', NEW d \in Domains, Refreshed(d)', InUse(d)' PROVE FALSE
    OBVIOUS
  <2>1. ~raced /\ UNCHANGED <<dom, op>>
    BY <1>12 DEF Retry
  <2>2. /\ \A q \in Procs \ {p} : pc'[q] = pc[q]
        /\ pc'[p] \in {"refresh", "manager"}
    BY <1>12 DEF Retry
  <2>3. PICK q \in Procs : Leases(q) /\ dom[q] = d
    <3>1. PICK q \in Procs : Leases(q)' /\ dom'[q] = d
      OBVIOUS
    <3>2. Leases(q) /\ dom[q] = d
      BY <2>1, <2>2, <3>1
    <3> QED
      BY <3>2
  <2>4. PICK r \in Procs : Measures(r)' /\ dom[r] = d
    BY <2>1
  <2>5. CASE r = p
    <3>1. pc'[p] = "refresh"
      BY <2>2, <2>4, <2>5
    <3>2. ~InUse(dom[p])
      <4> HIDE DEF InUse, Leases, Measures, Refreshed
      <4> QED
        BY <1>12, <3>1 DEF Retry
    <3> QED
      BY <2>3, <2>4, <2>5, <3>2
  <2>6. CASE r # p
    <3>1. Measures(r)
      BY <2>1, <2>2, <2>4, <2>6
    <3> QED
      BY <2>1, <2>3, <2>4, <3>1
  <2> QED
    BY <2>5, <2>6
<1>13. ASSUME NEW p \in Procs, Refresh(p) PROVE RacedInv'
  BY <1>13 DEF Refresh, MeasureAndEnforce, LeaveDomain
<1>14. ASSUME NEW p \in Procs, WriteMeasured(p) PROVE RacedInv'
  BY <1>14 DEF WriteMeasured, LeaveDomain
<1>15. ASSUME NEW p \in Procs, RefreshFails(p) PROVE RacedInv'
  BY <1>15 DEF RefreshFails, Measures, LeaveDomain
<1>16. ASSUME NEW p \in Procs, Prune(p) \/ Inspect(p) PROVE RacedInv'
  BY <1>16 DEF Prune, Inspect
<1>17. ASSUME NEW p \in Procs, PlansSweep(p) PROVE RacedInv'
  BY <1>17 DEF PlansSweep
<1>18. ASSUME NEW p \in Procs, SweepEnds(p) PROVE RacedInv'
  <2>1. /\ \A q \in Procs : (Measures(q)' => Measures(q)) /\ (Leases(q)' => Leases(q))
        /\ \A q \in Procs : Measures(q)' \/ Leases(q)' => dom'[q] = dom[q]
        /\ raced' = raced
    BY <1>18 DEF SweepEnds
  <2> HIDE DEF Measures, Leases
  <2> QED
    BY <2>1
<1>19. ASSUME NEW p \in Procs, EndsAcquire(p) PROVE RacedInv'
  BY <1>19 DEF EndsAcquire
<1>20. ASSUME NEW p \in Procs, SweepNext(p) PROVE RacedInv'
  <2>1. /\ \A q \in Procs : (Measures(q)' => Measures(q)) /\ (Leases(q)' => Leases(q))
        /\ \A q \in Procs : Measures(q)' \/ Leases(q)' => dom'[q] = dom[q]
        /\ raced' = raced
    BY <1>20 DEF SweepNext
  <2> HIDE DEF Measures, Leases
  <2> QED
    BY <2>1
<1>21. ASSUME NEW p \in Procs, UnlinkEntry(p) PROVE RacedInv'
  BY <1>21 DEF UnlinkEntry
<1>22. ASSUME NEW p \in Procs, RemoveDirectory(p) PROVE RacedInv'
  <2>1. /\ \A q \in Procs : (Measures(q)' => Measures(q)) /\ (Leases(q)' => Leases(q))
        /\ \A q \in Procs : Measures(q)' \/ Leases(q)' => dom'[q] = dom[q]
        /\ raced' = raced
    BY <1>22 DEF RemoveDirectory
  <2> HIDE DEF Measures, Leases
  <2> QED
    BY <2>1
<1>23. ASSUME NEW p \in Procs, Ends(p) PROVE RacedInv'
  <2>1. /\ \A q \in Procs : (Measures(q)' => Measures(q)) /\ (Leases(q)' => Leases(q))
        /\ \A q \in Procs : Measures(q)' \/ Leases(q)' => dom'[q] = dom[q]
        /\ raced' = raced
    BY <1>23 DEF Ends
  <2> HIDE DEF Measures, Leases
  <2> QED
    BY <2>1
<1>24. CASE ServerDies
  BY <1>24 DEF ServerDies
<1>25. CASE UNCHANGED vars
  BY <1>25 DEF vars
<1> QED
  BY MoveKinds, <1>1, <1>2, <1>3, <1>4, <1>5, <1>6, <1>7, <1>8, <1>9, <1>10, <1>11, <1>12,
     <1>13, <1>14, <1>15, <1>16, <1>17, <1>18, <1>19, <1>20, <1>21, <1>22, <1>23, <1>24, <1>25
     DEF CacheNext

\* Every step keeps measured records at least as large as their domains.
LEMMA RecordStep ==
    ASSUME CacheTypeOK, TaskInv, RacedInv, RecordInv, [CacheNext]_vars
    PROVE  RecordInv'
<1> USE CacheAssumption
    DEF CacheTypeOK, Pcs, TaskInv, RecordInv, Measured, SweepPcs,
        vars, files, sweep, task, Set, Idle
<1>1. ASSUME NEW p \in Procs, NEW d \in Domains, Acquire(p, d) \/ PruneSelected(p, d) PROVE RecordInv'
  BY <1>1 DEF Acquire, PruneSelected
<1>2. ASSUME NEW p \in Procs, LockManager(p) PROVE RecordInv'
  BY <1>2 DEF LockManager
<1>3. ASSUME NEW p \in Procs, OpenDomain(p) PROVE RecordInv'
  BY <1>3 DEF OpenDomain
<1>4. ASSUME NEW p \in Procs, TryLock(p) PROVE RecordInv'
  BY <1>4 DEF TryLock
<1>5. ASSUME NEW p \in Procs, MeasureDomain(p) PROVE RecordInv'
  BY <1>5 DEF MeasureDomain, MeasureAndEnforce
<1>6. ASSUME NEW p \in Procs, Discard(p) PROVE RecordInv'
  BY <1>6 DEF Discard
<1>7. ASSUME NEW p \in Procs, LockShared(p) PROVE RecordInv'
  BY <1>7 DEF LockShared
<1>8. ASSUME NEW p \in Procs, Record(p) PROVE RecordInv'
  BY <1>8 DEF Record
<1>9. ASSUME NEW p \in Procs, Build(p) PROVE RecordInv'
  <2> SUFFICES ASSUME ~raced PROVE RecordInv'
    BY <1>9 DEF Build
  <2>1. dom[p] \in Domains /\ ~Measured(dom[p]) /\ Leases(p)
    BY <1>9 DEF Build, Leases
  <2>2. \A q \in Procs : pc[q] = "write" => dom[q] \in Domains /\ dom[q] # dom[p]
    BY <2>1 DEF RacedInv, RefreshOnlyWhenIdle, Refreshed, InUse, Measures
  <2>3. \A d \in Domains \ {dom[p]} : size'[d] = size[d]
    BY <1>9 DEF Build
  <2>4. UNCHANGED <<meta, pc, dom, known>>
    BY <1>9 DEF Build
  <2> QED
    BY <2>1, <2>2, <2>3, <2>4
<1>10. ASSUME NEW p \in Procs, Release(p) PROVE RecordInv'
  BY <1>10 DEF Release
<1>11. ASSUME NEW p \in Procs, Reopen(p) PROVE RecordInv'
  BY <1>11 DEF Reopen
<1>12. ASSUME NEW p \in Procs, Retry(p) PROVE RecordInv'
  BY <1>12 DEF Retry
<1>13. ASSUME NEW p \in Procs, Refresh(p) PROVE RecordInv'
  BY <1>13 DEF Refresh, MeasureAndEnforce, LeaveDomain
<1>14. ASSUME NEW p \in Procs, WriteMeasured(p) PROVE RecordInv'
  <2> SUFFICES ASSUME ~raced PROVE RecordInv'
    BY <1>14 DEF WriteMeasured
  <2>1. dom[p] \in Domains /\ known[p] \in Nat /\ size[dom[p]] <= known[p] /\ Measures(p)
    BY <1>14 DEF WriteMeasured, Measures
  <2>2. /\ UNCHANGED <<size, dom>>
        /\ \A q \in Procs : pc'[q] = "leased" => pc[q] = "leased"
        /\ \A q \in Procs : pc'[q] = "write" => pc[q] = "write" /\ known'[q] = known[q]
    BY <1>14 DEF WriteMeasured, LeaveDomain
  <2>3. CASE meta[dom[p]] = None
    BY <1>14, <2>2, <2>3 DEF WriteMeasured
  <2>4. CASE meta[dom[p]] # None
    <3>1. \A q \in Procs : pc[q] = "leased" => dom[q] \in Domains /\ dom[q] # dom[p]
      BY <2>1 DEF RacedInv, RefreshOnlyWhenIdle, Refreshed, InUse, Leases
    <3>2. /\ meta'[dom[p]].bytes = known[p]
          /\ \A d \in Domains \ {dom[p]} : meta'[d] = meta[d]
      BY <1>14, <2>1, <2>4 DEF WriteMeasured
    <3> QED
      BY <2>1, <2>2, <3>1, <3>2
  <2> QED
    BY <2>3, <2>4
<1>15. ASSUME NEW p \in Procs, RefreshFails(p) PROVE RecordInv'
  BY <1>15 DEF RefreshFails, Measures, LeaveDomain
<1>16. ASSUME NEW p \in Procs, Prune(p) \/ Inspect(p) PROVE RecordInv'
  BY <1>16 DEF Prune, Inspect
<1>17. ASSUME NEW p \in Procs, PlansSweep(p) PROVE RecordInv'
  BY <1>17 DEF PlansSweep
<1>18. ASSUME NEW p \in Procs, SweepEnds(p) PROVE RecordInv'
  BY <1>18 DEF SweepEnds
<1>19. ASSUME NEW p \in Procs, EndsAcquire(p) PROVE RecordInv'
  BY <1>19 DEF EndsAcquire
<1>20. ASSUME NEW p \in Procs, SweepNext(p) PROVE RecordInv'
  BY <1>20 DEF SweepNext
<1>21. ASSUME NEW p \in Procs, UnlinkEntry(p) PROVE RecordInv'
  BY <1>21 DEF UnlinkEntry
<1>22. ASSUME NEW p \in Procs, RemoveDirectory(p) PROVE RecordInv'
  BY <1>22 DEF RemoveDirectory
<1>23. ASSUME NEW p \in Procs, Ends(p) PROVE RecordInv'
  BY <1>23 DEF Ends
<1>24. CASE ServerDies
  BY <1>24 DEF ServerDies
<1>25. CASE UNCHANGED vars
  BY <1>25 DEF vars
<1> QED
  BY MoveKinds, <1>1, <1>2, <1>3, <1>4, <1>5, <1>6, <1>7, <1>8, <1>9, <1>10, <1>11, <1>12,
     <1>13, <1>14, <1>15, <1>16, <1>17, <1>18, <1>19, <1>20, <1>21, <1>22, <1>23, <1>24, <1>25
     DEF CacheNext

-----------------------------------------------------------------------------
\* The inductive invariant holds of every use of the cache: types, who holds
\* which lock and where, sweeps that spare what is leased, and records that
\* hide nothing while no measurement has overlapped a use.
THEOREM CacheInvariantHolds == PrewarmSpec => []CInv
<1>1. PrewarmInit => CInv
  <2> SUFFICES ASSUME PrewarmInit PROVE CInv
    OBVIOUS
  <2> USE CacheAssumption DEF PrewarmInit, Init
  <2>1. CacheTypeOK
    BY DEF CacheTypeOK, Pcs
  <2>2. TaskInv /\ ManagerInv /\ PruneSparesLeased
    BY DEF TaskInv, ManagerInv, PruneSparesLeased
  <2>3. LockInv /\ LeaseInv
    BY DEF LockInv, Locks, LeaseInv, Opened, Leases, SweepPcs
  <2>4. RacedInv
    BY DEF RacedInv, RefreshOnlyWhenIdle, Refreshed, Measures
  <2>5. RecordInv
    BY DEF RecordInv, Measured
  <2> QED
    BY <2>1, <2>2, <2>3, <2>4, <2>5 DEF CInv
<1>2. CInv /\ [PrewarmNext]_prewarmVars => CInv'
  BY QueueMovesCache, CacheTypeStep, TaskStep, ManagerStep, LockStep, LeaseStep, SpareStep,
     RacedStep, RecordStep DEF CInv
<1> QED
  BY <1>1, <1>2, PTL DEF PrewarmSpec

\* A domain holds no more than its measured record says, until a release has
\* measured a domain in use (MeasuredHidesNothing).
THEOREM MeasuredRecordsHideNothing == PrewarmSpec => []MeasuredHidesNothing
<1>1. CInv => MeasuredHidesNothing
  BY DEF CInv, RecordInv, Measured, MeasuredHidesNothing
<1> QED
  BY <1>1, CacheInvariantHolds, PTL

\* A domain that a sweep is removing is leased by nobody (PruneSparesLeased).
THEOREM LeasesAreSpared == PrewarmSpec => []PruneSparesLeased
<1>1. CInv => PruneSparesLeased
  BY DEF CInv
<1> QED
  BY <1>1, CacheInvariantHolds, PTL

\* Every step of the queue keeps its one worker leased and the flag true to it.
LEMMA QueueStep ==
    ASSUME CacheTypeOK, TaskInv, QueueInv, [PrewarmNext]_prewarmVars PROVE QueueInv'
<1> USE DEF QueueInv, queue
<1>1. ASSUME NEW p \in Procs, NEW d \in Domains, Analyse(p, d) PROVE QueueInv'
  BY <1>1 DEF Analyse, Acquire, Set, CacheTypeOK
<1>2. ASSUME NEW p \in Procs, CacheStep(p) \/ CacheStepFails(p) PROVE QueueInv'
  <2>1. p \notin workers
    BY <1>2 DEF CacheStep, Steps, LockManager, OpenDomain, TryLock, MeasureDomain, Discard, LockShared,
       Record, Reopen, Retry, Refresh, WriteMeasured, Collect, SweepEnds, SweepNext, UnlinkEntry,
       RemoveDirectory, Recount, CacheStepFails, Fails, RefreshFails, Measures, SweepPcs
  <2>2. \A q \in Procs \ {p} : pc'[q] = pc[q]
    <3>1. Move(p)
      BY <1>2 DEF CacheStep, CacheStepFails, Move
    <3> QED
      BY <3>1, OthersStay
  <2> QED
    BY <1>2, <2>1, <2>2 DEF CacheStep, CacheStepFails
<1>3. ASSUME NEW p \in Procs, NothingToWarm(p) PROVE QueueInv'
  BY <1>3 DEF NothingToWarm, Waits, Release, Set, CacheTypeOK
<1>4. ASSUME NEW p \in Procs, NEW paths \in SUBSET Paths, SpawnPrewarm(p, paths) PROVE QueueInv'
  <2>1. CASE inFlight
    BY <1>4, <2>1 DEF SpawnPrewarm, Waits, Release, Set, CacheTypeOK
  <2>2. CASE ~inFlight
    BY <1>4, <2>2 DEF SpawnPrewarm, Waits, vars
  <2> QED
    BY <2>1, <2>2
<1>5. ASSUME NEW p \in Procs, TakeBatch(p) PROVE QueueInv'
  <2>1. CASE pending = {}
    <3>1. workers' = {} /\ inFlight' = FALSE /\ pending' = {} /\ batch' = {} /\ UNCHANGED serving
      BY <1>5, <2>1 DEF TakeBatch
    <3> QED
      BY <3>1
  <2>2. CASE pending # {}
    BY <1>5, <2>2 DEF TakeBatch, vars
  <2> QED
    BY <2>1, <2>2
<1>6. ASSUME NEW p \in Procs, Prewarm(p) PROVE QueueInv'
  BY <1>6 DEF Prewarm, Build, vars
<1>7. ASSUME NEW p \in Procs, OtherUse(p) PROVE QueueInv'
  <2>1. Move(p) /\ p \notin workers /\ UNCHANGED queue
    BY <1>7 DEF OtherUse, Move
  <2> QED
    BY <2>1, OthersStay
<1>8. CASE ServerDies
  BY <1>8 DEF ServerDies
<1>9. CASE UNCHANGED prewarmVars
  BY <1>9 DEF prewarmVars, vars
<1> QED
  BY <1>1, <1>2, <1>3, <1>4, <1>5, <1>6, <1>7, <1>8, <1>9 DEF PrewarmNext, PrewarmStep

\* One worker at a time serves all that is pending, under a lease
\* (OneWorkerServesAll).
THEOREM OneLeasedWorker == PrewarmSpec => []OneWorkerServesAll
<1>1. PrewarmInit => QueueInv
  BY DEF PrewarmInit, QueueInv
<1>2. CInv /\ QueueInv /\ [PrewarmNext]_prewarmVars => QueueInv'
  BY QueueStep DEF CInv
<1>3. CInv /\ QueueInv => OneWorkerServesAll
  <2> SUFFICES ASSUME CInv, QueueInv PROVE OneWorkerServesAll
    OBVIOUS
  <2>1. Cardinality(workers) <= 1
    <3>1. CASE workers = {}
      BY <3>1, FS_EmptySet
    <3>2. CASE workers # {}
      <4>1. PICK p \in workers : workers = {p}
        BY <3>2 DEF QueueInv
      <4> QED
        BY <4>1, FS_Singleton
    <3> QED
      BY <3>1, <3>2
  <2>2. \A p \in workers : Leases(p)
    BY DEF CInv, TaskInv, QueueInv, Leases
  <2> QED
    BY <2>1, <2>2 DEF OneWorkerServesAll, QueueInv
<1> QED
  BY <1>1, <1>2, <1>3, CacheInvariantHolds, PTL DEF PrewarmSpec
=============================================================================
