---------------------------- MODULE ProcessLogs ----------------------------
(***************************************************************************)
(* One link's runs and its log: the supervisor's capture goroutines append *)
(* what a run writes, and its reaper closes the log of the link when the   *)
(* run's leader has exited.  The runs of a restarted link share one log.   *)
(* Followers are left to LogStore's own specification, which lets Append   *)
(* and Close happen at any time.                                           *)
(***************************************************************************)
EXTENDS Supervisor, LogStore

VARIABLE capturing    \* the runs whose capture goroutines read their output

vars == <<supervisor, logs, capturing>>

TypeOK ==
  /\ SupervisorTypeOK /\ LogTypeOK
  /\ capturing \subseteq Runs

Init == SupervisorInit /\ LogInit /\ capturing = {}

-----------------------------------------------------------------------------
StartRun(r, p) ==
  /\ Start(r, p)
  /\ capturing' = capturing \union {r}
  /\ UNCHANGED logs

\* capture appends a line that a member of the group wrote, or one that the
\* scanner holds although cmd.Wait has closed the read end already.  It ignores
\* what Append answers.
Capture(r, size) ==
  /\ r \in capturing
  /\ AppendLine(size)
  /\ UNCHANGED <<supervisor, capturing>>

\* The scanner ends with the last writer, when cmd.Wait closes the read end, or
\* at a line over 1 MiB while the run goes on: nobody reads its output then.
CaptureEnds(r) ==
  /\ r \in capturing
  /\ capturing' = capturing \ {r}
  /\ UNCHANGED <<supervisor, logs>>

\* Mutant: the reaper ends without closing the log.
ReaperLeavesLog(r) == ReaperEnds(r) /\ UNCHANGED <<logs, capturing>>

ReaperCloses(r) == ReaperEnds(r) /\ CloseLog /\ UNCHANGED capturing

Crash ==
  /\ DaemonDies
  /\ records' = <<>> /\ bytes' = 0 /\ history' = <<>> /\ closed' = FALSE
  /\ followers' = {} /\ fol' = [f \in Followers |-> NoFollower]
  /\ capturing' = {}
  /\ UNCHANGED written

-----------------------------------------------------------------------------
Calls ==
  /\ (\E r \in Runs : BeginStop(r) \/ BeginAlive(r)) \/ CallStep
  /\ UNCHANGED <<logs, capturing>>

Processes ==
  /\ \E p \in Pids : Fork(p) \/ LeaderExits(p) \/ OthersExit(p) \/ TakePid(p)
  /\ UNCHANGED <<logs, capturing>>

Reaper(r) ==
  \/ ReaperCloses(r)
  \/ (Wait(r) \/ CloseDone(r) \/ DeleteRecord(r)) /\ UNCHANGED <<logs, capturing>>

Output(r) == CaptureEnds(r) \/ \E size \in 1 .. MaxSize : Capture(r, size)

Next ==
  \/ Calls \/ Processes \/ Crash
  \/ \E r \in Runs : (\E p \in Pids : StartRun(r, p)) \/ Reaper(r) \/ Output(r)

Spec == Init /\ [][Next]_vars

\* Go runs every runnable goroutine.
FairSpec == Spec /\ \A r \in Runs : WF_vars(Reaper(r))

-----------------------------------------------------------------------------
\* Once a run's leader has exited its reaper closes the log in the end, which is
\* what ends the streams of its followers (ClosedEndsStreams), whatever members
\* of its group are left, unless the daemon dies first.
LogClosed == \A r \in Runs : (Started(r) /\ ~LeaderUp(r)) ~> (closed \/ reaper[r] = "lost")

\* What a running process writes is stored, if a record of its size can be.
RunningOutputKept ==
  [][\A r \in Runs, size \in 1 .. Capacity :
       (LeaderUp(r) /\ Capture(r, size)) => written' \in {line.n : line \in ToSet(records')}]_vars
=============================================================================
