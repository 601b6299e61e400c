----------------------------- MODULE Supervisor -----------------------------
(***************************************************************************)
(* The process supervisor (internal/adapters/outbound/process).            *)
(*                                                                         *)
(* A run is one execution of a command: a process group whose leader is    *)
(* the shell that Start spawned.  The supervisor keeps a record of it      *)
(* under the identity pid:generation and has a reaper goroutine wait for   *)
(* the leader.  Stop and Alive are called under Service.mu, one at a time; *)
(* the reapers, the processes and the kernel's reuse of PIDs interleave    *)
(* with every step of them.                                                *)
(***************************************************************************)
EXTENDS Naturals, FiniteSets

CONSTANTS Runs,       \* executions of commands
          Pids,       \* the kernel's PIDs
          None,       \* no run
          Stranger,   \* a group that Mirage did not start
          PidReuse,   \* whether a PID may be used again
          MaxCrashes  \* bound: deaths of the daemon

ASSUME SupervisorAssumption ==
  /\ None \notin Runs
  /\ Stranger \notin Runs \union {None}
  /\ PidReuse \in BOOLEAN
  /\ MaxCrashes \in Nat

VARIABLES groups,     \* the kernel's process groups, by the PID of the leader
          ident,      \* the identity that Start returned for a run
          procs,      \* Supervisor.procs
          next,       \* Supervisor.next
          reaper,     \* how far the reaper goroutine of a run is
          stopped,    \* the runs for which a Stop returned nil
          call,       \* the Stop or Alive in progress, or the answer of the last
          crashes

supervisor == <<groups, ident, procs, next, reaper, stopped, call, crashes>>

Identity   == [pid: Pids, gen: 1 .. Cardinality(Runs)]
NoIdentity == [pid |-> None, gen |-> 0]
Entry      == [id: Identity, run: Runs]

\* An exited leader is a zombie until its parent waits for it.
Group   == [owner: Runs \union {None, Stranger},
            leader: {"none", "up", "zombie"}, others: BOOLEAN]
NoGroup == [owner |-> None, leader |-> "none", others |-> FALSE]

\* "lost": the goroutine died with its daemon.
ReaperStep == {"none", "waiting", "reaped", "closed", "deleted", "over", "lost"}

Call == [kind: {"none", "stop", "alive"}, run: Runs \union {None}, held: Runs \union {None},
         \* dead: what Alive answered last
         pc: {"idle", "probe", "term", "wait", "kill", "lastwait", "alive"},
         dead: BOOLEAN]

SupervisorTypeOK ==
  /\ groups \in [Pids -> Group]
  /\ ident \in [Runs -> Identity \union {NoIdentity}]
  /\ procs \subseteq Entry
  /\ next \in 0 .. Cardinality(Runs)
  /\ reaper \in [Runs -> ReaperStep]
  /\ stopped \subseteq Runs
  /\ call \in Call
  /\ crashes \in 0 .. MaxCrashes

NoCall == [kind |-> "none", run |-> None, held |-> None, pc |-> "idle", dead |-> FALSE]

SupervisorInit ==
  /\ groups = [p \in Pids |-> NoGroup]
  /\ ident = [r \in Runs |-> NoIdentity]
  /\ procs = {} /\ next = 0
  /\ reaper = [r \in Runs |-> "none"]
  /\ stopped = {} /\ call = NoCall /\ crashes = 0

-----------------------------------------------------------------------------
\* kill(-pgid, 0) succeeds as long as the group has a member, a zombie too.
GroupAlive(p) == groups[p].leader # "none" \/ groups[p].others

Started(r)  == ident[r] # NoIdentity
Leads(r, p) == groups[p].owner = r /\ groups[p].leader = "up"
LeaderUp(r) == \E p \in Pids : Leads(r, p)
Living(r)   == \E p \in Pids : groups[p].owner = r /\ GroupAlive(p)

Free == call.pc = "idle"
Target == ident[call.run].pid

\* find: the record under an identity, whatever run it is now.
Find(id) == LET found == {e \in procs : e.id = id}
            IN  IF found = {} THEN None ELSE (CHOOSE e \in found : TRUE).run

\* forget, when the call found a record.
Forget == IF call.held = None THEN procs ELSE {e \in procs : e.id # ident[call.run]}

\* Mutant: a Stop that gave up forgets the run as well.
StopForgets(ok) ==
  /\ call' = NoCall
  /\ procs' = Forget
  /\ stopped' = IF ok THEN stopped \union {call.run} ELSE stopped

\* A nil answer is the service's proof that the run is over.
StopReturns(ok) ==
  /\ call' = NoCall
  /\ procs' = IF ok THEN Forget ELSE procs
  /\ stopped' = IF ok THEN stopped \union {call.run} ELSE stopped

Goto(pc) == call' = [call EXCEPT !.pc = pc] /\ UNCHANGED <<procs, stopped>>

-----------------------------------------------------------------------------
\* A link is started again only after a Stop that returned nil.
MayStart(r) == ~Started(r) /\ \A q \in Runs : Started(q) => q \in stopped

\* Start spawns the leader in a group of its own (Setpgid) and records the run.
Start(r, p) ==
  /\ Free /\ MayStart(r)
  /\ ~GroupAlive(p) /\ (PidReuse \/ groups[p] = NoGroup)
  /\ next' = next + 1
  /\ groups' = [groups EXCEPT ![p] = [owner |-> r, leader |-> "up", others |-> FALSE]]
  /\ ident' = [ident EXCEPT ![r] = [pid |-> p, gen |-> next']]
  /\ procs' = {e \in procs : e.id # ident'[r]} \union {[id |-> ident'[r], run |-> r]}
  /\ reaper' = [reaper EXCEPT ![r] = "waiting"]
  /\ call' = NoCall
  /\ UNCHANGED <<stopped, crashes>>

\* Stop and Alive look the identity up first; without a record they use the
\* PID of the identity alone.
BeginStop(r) ==
  /\ Free /\ Started(r)
  /\ call' = [kind |-> "stop", run |-> r, held |-> Find(ident[r]), pc |-> "probe", dead |-> FALSE]
  /\ UNCHANGED <<groups, ident, procs, next, reaper, stopped, crashes>>

BeginAlive(r) ==
  /\ Free /\ Started(r)
  /\ call' = [kind |-> "alive", run |-> r, held |-> Find(ident[r]), pc |-> "alive", dead |-> FALSE]
  /\ UNCHANGED <<groups, ident, procs, next, reaper, stopped, crashes>>

\* Mutant: an identity without a record is not alive either.
DoneOrUnknown(r) == r = None \/ reaper[r] \in {"closed", "deleted", "over"}

\* A leader that was reaped is not alive, even if its group still has members.
DoneClosed(r) == r # None /\ reaper[r] \in {"closed", "deleted", "over"}

AliveReturns ==
  /\ call.pc = "alive"
  /\ call' = IF DoneClosed(call.held) \/ ~GroupAlive(Target)
               THEN [NoCall EXCEPT !.run = call.run, !.dead = TRUE] ELSE NoCall
  /\ UNCHANGED <<procs, stopped>>

StopProbes ==
  /\ call.pc = "probe"
  /\ IF GroupAlive(Target) THEN Goto("term") ELSE StopReturns(TRUE)

\* waitGroup: the group is seen to be gone, or the grace period ends, or the
\* context does, which Stop reports, without another look at the group,
\* instead of sending SIGKILL.
StopWaits ==
  /\ call.pc = "wait"
  /\ \/ ~GroupAlive(Target) /\ StopReturns(TRUE)
     \/ GroupAlive(Target) /\ Goto("kill")
     \/ StopReturns(FALSE)

\* Mutant: the end of the second counts as the end of the group.
StopTrustsTheKill == call.pc = "lastwait" /\ StopReturns(TRUE)

\* After SIGKILL the group has one more second.
StopWaitsAgain ==
  /\ call.pc = "lastwait"
  /\ (~GroupAlive(Target) /\ StopReturns(TRUE)) \/ StopReturns(FALSE)

\* A signal is a step of the caller; the members die by steps of their own.
SendTerm == call.pc = "term" /\ Goto("wait")
SendKill == call.pc = "kill" /\ Goto("lastwait")

CallStep ==
  /\ AliveReturns \/ StopProbes \/ SendTerm \/ StopWaits \/ SendKill \/ StopWaitsAgain
  /\ UNCHANGED <<groups, ident, next, reaper, crashes>>

-----------------------------------------------------------------------------
\* The reaper goroutine: Wait, close(done), delete the record, close the log.
Wait(r) ==
  /\ reaper[r] = "waiting"
  /\ groups[ident[r].pid].leader = "zombie"
  /\ groups' = [groups EXCEPT ![ident[r].pid].leader = "none"]
  /\ reaper' = [reaper EXCEPT ![r] = "reaped"]
  /\ UNCHANGED <<ident, procs, next, stopped, call, crashes>>

CloseDone(r) ==
  /\ reaper[r] = "reaped"
  /\ reaper' = [reaper EXCEPT ![r] = "closed"]
  /\ UNCHANGED <<groups, ident, procs, next, stopped, call, crashes>>

DeleteRecord(r) ==
  /\ reaper[r] = "closed"
  /\ procs' = {e \in procs : ~(e.id = ident[r] /\ e.run = r)}
  /\ reaper' = [reaper EXCEPT ![r] = "deleted"]
  /\ UNCHANGED <<groups, ident, next, stopped, call, crashes>>

ReaperEnds(r) ==
  /\ reaper[r] = "deleted"
  /\ reaper' = [reaper EXCEPT ![r] = "over"]
  /\ UNCHANGED <<groups, ident, procs, next, stopped, call, crashes>>

-----------------------------------------------------------------------------
\* The processes, at any time: they obey a signal or not, and exit unasked.
Kernel == UNCHANGED <<ident, procs, next, reaper, stopped, call, crashes>>

Fork(p) == /\ groups[p].leader = "up"
           /\ groups' = [groups EXCEPT ![p].others = TRUE] /\ Kernel

\* A leader whose daemon waits for it, or did not crash yet, stays a zombie.
LeaderExits(p) ==
  /\ groups[p].leader = "up"
  /\ groups' = [groups EXCEPT ![p].leader =
       IF groups[p].owner \in Runs /\ reaper[groups[p].owner] = "waiting" THEN "zombie" ELSE "none"]
  /\ Kernel

OthersExit(p) == /\ groups[p].others
                 /\ groups' = [groups EXCEPT ![p].others = FALSE] /\ Kernel

\* The PID of a group that is gone goes to a program that is not Mirage's.
TakePid(p) ==
  /\ PidReuse /\ ~GroupAlive(p)
  /\ groups' = [groups EXCEPT ![p] = [owner |-> Stranger, leader |-> "up", others |-> FALSE]]
  /\ Kernel

\* The daemon dies: its memory goes, its children become init's, which reaps.
DaemonDies ==
  /\ crashes < MaxCrashes /\ crashes' = crashes + 1
  /\ groups' = [p \in Pids |-> IF groups[p].leader = "zombie"
                                 THEN [groups[p] EXCEPT !.leader = "none"] ELSE groups[p]]
  /\ procs' = {} /\ next' = 0 /\ call' = NoCall
  /\ reaper' = [r \in Runs |-> IF reaper[r] = "none" THEN "none" ELSE "lost"]
  /\ UNCHANGED <<ident, stopped>>

-----------------------------------------------------------------------------
\* A Stop that returns nil leaves no member of the run's group behind, found
\* by its record or, after a crash, by its PID alone.
StopMeansDead == \A r \in stopped : ~Living(r)

\* Alive says dead only of a run whose leader has exited: Reconcile marks the
\* link failed and destroys it on this answer.
DeadMeansExited == call.dead => ~LeaderUp(call.run)

\* While a leader runs under the daemon that started it, its record exists:
\* neither a Stop that gave up nor the reaper of an earlier run, whose PID it
\* may have, takes it away.
RunningIsRecorded ==
  \A r \in Runs : LeaderUp(r) /\ reaper[r] = "waiting" => [id |-> ident[r], run |-> r] \in procs

\* Stop signals only the group of the run it was asked to stop.
SignalsOwnGroup ==
  [][call.pc \in {"term", "kill"} /\ call'.pc \in {"wait", "lastwait"}
       => (GroupAlive(Target) => groups[Target].owner = call.run)]_supervisor
=============================================================================
