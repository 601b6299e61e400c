-------------------------- MODULE ProcessLogsProofs --------------------------
(***************************************************************************)
(* What Stop and Alive say is true, and a running process stays on record, *)
(* for any number of runs, PIDs and deaths of the daemon, with PIDs that   *)
(* the kernel reuses.  The argument is about identities: within one life   *)
(* of the daemon no two runs share one, and a run that an earlier life     *)
(* left behind lost its PID before a run of this life could get it.        *)
(*                                                                         *)
(* With finitely many runs the numbers the daemon gives out are bounded:   *)
(* next counts the runs of its life.  The log keeps its own invariants,    *)
(* since every step here is one of the log's or a new, empty log.          *)
(***************************************************************************)
EXTENDS ProcessLogs, LogStoreProofs, FiniteSetTheorems, TLAPS

\* The run was started by the daemon that is up now.
Current(r) == reaper[r] \in {"waiting", "reaped", "closed", "deleted", "over"}

Tagged == [pid: Pids, gen: Nat]

SupTyped ==
  /\ groups \in [Pids -> Group]
  /\ ident \in [Runs -> Tagged \union {NoIdentity}]
  /\ procs \subseteq [id: Tagged, run: Runs]
  /\ next \in Nat
  /\ reaper \in [Runs -> ReaperStep]
  /\ stopped \subseteq Runs
  /\ call \in Call

\* A group that Mirage owns is at the PID of its run.
OwnersKnown ==
  \A p \in Pids, r \in Runs : groups[p].owner = r => Started(r) /\ ident[r].pid = p

\* A run has a reaper, now or once, from its start on.
ReapersKnown ==
  \A r \in Runs : /\ reaper[r] # "none" => Started(r) /\ ident[r].pid \in Pids
                  /\ Started(r) => reaper[r] # "none"

\* Identities of this life of the daemon are numbered and differ.
IdentsUnique ==
  /\ \A r \in Runs : Current(r) => ident[r].gen <= next
  /\ \A q, r \in Runs : Current(q) /\ Current(r) /\ ident[q] = ident[r] => q = r

RecordsCurrent == \A e \in procs : ident[e.run] = e.id /\ Current(e.run)

ReapedExited ==
  \A r \in Runs : reaper[r] \in {"reaped", "closed", "deleted", "over"} => ~LeaderUp(r)

\* A run of an earlier life that still has its PID shares it with none of this.
LostAlone ==
  \A p \in Pids, q, r \in Runs :
    groups[p].owner = r /\ reaper[r] = "lost" /\ Current(q) => ident[q].pid # p

StoppedStarted == \A r \in stopped : Started(r)

CallKnown ==
  /\ call.pc # "idle" => call.run \in Runs /\ Started(call.run)
  /\ call.pc = "alive" /\ call.held # None =>
       call.held \in Runs /\ Current(call.held) /\ ident[call.held] = ident[call.run]
  /\ call.dead => call.pc = "idle" /\ call.run \in Runs

SupInv ==
  /\ SupTyped /\ OwnersKnown /\ ReapersKnown /\ IdentsUnique /\ RecordsCurrent
  /\ ReapedExited /\ LostAlone /\ StoppedStarted /\ CallKnown
  /\ RunningIsRecorded /\ StopMeansDead /\ DeadMeansExited

-----------------------------------------------------------------------------
\* What every step but a start does to the groups: a run's group stays where
\* it is or is lost, and nobody in it comes back to life.
Shrinks ==
  /\ groups' \in [Pids -> Group]
  /\ \A p \in Pids : groups'[p].owner \in Runs =>
       /\ groups'[p].owner = groups[p].owner
       /\ groups'[p].leader = "up" => groups[p].leader = "up"
       /\ GroupAlive(p)' => GroupAlive(p)

LEMMA ShrinkingRuns ==
  ASSUME Shrinks, NEW r \in Runs
  PROVE  /\ LeaderUp(r)' => LeaderUp(r)
         /\ Living(r)' => Living(r)
  BY DEF Shrinks, LeaderUp, Leads, Living

\* Someone else's process dies, forks or takes the PID of a group that is gone.
LEMMA KernelKeeps ==
  ASSUME SupInv, Shrinks, UNCHANGED <<ident, procs, next, reaper, stopped, call>>
  PROVE  SupInv'
<1>1. SupTyped'
  BY DEF SupInv, SupTyped, Shrinks
<1>2. OwnersKnown' /\ LostAlone'
  BY DEF SupInv, OwnersKnown, LostAlone, Shrinks, Started, Current
<1>3. ReapersKnown' /\ IdentsUnique' /\ RecordsCurrent' /\ StoppedStarted' /\ CallKnown'
  BY DEF SupInv, ReapersKnown, IdentsUnique, RecordsCurrent, StoppedStarted, CallKnown,
         Started, Current
<1>4. ReapedExited' /\ RunningIsRecorded'
  BY ShrinkingRuns DEF SupInv, ReapedExited, RunningIsRecorded
<1>5. StopMeansDead'
  BY ShrinkingRuns DEF SupInv, SupTyped, StopMeansDead
<1>6. DeadMeansExited'
  BY ShrinkingRuns DEF SupInv, CallKnown, DeadMeansExited
<1> QED BY <1>1, <1>2, <1>3, <1>4, <1>5, <1>6 DEF SupInv

LEMMA ProcessesShrink ==
  ASSUME SupInv, NEW p \in Pids, Fork(p) \/ LeaderExits(p) \/ OthersExit(p) \/ TakePid(p)
  PROVE  Shrinks /\ UNCHANGED <<ident, procs, next, reaper, stopped, call>>
<1> USE SupervisorAssumption
<1>1. groups \in [Pids -> Group]
  BY DEF SupInv, SupTyped
<1>2. CASE Fork(p)
  BY <1>1, <1>2 DEF Fork, Kernel, Shrinks, GroupAlive, Group
<1>3. CASE LeaderExits(p)
  BY <1>1, <1>3 DEF LeaderExits, Kernel, Shrinks, GroupAlive, Group
<1>4. CASE OthersExit(p)
  BY <1>1, <1>4 DEF OthersExit, Kernel, Shrinks, GroupAlive, Group
<1>5. CASE TakePid(p)
  BY <1>1, <1>5 DEF TakePid, Kernel, Shrinks, GroupAlive, Group
<1> QED BY <1>2, <1>3, <1>4, <1>5

-----------------------------------------------------------------------------
\* A new run: its number is higher than any other of this life, and it takes
\* over a PID that no living group has.
LEMMA StartKeeps ==
  ASSUME SupInv, NEW r \in Runs, NEW p \in Pids, Start(r, p)
  PROVE  SupInv'
<1> USE SupervisorAssumption
<1> DEFINE id == [pid |-> p, gen |-> next + 1]
           group == [owner |-> r, leader |-> "up", others |-> FALSE]
<1>1. /\ ~Started(r) /\ ~GroupAlive(p)
      /\ next' = next + 1 /\ groups' = [groups EXCEPT ![p] = group]
      /\ ident' = [ident EXCEPT ![r] = id] /\ reaper' = [reaper EXCEPT ![r] = "waiting"]
      /\ call' = NoCall /\ stopped' = stopped
      /\ procs' = {e \in procs : e.id # ident'[r]} \union {[id |-> ident'[r], run |-> r]}
  BY DEF Start, MayStart
<1>2. id \in Tagged /\ id # NoIdentity /\ id.pid = p /\ id.gen = next + 1
  BY DEF SupInv, SupTyped, Tagged, NoIdentity
<1>3. group \in Group /\ group.owner = r /\ group.leader = "up"
  BY DEF Group
<1> HIDE DEF id, group
<1>4. /\ groups'[p] = group /\ \A q \in Pids \ {p} : groups'[q] = groups[q]
      /\ ident'[r] = id /\ \A q \in Runs \ {r} : ident'[q] = ident[q]
      /\ reaper'[r] = "waiting" /\ \A q \in Runs \ {r} : reaper'[q] = reaper[q]
  BY <1>1 DEF SupInv, SupTyped
<1>5. /\ \A q \in Runs : Started(q)' <=> Started(q) \/ q = r
      /\ \A q \in Runs : Current(q)' <=> Current(q) \/ q = r
      /\ ~Current(r) /\ r \notin stopped
  <2>1. reaper[r] = "none"
    BY <1>1 DEF SupInv, ReapersKnown
  <2> QED BY <1>1, <1>2, <1>4, <2>1 DEF Started, Current, SupInv, StoppedStarted
<1>6. ASSUME NEW q \in Runs, NEW x \in Pids, groups'[x].owner = q
      PROVE  (q = r /\ x = p) \/ (q # r /\ x # p /\ groups[x].owner = q)
  BY <1>1, <1>3, <1>4, <1>6 DEF SupInv, OwnersKnown
<1>7. SupTyped'
  <2>1. groups' \in [Pids -> Group] /\ ident' \in [Runs -> Tagged \union {NoIdentity}]
        /\ reaper' \in [Runs -> ReaperStep]
    BY <1>1, <1>2, <1>3 DEF SupInv, SupTyped, ReaperStep
  <2>2. procs' \subseteq [id: Tagged, run: Runs]
    BY <1>1, <1>2, <1>4 DEF SupInv, SupTyped
  <2>3. next' \in Nat /\ stopped' \subseteq Runs /\ call' \in Call
    BY <1>1 DEF SupInv, SupTyped, Call, NoCall
  <2> QED BY <2>1, <2>2, <2>3 DEF SupTyped
<1>8. OwnersKnown'
  BY <1>2, <1>4, <1>5, <1>6 DEF SupInv, OwnersKnown
<1>9. ReapersKnown'
  BY <1>2, <1>4, <1>5 DEF SupInv, ReapersKnown
<1>10. IdentsUnique'
  <2>1. next \in Nat /\ \A q \in Runs : Current(q) => ident[q].gen \in Nat /\ ident[q].gen <= next
    BY DEF SupInv, SupTyped, IdentsUnique, Tagged, NoIdentity
  <2>2. \A q \in Runs : Current(q)' => ident'[q].gen <= next'
    BY <1>1, <1>2, <1>4, <1>5, <2>1
  <2>3. \A q \in Runs : Current(q) => ident[q] # id
    BY <1>2, <2>1
  <2>4. ASSUME NEW q \in Runs, NEW s \in Runs, Current(q)', Current(s)', ident'[q] = ident'[s]
        PROVE  q = s
    BY <1>4, <1>5, <2>3, <2>4 DEF SupInv, IdentsUnique
  <2> QED BY <2>2, <2>4 DEF IdentsUnique
<1>11. RecordsCurrent' /\ \A q \in Runs \ {r} :
         [id |-> ident[q], run |-> q] \in procs => [id |-> ident[q], run |-> q] \in procs'
  <2>1. next \in Nat /\ \A e \in procs : e.run \in Runs \ {r} /\ ident[e.run] = e.id /\ Current(e.run)
    BY <1>5 DEF SupInv, SupTyped, RecordsCurrent
  <2>2. \A e \in procs : e.id # id
    BY <1>2, <2>1 DEF SupInv, SupTyped, IdentsUnique, Tagged, NoIdentity
  <2>3. procs' = procs \union {[id |-> id, run |-> r]}
    BY <1>1, <1>4, <2>2
  <2> QED BY <1>4, <1>5, <2>1, <2>3 DEF RecordsCurrent
<1>12. ASSUME NEW q \in Runs \ {r} PROVE (LeaderUp(q)' => LeaderUp(q)) /\ (Living(q)' => Living(q))
  BY <1>4, <1>6 DEF LeaderUp, Leads, Living, GroupAlive
<1>13. ReapedExited'
  BY <1>4, <1>12 DEF SupInv, ReapedExited
<1>14. LostAlone'
  BY <1>2, <1>4, <1>5, <1>6 DEF SupInv, LostAlone
<1>15. StoppedStarted' /\ StopMeansDead'
  BY <1>1, <1>5, <1>12 DEF SupInv, SupTyped, StoppedStarted, StopMeansDead
<1>16. RunningIsRecorded'
  BY <1>1, <1>4, <1>11, <1>12 DEF SupInv, RunningIsRecorded
<1>17. CallKnown' /\ DeadMeansExited'
  BY <1>1 DEF CallKnown, DeadMeansExited, NoCall
<1> QED BY <1>7, <1>8, <1>9, <1>10, <1>11, <1>13, <1>14, <1>15, <1>16, <1>17 DEF SupInv

-----------------------------------------------------------------------------
\* The reaper of a run, step by step.
LEMMA WaitKeeps ==
  ASSUME SupInv, NEW r \in Runs, Wait(r)
  PROVE  SupInv'
<1> DEFINE p == ident[r].pid
<1>1. /\ reaper[r] = "waiting" /\ groups[p].leader = "zombie" /\ p \in Pids
      /\ groups' = [groups EXCEPT ![p].leader = "none"]
      /\ reaper' = [reaper EXCEPT ![r] = "reaped"]
      /\ UNCHANGED <<ident, procs, next, stopped, call>>
  BY DEF Wait, SupInv, ReapersKnown
<1>2. Shrinks
  BY <1>1 DEF SupInv, SupTyped, Shrinks, Group, GroupAlive
<1>3. \A q \in Runs : /\ Current(q)' <=> Current(q)
                      /\ Started(q)' <=> Started(q)
                      /\ reaper'[q] = "lost" <=> reaper[q] = "lost"
                      /\ reaper'[q] = "none" <=> reaper[q] = "none"
                      /\ reaper'[q] = "waiting" => reaper[q] = "waiting"
                      /\ q # r => reaper'[q] = reaper[q]
  BY <1>1 DEF SupInv, SupTyped, Current, Started
<1>4. ~LeaderUp(r)'
  BY <1>1, <1>2 DEF SupInv, SupTyped, OwnersKnown, Shrinks, LeaderUp, Leads
<1>5. SupTyped'
  BY <1>1, <1>2 DEF SupInv, SupTyped, Shrinks, ReaperStep
<1>6. OwnersKnown' /\ LostAlone'
  BY <1>1, <1>2, <1>3 DEF SupInv, OwnersKnown, LostAlone, Shrinks
<1>7. ReapersKnown' /\ IdentsUnique' /\ RecordsCurrent' /\ StoppedStarted' /\ CallKnown'
  BY <1>1, <1>3 DEF SupInv, SupTyped, ReapersKnown, IdentsUnique, RecordsCurrent, StoppedStarted, CallKnown
<1>8. ReapedExited'
  BY <1>1, <1>2, <1>3, <1>4, ShrinkingRuns DEF SupInv, ReapedExited
<1>9. RunningIsRecorded'
  BY <1>1, <1>2, <1>3, ShrinkingRuns DEF SupInv, RunningIsRecorded
<1>10. StopMeansDead' /\ DeadMeansExited'
  BY <1>1, <1>2, ShrinkingRuns DEF SupInv, SupTyped, CallKnown, StopMeansDead, DeadMeansExited
<1> QED BY <1>5, <1>6, <1>7, <1>8, <1>9, <1>10 DEF SupInv

\* Past the wait a reaper changes no group; the record it deletes is its own.
LEMMA ReaperKeeps ==
  ASSUME SupInv, NEW r \in Runs, CloseDone(r) \/ DeleteRecord(r) \/ ReaperEnds(r)
  PROVE  SupInv'
<1>1. /\ reaper[r] \in {"reaped", "closed", "deleted"}
      /\ \/ reaper' = [reaper EXCEPT ![r] = "closed"]
         \/ reaper' = [reaper EXCEPT ![r] = "deleted"]
         \/ reaper' = [reaper EXCEPT ![r] = "over"]
      /\ procs' \subseteq procs /\ \A e \in procs : e.run # r => e \in procs'
      /\ UNCHANGED <<groups, ident, next, stopped, call>>
  BY DEF CloseDone, DeleteRecord, ReaperEnds
<1>2. \A q \in Runs : /\ Current(q)' <=> Current(q)
                      /\ Started(q)' <=> Started(q)
                      /\ reaper'[q] = "lost" <=> reaper[q] = "lost"
                      /\ reaper'[q] = "none" <=> reaper[q] = "none"
                      /\ LeaderUp(q)' <=> LeaderUp(q)
                      /\ Living(q)' <=> Living(q)
                      /\ q # r => reaper'[q] = reaper[q]
  BY <1>1 DEF SupInv, SupTyped, Current, Started, LeaderUp, Leads, Living, GroupAlive
<1>3. SupTyped'
  BY <1>1 DEF SupInv, SupTyped, ReaperStep
<1>4. OwnersKnown' /\ LostAlone'
  BY <1>1, <1>2 DEF SupInv, OwnersKnown, LostAlone
<1>5. ReapersKnown' /\ IdentsUnique' /\ RecordsCurrent' /\ StoppedStarted' /\ CallKnown'
  BY <1>1, <1>2 DEF SupInv, SupTyped, ReapersKnown, IdentsUnique, RecordsCurrent, StoppedStarted, CallKnown
<1>6. ReapedExited'
  BY <1>1, <1>2 DEF SupInv, ReapedExited
<1>7. RunningIsRecorded'
  BY <1>1, <1>2 DEF SupInv, SupTyped, RunningIsRecorded
<1>8. StopMeansDead' /\ DeadMeansExited'
  BY <1>1, <1>2 DEF SupInv, SupTyped, CallKnown, StopMeansDead, DeadMeansExited
<1> QED BY <1>3, <1>4, <1>5, <1>6, <1>7, <1>8 DEF SupInv

-----------------------------------------------------------------------------
\* Stop and Alive.  Without a record they go by the PID alone, with one by the
\* record of the run or of nobody else.
LEMMA FoundIsOwn ==
  ASSUME SupInv, NEW r \in Runs, Started(r), Find(ident[r]) # None
  PROVE  LET h == Find(ident[r]) IN h \in Runs /\ Current(h) /\ ident[h] = ident[r]
<1> DEFINE found == {e \in procs : e.id = ident[r]}
<1>1. found # {} /\ Find(ident[r]) = (CHOOSE e \in found : TRUE).run
  BY DEF Find
<1>2. PICK e \in found : Find(ident[r]) = e.run
  BY <1>1
<1> QED BY <1>2 DEF SupInv, SupTyped, RecordsCurrent

\* A call that changes nothing but its own place.
LEMMA CallMoves ==
  ASSUME SupInv, UNCHANGED <<groups, ident, procs, next, reaper>>,
         call' \in Call, stopped' \subseteq Runs, StoppedStarted', StopMeansDead',
         CallKnown', DeadMeansExited'
  PROVE  SupInv'
  BY DEF SupInv, SupTyped, OwnersKnown, ReapersKnown, IdentsUnique, RecordsCurrent, ReapedExited,
         LostAlone, RunningIsRecorded, Started, Current, LeaderUp, Leads

LEMMA BeginKeeps ==
  ASSUME SupInv, NEW r \in Runs, BeginStop(r) \/ BeginAlive(r)
  PROVE  SupInv'
<1> DEFINE h == Find(ident[r])
<1>1. Started(r) /\ UNCHANGED <<groups, ident, procs, next, reaper, stopped>>
  BY DEF BeginStop, BeginAlive
<1>2. h \in Runs \union {None} /\ (h # None => Current(h) /\ ident[h] = ident[r])
  BY <1>1, FoundIsOwn
<1>3. call' \in Call /\ call'.run = r /\ call'.held = h /\ call'.dead = FALSE
  <2>1. \/ call' = [kind |-> "stop", run |-> r, held |-> h, pc |-> "probe", dead |-> FALSE]
        \/ call' = [kind |-> "alive", run |-> r, held |-> h, pc |-> "alive", dead |-> FALSE]
    BY DEF BeginStop, BeginAlive
  <2>2. h \in Runs \union {None}
    BY <1>2
  <2> HIDE DEF h
  <2>3. ASSUME call' = [kind |-> "stop", run |-> r, held |-> h, pc |-> "probe", dead |-> FALSE]
        PROVE  call' \in Call /\ call'.run = r /\ call'.held = h /\ call'.dead = FALSE
    BY <2>2, <2>3 DEF Call
  <2>4. ASSUME call' = [kind |-> "alive", run |-> r, held |-> h, pc |-> "alive", dead |-> FALSE]
        PROVE  call' \in Call /\ call'.run = r /\ call'.held = h /\ call'.dead = FALSE
    BY <2>2, <2>4 DEF Call
  <2> QED BY <2>1, <2>3, <2>4
<1>4. CallKnown' /\ DeadMeansExited'
  BY <1>1, <1>2, <1>3 DEF CallKnown, DeadMeansExited, Started, Current
<1>5. stopped' \subseteq Runs /\ StoppedStarted' /\ StopMeansDead'
  BY <1>1 DEF SupInv, SupTyped, StoppedStarted, StopMeansDead, Started, Living, GroupAlive
<1> QED BY <1>1, <1>3, <1>4, <1>5, CallMoves

\* The target's group is gone: so is the run, and whoever shares its identity.
LEMMA TargetGone ==
  ASSUME SupInv, call.pc # "idle", ~GroupAlive(Target)
  PROVE  /\ ~Living(call.run)
         /\ \A r \in Runs : ident[r] = ident[call.run] => ~LeaderUp(r)
<1>1. call.run \in Runs
  BY DEF SupInv, CallKnown
<1>2. \A r \in Runs, p \in Pids : groups[p].owner = r => ident[r].pid = p
  BY DEF SupInv, OwnersKnown
<1> QED BY <1>1, <1>2 DEF Living, LeaderUp, Leads, GroupAlive, Target

LEMMA NilKeeps ==
  ASSUME SupInv, call.pc # "idle", ~GroupAlive(Target), StopReturns(TRUE),
         UNCHANGED <<groups, ident, next, reaper>>
  PROVE  SupInv'
<1>1. /\ call' = NoCall /\ stopped' = stopped \union {call.run}
      /\ procs' \subseteq procs
      /\ \A e \in procs : e.id # ident[call.run] => e \in procs'
  BY DEF StopReturns, Forget
<1>2. call.run \in Runs /\ Started(call.run)
  BY DEF SupInv, CallKnown
<1>3. SupTyped'
  BY <1>1, <1>2 DEF SupInv, SupTyped, Call, NoCall
<1>4. OwnersKnown' /\ ReapersKnown' /\ IdentsUnique' /\ LostAlone' /\ ReapedExited'
  BY DEF SupInv, OwnersKnown, ReapersKnown, IdentsUnique, LostAlone, ReapedExited, Started,
         Current, LeaderUp, Leads
<1>5. RecordsCurrent'
  BY <1>1 DEF SupInv, RecordsCurrent, Current
<1>6. StoppedStarted'
  BY <1>1, <1>2 DEF SupInv, StoppedStarted, Started
<1>7. StopMeansDead'
  BY <1>1, TargetGone DEF SupInv, StopMeansDead, Living, GroupAlive
<1>8. RunningIsRecorded'
  BY <1>1, TargetGone DEF SupInv, RunningIsRecorded, LeaderUp, Leads
<1>9. CallKnown' /\ DeadMeansExited'
  BY <1>1 DEF CallKnown, DeadMeansExited, NoCall
<1> QED BY <1>3, <1>4, <1>5, <1>6, <1>7, <1>8, <1>9 DEF SupInv

\* Alive answers dead of a run that has no leader any more.
LEMMA VerdictTrue ==
  ASSUME SupInv, call.pc = "alive", DoneClosed(call.held) \/ ~GroupAlive(Target)
  PROVE  ~LeaderUp(call.run)
<1>1. call.run \in Runs /\ Started(call.run) /\ reaper[call.run] # "none"
  BY DEF SupInv, CallKnown, ReapersKnown
<1>2. CASE ~GroupAlive(Target)
  BY <1>1, <1>2, TargetGone
<1>3. CASE DoneClosed(call.held)
  <2> SUFFICES ASSUME LeaderUp(call.run) PROVE FALSE
    OBVIOUS
  <2>1. PICK p \in Pids : Leads(call.run, p)
    BY DEF LeaderUp
  <2>2. ident[call.run].pid = p /\ groups[p].owner = call.run
    BY <1>1, <2>1 DEF Leads, SupInv, OwnersKnown
  <2>3. /\ call.held \in Runs /\ Current(call.held) /\ ident[call.held] = ident[call.run]
        /\ reaper[call.held] \in {"closed", "deleted", "over"}
    BY <1>3 DEF DoneClosed, SupInv, CallKnown
  <2>4. reaper[call.run] # "lost"
    BY <1>1, <2>2, <2>3 DEF SupInv, LostAlone
  <2>5. Current(call.run)
    BY <1>1, <2>4 DEF SupInv, SupTyped, ReaperStep, Current
  <2>6. call.held = call.run
    BY <1>1, <2>3, <2>5 DEF SupInv, IdentsUnique
  <2> QED BY <1>1, <2>3, <2>6 DEF SupInv, ReapedExited
<1> QED BY <1>2, <1>3

LEMMA CallStepKeeps ==
  ASSUME SupInv, CallStep
  PROVE  SupInv'
<1>1. UNCHANGED <<groups, ident, next, reaper>>
  BY DEF CallStep
<1>2. call \in Call /\ NoCall \in Call
  BY DEF SupInv, SupTyped, Call, NoCall
<1>3. ASSUME UNCHANGED <<procs, stopped>>, call' \in Call, CallKnown', DeadMeansExited'
      PROVE  SupInv'
  <2>1. stopped' \subseteq Runs /\ StoppedStarted' /\ StopMeansDead'
    BY <1>1, <1>3 DEF SupInv, SupTyped, StoppedStarted, StopMeansDead, Started, Living, GroupAlive
  <2> QED BY <1>1, <1>3, <2>1, CallMoves
<1>4. CASE AliveReturns
  <2>1. UNCHANGED <<procs, stopped>> /\ call.pc = "alive"
    BY <1>4 DEF AliveReturns
  <2>2. CASE DoneClosed(call.held) \/ ~GroupAlive(Target)
    <3>1. call' = [NoCall EXCEPT !.run = call.run, !.dead = TRUE]
      BY <1>4, <2>2 DEF AliveReturns
    <3>2. call.run \in Runs
      BY <2>1 DEF SupInv, CallKnown
    <3>3. call' \in Call /\ call'.run = call.run /\ call'.pc = "idle" /\ call'.dead
      BY <3>1, <3>2, <1>2 DEF Call, NoCall
    <3>4. CallKnown' /\ DeadMeansExited'
      BY <1>1, <2>1, <2>2, <3>2, <3>3, VerdictTrue DEF CallKnown, DeadMeansExited, LeaderUp, Leads
    <3> QED BY <1>3, <2>1, <3>3, <3>4
  <2>3. CASE ~(DoneClosed(call.held) \/ ~GroupAlive(Target))
    <3>1. call' = NoCall
      BY <1>4, <2>3 DEF AliveReturns
    <3>2. CallKnown' /\ DeadMeansExited'
      BY <3>1 DEF CallKnown, DeadMeansExited, NoCall
    <3> QED BY <1>2, <1>3, <2>1, <3>1, <3>2
  <2> QED BY <2>2, <2>3
<1>5. ASSUME NEW pc \in {"term", "wait", "kill", "lastwait"}, Goto(pc), call.pc # "idle"
      PROVE  SupInv'
  <2>1. UNCHANGED <<procs, stopped>> /\ call' = [call EXCEPT !.pc = pc]
    BY <1>5 DEF Goto
  <2>2. call' \in Call /\ call'.run = call.run /\ call'.pc = pc /\ call'.dead = call.dead
    BY <1>2, <2>1 DEF Call
  <2>3. CallKnown' /\ DeadMeansExited'
    BY <1>1, <1>5, <2>2 DEF SupInv, CallKnown, DeadMeansExited, Started
  <2> QED BY <1>3, <2>1, <2>2, <2>3
<1>6. ASSUME StopReturns(FALSE)
      PROVE  SupInv'
  <2>1. UNCHANGED <<procs, stopped>> /\ call' = NoCall
    BY <1>6 DEF StopReturns
  <2>2. CallKnown' /\ DeadMeansExited'
    BY <2>1 DEF CallKnown, DeadMeansExited, NoCall
  <2> QED BY <1>2, <1>3, <2>1, <2>2
<1>7. CASE StopProbes
  BY <1>1, <1>5, <1>7, NilKeeps DEF StopProbes
<1>8. CASE SendTerm
  BY <1>5, <1>8 DEF SendTerm
<1>9. CASE StopWaits
  BY <1>1, <1>5, <1>6, <1>9, NilKeeps DEF StopWaits
<1>10. CASE SendKill
  BY <1>5, <1>10 DEF SendKill
<1>11. CASE StopWaitsAgain
  BY <1>1, <1>6, <1>11, NilKeeps DEF StopWaitsAgain
<1> QED BY <1>4, <1>7, <1>8, <1>9, <1>10, <1>11 DEF CallStep

-----------------------------------------------------------------------------
\* With the daemon go its records, its reapers and the call it had in hand.
LEMMA CrashKeeps ==
  ASSUME SupInv, DaemonDies
  PROVE  SupInv'
<1>1. /\ procs' = {} /\ next' = 0 /\ call' = NoCall /\ UNCHANGED <<ident, stopped>>
      /\ reaper' = [r \in Runs |-> IF reaper[r] = "none" THEN "none" ELSE "lost"]
      /\ groups' = [p \in Pids |-> IF groups[p].leader = "zombie"
                                     THEN [groups[p] EXCEPT !.leader = "none"] ELSE groups[p]]
  BY DEF DaemonDies
<1>2. Shrinks
  BY <1>1 DEF SupInv, SupTyped, Shrinks, Group, GroupAlive
<1>3. \A r \in Runs : /\ reaper'[r] \in {"none", "lost"}
                      /\ reaper'[r] = "none" <=> reaper[r] = "none"
                      /\ Started(r)' <=> Started(r)
  BY <1>1 DEF SupInv, SupTyped, Started
<1>4. SupTyped'
  BY <1>1, <1>2 DEF SupInv, SupTyped, Shrinks, ReaperStep, Call, NoCall
<1>5. OwnersKnown'
  BY <1>1, <1>2, <1>3 DEF SupInv, OwnersKnown, Shrinks
<1>6. ReapersKnown' /\ IdentsUnique' /\ RecordsCurrent' /\ ReapedExited' /\ LostAlone'
  BY <1>1, <1>3 DEF SupInv, ReapersKnown, IdentsUnique, RecordsCurrent, ReapedExited, LostAlone,
                    Current
<1>7. StoppedStarted' /\ StopMeansDead'
  BY <1>1, <1>2, <1>3, ShrinkingRuns DEF SupInv, SupTyped, StoppedStarted, StopMeansDead
<1>8. RunningIsRecorded' /\ CallKnown' /\ DeadMeansExited'
  BY <1>1, <1>3 DEF RunningIsRecorded, CallKnown, DeadMeansExited, NoCall
<1> QED BY <1>4, <1>5, <1>6, <1>7, <1>8 DEF SupInv

LEMMA SupInvStarts == Init => SupInv
<1> USE SupervisorAssumption
<1> SUFFICES ASSUME Init PROVE SupInv
  OBVIOUS
<1>1. SupervisorInit
  BY DEF Init
<1>2. NoGroup \in Group /\ NoGroup.owner = None /\ NoCall \in Call /\ ~NoCall.dead
      /\ NoCall.pc = "idle" /\ NoIdentity.gen = 0
  BY DEF NoGroup, Group, NoCall, Call, NoIdentity
<1>3. SupTyped
  BY <1>1, <1>2 DEF SupervisorInit, SupTyped, ReaperStep
<1>4. (\A p \in Pids, r \in Runs : groups[p].owner # r) /\ \A r \in Runs : reaper[r] = "none" /\ ~Started(r)
  BY <1>1, <1>2 DEF SupervisorInit, Started
<1>5. OwnersKnown /\ ReapersKnown /\ LostAlone /\ ReapedExited /\ IdentsUnique /\ RunningIsRecorded
  BY <1>4 DEF OwnersKnown, ReapersKnown, LostAlone, ReapedExited, IdentsUnique, RunningIsRecorded,
              Current
<1>6. RecordsCurrent /\ StoppedStarted /\ StopMeansDead /\ CallKnown /\ DeadMeansExited
  BY <1>1, <1>2 DEF SupervisorInit, RecordsCurrent, StoppedStarted, StopMeansDead, CallKnown,
                    DeadMeansExited
<1> QED BY <1>3, <1>5, <1>6 DEF SupInv

LEMMA SupUnmoved ==
  ASSUME SupInv, UNCHANGED supervisor
  PROVE  SupInv'
<1>1. Shrinks /\ UNCHANGED <<ident, procs, next, reaper, stopped, call>>
  BY DEF supervisor, SupInv, SupTyped, Shrinks, GroupAlive
<1> QED BY <1>1, KernelKeeps

\* The log has no part in it.
LEMMA SupInvKept ==
  ASSUME SupInv, [Next]_vars
  PROVE  SupInv'
<1>1. UNCHANGED supervisor => SupInv'
  BY SupUnmoved
<1>2. CASE Calls
  BY <1>2, BeginKeeps, CallStepKeeps DEF Calls
<1>3. CASE Processes
  BY <1>3, ProcessesShrink, KernelKeeps DEF Processes
<1>4. CASE Crash
  BY <1>4, CrashKeeps DEF Crash
<1>5. ASSUME NEW r \in Runs, NEW p \in Pids, StartRun(r, p) PROVE SupInv'
  BY <1>5, StartKeeps DEF StartRun
<1>6. ASSUME NEW r \in Runs, Reaper(r) PROVE SupInv'
  BY <1>6, WaitKeeps, ReaperKeeps DEF Reaper, ReaperCloses
<1>7. ASSUME NEW r \in Runs, Output(r) PROVE SupInv'
  BY <1>1, <1>7 DEF Output, CaptureEnds, Capture
<1>8. CASE UNCHANGED vars
  BY <1>1, <1>8 DEF vars
<1> QED BY <1>2, <1>3, <1>4, <1>5, <1>6, <1>7, <1>8 DEF Next

\* Identities stay apart, whatever the processes, the kernel and the calls do.
THEOREM SupInvAlways == Spec => []SupInv
<1>1. SupInv /\ [Next]_vars => SupInv'
  BY SupInvKept
<1> QED BY <1>1, SupInvStarts, PTL DEF Spec

\* A Stop that returned nil left no member of the run's group, whatever the
\* run's PID has become since (supervisor_linux.go, Stop).
THEOREM StopMeansDeadAlways == Spec => []StopMeansDead
<1>1. SupInv => StopMeansDead
  BY DEF SupInv
<1> QED BY <1>1, SupInvAlways, PTL

\* Alive says dead only of a run whose leader has exited, also when it found
\* the record of another run, or none (supervisor_linux.go, Alive).
THEOREM DeadMeansExitedAlways == Spec => []DeadMeansExited
<1>1. SupInv => DeadMeansExited
  BY DEF SupInv
<1> QED BY <1>1, SupInvAlways, PTL

\* No Stop and no reaper takes away the record of a run whose leader is up
\* under this daemon (supervisor_linux.go, Stop, forget and the reaper).
THEOREM RunningIsRecordedAlways == Spec => []RunningIsRecorded
<1>1. SupInv => RunningIsRecorded
  BY DEF SupInv
<1> QED BY <1>1, SupInvAlways, PTL

-----------------------------------------------------------------------------
\* The runs that this life of the daemon started are numbered without a gap.
CurrentRuns == {r \in Runs : Current(r)}

Numbered ==
  /\ next = Cardinality(CurrentRuns)
  /\ \A r \in Runs : Started(r) => ident[r].gen \in 1 .. Cardinality(Runs)
  /\ crashes \in 0 .. MaxCrashes

LEMMA RunsCounted ==
  ASSUME IsFiniteSet(Runs)
  PROVE  /\ IsFiniteSet(CurrentRuns) /\ Cardinality(CurrentRuns) \in Nat
         /\ Cardinality(Runs) \in Nat /\ Cardinality(CurrentRuns) <= Cardinality(Runs)
<1>1. CurrentRuns \subseteq Runs
  BY DEF CurrentRuns
<1> QED BY <1>1, FS_Subset, FS_CardinalityType

\* Most steps start no run and end none.
LEMMA SameRuns ==
  ASSUME Numbered, UNCHANGED <<ident, next, crashes>>, \A r \in Runs : Current(r)' <=> Current(r)
  PROVE  Numbered'
<1>1. CurrentRuns' = CurrentRuns
  BY DEF CurrentRuns
<1> QED BY <1>1 DEF Numbered, Started

LEMMA StartNumbers ==
  ASSUME IsFiniteSet(Runs), SupInv, Numbered, NEW r \in Runs, NEW p \in Pids, Start(r, p)
  PROVE  Numbered'
<1>1. /\ ~Started(r) /\ next' = next + 1 /\ crashes' = crashes
      /\ ident' = [ident EXCEPT ![r] = [pid |-> p, gen |-> next + 1]]
      /\ reaper' = [reaper EXCEPT ![r] = "waiting"]
  BY DEF Start, MayStart
<1>2. reaper[r] = "none"
  BY <1>1 DEF SupInv, ReapersKnown
<1>3. r \notin CurrentRuns /\ CurrentRuns' = CurrentRuns \union {r}
  BY <1>1, <1>2 DEF SupInv, SupTyped, CurrentRuns, Current
<1>4. Cardinality(CurrentRuns)' = Cardinality(CurrentRuns) + 1
  BY <1>3, RunsCounted, FS_AddElement
<1>5. next + 1 \in 1 .. Cardinality(Runs)
  <2>1. CurrentRuns \union {r} \subseteq Runs
    BY DEF CurrentRuns
  <2>2. Cardinality(CurrentRuns \union {r}) <= Cardinality(Runs)
    BY <2>1, FS_Subset
  <2>3. Cardinality(CurrentRuns \union {r}) = Cardinality(CurrentRuns) + 1
    BY <1>3, RunsCounted, FS_AddElement
  <2> QED BY <2>2, <2>3, RunsCounted DEF Numbered
<1>6. ASSUME NEW q \in Runs, Started(q)'
      PROVE  (ident[q].gen)' \in 1 .. Cardinality(Runs)
  <2>1. CASE q = r
    BY <1>1, <1>5, <2>1 DEF SupInv, SupTyped
  <2>2. CASE q # r
    <3>1. ident'[q] = ident[q] /\ Started(q)
      BY <1>1, <1>6, <2>2 DEF SupInv, SupTyped, Started
    <3> QED BY <3>1 DEF Numbered
  <2> QED BY <2>1, <2>2
<1> QED BY <1>1, <1>4, <1>6 DEF Numbered

LEMMA CrashNumbers ==
  ASSUME SupInv, Numbered, DaemonDies
  PROVE  Numbered'
<1> USE SupervisorAssumption
<1>1. /\ next' = 0 /\ ident' = ident /\ crashes < MaxCrashes /\ crashes' = crashes + 1
      /\ reaper' = [r \in Runs |-> IF reaper[r] = "none" THEN "none" ELSE "lost"]
  BY DEF DaemonDies
<1>2. CurrentRuns' = {}
  BY <1>1 DEF CurrentRuns, Current
<1>3. Cardinality(CurrentRuns)' = 0
  BY <1>2, FS_EmptySet
<1> QED BY <1>1, <1>3 DEF Numbered, Started

LEMMA NumberedKept ==
  ASSUME IsFiniteSet(Runs), SupInv, Numbered, [Next]_vars
  PROVE  Numbered'
<1>1. ASSUME UNCHANGED <<ident, next, crashes, reaper>> PROVE Numbered'
  BY <1>1, SameRuns DEF Current
<1>2. CASE Calls
  BY <1>1, <1>2 DEF Calls, BeginStop, BeginAlive, CallStep
<1>3. CASE Processes
  BY <1>1, <1>3 DEF Processes, Fork, LeaderExits, OthersExit, TakePid, Kernel
<1>4. CASE Crash
  BY <1>4, CrashNumbers DEF Crash
<1>5. ASSUME NEW r \in Runs, NEW p \in Pids, StartRun(r, p) PROVE Numbered'
  BY <1>5, StartNumbers DEF StartRun
<1>6. ASSUME NEW r \in Runs, Reaper(r) PROVE Numbered'
  <2>1. /\ UNCHANGED <<ident, next, crashes>>
        /\ reaper[r] \in {"waiting", "reaped", "closed", "deleted"}
        /\ \E step \in {"reaped", "closed", "deleted", "over"} :
              reaper' = [reaper EXCEPT ![r] = step]
    BY <1>6 DEF Reaper, ReaperCloses, Wait, CloseDone, DeleteRecord, ReaperEnds
  <2>2. \A q \in Runs : Current(q)' <=> Current(q)
    BY <2>1 DEF SupInv, SupTyped, Current
  <2> QED BY <2>1, <2>2, SameRuns
<1>7. ASSUME NEW r \in Runs, Output(r) PROVE Numbered'
  BY <1>1, <1>7 DEF Output, CaptureEnds, Capture, supervisor
<1>8. CASE UNCHANGED vars
  BY <1>1, <1>8 DEF vars, supervisor
<1> QED BY <1>2, <1>3, <1>4, <1>5, <1>6, <1>7, <1>8 DEF Next

-----------------------------------------------------------------------------
\* The log of the link, whatever the supervisor does: its steps are the log's,
\* or the daemon died and the log starts anew.
LEMMA LogKept ==
  ASSUME FollowInv, RingInv, [Next]_vars
  PROVE  FollowInv' /\ RingInv'
<1>1. CASE [LogNext]_logs
  BY <1>1, FollowInvKept, RingKeeps
<1>2. CASE Crash
  <2>1. /\ records' = <<>> /\ bytes' = 0 /\ history' = <<>> /\ closed' = FALSE
        /\ followers' = {} /\ fol' = [f \in Followers |-> NoFollower]
        /\ written' \in 0 .. MaxLines
    BY <1>2 DEF Crash, FollowInv, FollowersTyped
  <2>2. FollowInv'
    BY <2>1, NoFollowerTyped DEF FollowInv, FollowersTyped, InMap
  <2>3. RingInv'
    <3>1. <<>> \in Seq(Line) /\ Len(<<>>) = 0 /\ 0 <= Capacity
      BY LogAssumption
    <3>2. SubSeq(<<>>, 1, 0) = <<>>
      BY SubSeqEmpty
    <3> QED BY <2>1, <3>1, <3>2, SizeEmpty DEF RingInv, RingIsNewest
  <2> QED BY <2>2, <2>3
<1>3. Calls \/ Processes => UNCHANGED logs
  BY DEF Calls, Processes
<1>4. ASSUME NEW r \in Runs, Reaper(r) \/ Output(r) \/ \E p \in Pids : StartRun(r, p)
      PROVE  [LogNext]_logs
  BY <1>4 DEF Reaper, ReaperCloses, Output, CaptureEnds, Capture, StartRun, LogNext
<1>5. CASE UNCHANGED vars
  BY <1>1, <1>5 DEF vars
<1> QED BY <1>1, <1>2, <1>3, <1>4, <1>5 DEF Next

LEMMA LogKeptAlways == Spec => [](FollowInv /\ RingInv)
<1>1. Init => FollowInv /\ RingInv
  BY FollowInvStarts, RingEmpty DEF Init, LogInit
<1>2. (FollowInv /\ RingInv) /\ [Next]_vars => (FollowInv /\ RingInv)'
  BY LogKept
<1> QED BY <1>1, <1>2, PTL DEF Spec

\* Only a run has a capture goroutine.
LEMMA CapturingKept ==
  ASSUME capturing \subseteq Runs, [Next]_vars
  PROVE  (capturing \subseteq Runs)'
  BY DEF Next, Calls, Processes, Crash, StartRun, Reaper, ReaperCloses, Output, CaptureEnds,
         Capture, vars

LEMMA WholeTyped ==
  ASSUME IsFiniteSet(Runs), SupInv, Numbered, FollowInv, RingInv, capturing \subseteq Runs
  PROVE  TypeOK
<1>1. next \in 0 .. Cardinality(Runs)
  BY RunsCounted DEF Numbered
<1>2. ASSUME NEW r \in Runs, Started(r) PROVE ident[r] \in Identity
  <2>1. ident[r] \in Tagged /\ ident[r].gen \in 1 .. Cardinality(Runs)
    BY <1>2 DEF SupInv, SupTyped, Started, Numbered
  <2> QED BY <2>1 DEF Tagged, Identity
<1>3. ident \in [Runs -> Identity \union {NoIdentity}]
  BY <1>2 DEF SupInv, SupTyped, Started
<1>4. ASSUME NEW e \in procs PROVE e \in Entry
  <2>1. e \in [id: Tagged, run: Runs] /\ ident[e.run] = e.id /\ Current(e.run)
    BY DEF SupInv, SupTyped, RecordsCurrent
  <2>2. Started(e.run)
    BY <2>1 DEF SupInv, ReapersKnown, Current
  <2> QED BY <1>2, <2>1, <2>2 DEF Entry
<1>5. SupervisorTypeOK
  BY <1>1, <1>3, <1>4 DEF SupInv, SupTyped, SupervisorTypeOK, Numbered
<1> QED BY <1>5, LogTyped DEF TypeOK

\* Whatever the processes, the reapers, the calls and the crashes do, the
\* supervisor and the log stay well formed; the numbers that next gives out
\* stay within the runs (supervisor_linux.go, Start and the reaper).
THEOREM TypesHold ==
  ASSUME IsFiniteSet(Runs)
  PROVE  Spec => []TypeOK
<1> DEFINE Inv == Numbered /\ capturing \subseteq Runs
<1>1. Init => Inv
  <2> SUFFICES ASSUME Init PROVE Inv
    OBVIOUS
  <2>1. CurrentRuns = {} /\ \A r \in Runs : ~Started(r)
    BY DEF Init, SupervisorInit, CurrentRuns, Current, Started
  <2>2. Numbered
    BY <2>1, FS_EmptySet, SupervisorAssumption DEF Init, SupervisorInit, Numbered
  <2>3. capturing \subseteq Runs
    BY DEF Init
  <2> QED BY <2>2, <2>3
<1>2. SupInv /\ Inv /\ [Next]_vars => Inv'
  BY NumberedKept, CapturingKept
<1>3. SupInv /\ Inv /\ (FollowInv /\ RingInv) => TypeOK
  BY WholeTyped
<1> QED BY <1>1, <1>2, <1>3, SupInvAlways, LogKeptAlways, PTL DEF Spec

-----------------------------------------------------------------------------
\* Followers beside the supervisor: handlers follow the log, read and leave while
\* runs start, write and end.
Streams ==
  /\ \E f \in Followers : Reader(f) \/ Writer(f) \/ Watcher(f)
  /\ UNCHANGED <<supervisor, capturing>>

FollowedSpec == Init /\ [][Next \/ Streams]_vars

\* A reaper that has ended has closed the log, for good.
ReaperClosed == \A r \in Runs : reaper[r] = "over" => closed

FollowedInv == SupInv /\ FollowInv /\ RingInv /\ ReaperClosed

LEMMA ReaperClosedKept ==
  ASSUME SupInv, ReaperClosed, [Next]_vars
  PROVE  ReaperClosed'
<1>1. reaper \in [Runs -> ReaperStep]
  BY DEF SupInv, SupTyped
<1>2. ASSUME UNCHANGED reaper, closed => closed' PROVE ReaperClosed'
  BY <1>2 DEF ReaperClosed
<1>3. CASE Calls
  BY <1>2, <1>3 DEF Calls, BeginStop, BeginAlive, CallStep, logs
<1>4. CASE Processes
  BY <1>2, <1>4 DEF Processes, Fork, LeaderExits, OthersExit, TakePid, Kernel, logs
<1>5. CASE Crash
  BY <1>5 DEF Crash, DaemonDies, ReaperClosed
<1>6. ASSUME NEW r \in Runs, NEW p \in Pids, StartRun(r, p) PROVE ReaperClosed'
  <2>1. reaper' = [reaper EXCEPT ![r] = "waiting"] /\ closed' = closed
    BY <1>6 DEF StartRun, Start, logs
  <2> QED BY <1>1, <2>1 DEF ReaperClosed
<1>7. ASSUME NEW r \in Runs, ReaperCloses(r) PROVE ReaperClosed'
  BY <1>7 DEF ReaperCloses, CloseLog, ReaperClosed
<1>8. ASSUME NEW r \in Runs, Wait(r) \/ CloseDone(r) \/ DeleteRecord(r), UNCHANGED logs
      PROVE  ReaperClosed'
  <2>1. closed' = closed /\ \E step \in {"reaped", "closed", "deleted"} :
                              reaper' = [reaper EXCEPT ![r] = step]
    BY <1>8 DEF Wait, CloseDone, DeleteRecord, logs
  <2> QED BY <1>1, <2>1 DEF ReaperClosed
<1>9. ASSUME NEW r \in Runs, Output(r) PROVE ReaperClosed'
  BY <1>2, <1>9 DEF Output, CaptureEnds, Capture, AppendLine, supervisor, logs
<1>10. CASE UNCHANGED vars
  BY <1>2, <1>10 DEF vars, supervisor, logs
<1> QED BY <1>3, <1>4, <1>5, <1>6, <1>7, <1>8, <1>9, <1>10 DEF Next, Reaper

\* A follower moves nothing of the supervisor's, and opens no log.
LEMMA StreamsKeep ==
  ASSUME FollowedInv, Streams
  PROVE  FollowedInv'
<1>1. LogNext
  BY DEF Streams, LogNext
<1>2. FollowInv' /\ RingInv'
  BY <1>1, FollowInvKept, RingKeeps DEF FollowedInv
<1>3. SupInv'
  BY SupUnmoved DEF Streams, FollowedInv
<1>4. reaper' = reaper /\ closed' = closed
  BY DEF Streams, supervisor, Reader, Writer, Watcher, Follow, ReaderReads, ReaderLeaves,
         WriterTakes, WriteFails, WriterStops, WatcherRemoves, WatcherStops, Log
<1> QED BY <1>2, <1>3, <1>4 DEF FollowedInv, ReaperClosed

LEMMA FollowedAlways == FollowedSpec => []FollowedInv
<1>1. Init => FollowedInv
  <2> SUFFICES ASSUME Init PROVE FollowedInv
    OBVIOUS
  <2>1. FollowInv /\ RingInv
    BY FollowInvStarts, RingEmpty DEF Init, LogInit
  <2>2. ReaperClosed
    BY DEF Init, SupervisorInit, ReaperClosed
  <2> QED BY <2>1, <2>2, SupInvStarts DEF FollowedInv
<1>2. FollowedInv /\ [Next]_vars => FollowedInv'
  BY SupInvKept, LogKept, ReaperClosedKept DEF FollowedInv
<1>3. FollowedInv /\ [Next \/ Streams]_vars => FollowedInv'
  BY <1>2, StreamsKeep
<1> QED BY <1>1, <1>3, PTL DEF FollowedSpec

\* What the log and the supervisor promise alone they promise together, with any
\* number of followers: reapers close the log again, late captures append to a
\* closed one, and a daemon that comes back begins with an empty one (store.go,
\* Append, Follow and Close; supervisor_linux.go, capture and the reaper).
THEOREM PromisesHoldTogether ==
  FollowedSpec => [](/\ RingIsNewest /\ ReleasedOnce /\ ClosedEndsStreams
                     /\ RunningIsRecorded /\ StopMeansDead /\ DeadMeansExited)
<1>1. FollowInv => ReleasedOnce /\ ClosedEndsStreams
  BY DEF FollowInv, FollowersTyped, InMap, ReleasedOnce, ClosedEndsStreams
<1>2. RingInv => RingIsNewest
  BY DEF RingInv
<1>3. SupInv => RunningIsRecorded /\ StopMeansDead /\ DeadMeansExited
  BY DEF SupInv
<1>4. FollowedInv => /\ RingIsNewest /\ ReleasedOnce /\ ClosedEndsStreams
                     /\ RunningIsRecorded /\ StopMeansDead /\ DeadMeansExited
  BY <1>1, <1>2, <1>3 DEF FollowedInv
<1> QED BY <1>4, FollowedAlways, PTL

\* A run's end ends the streams of its link: once its reaper is through nobody
\* waits on the log, also no follower that came in between or after, and also
\* while a later run of the link writes (supervisor_linux.go, the reaper's
\* CloseLog; Follow and Close in store.go).
THEOREM EndedRunEndsStreams ==
  FollowedSpec =>
    [](\A r \in Runs : reaper[r] = "over" =>
         followers = {} /\ \A f \in Followers : fol[f].reader # "open")
<1>1. FollowedInv => \A r \in Runs : reaper[r] = "over" =>
                       followers = {} /\ \A f \in Followers : fol[f].reader # "open"
  BY DEF FollowedInv, ReaperClosed, FollowInv, FollowersTyped, InMap
<1> QED BY <1>1, FollowedAlways, PTL
=============================================================================
