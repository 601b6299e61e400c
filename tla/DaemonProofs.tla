---------------------------- MODULE DaemonProofs ----------------------------
(***************************************************************************)
(* The gate and the stop function keep their promises for any number of    *)
(* mutations and streams; the inductive invariant says, for each place of  *)
(* the stop function, what the places before it have established.  Then    *)
(* the daemon from its start to its stop: that invariant holds from the    *)
(* first step of Start on, what a failed start and a stop give back, and   *)
(* the schema that an open finds, for any number of processes, releases,   *)
(* requests and streams.                                                   *)
(***************************************************************************)
EXTENDS Daemon, FiniteSetTheorems, TLAPS

-----------------------------------------------------------------------------
\* The gate and the stop function.

\* The counter counts the mutations in flight.
Counted == active = Cardinality(InFlight)

\* The places of the stop function after the drain began, and after the servers.
Begun == {"await", "servers", "connections", "cancel", "cleanup", "lock", "sweep", "close", "stopped"}
Late  == {"cancel", "cleanup", "lock", "sweep", "close", "stopped"}

\* The gate closes with the drain, and the channel exists only from then on.
Closing == /\ stop \in Begun => draining
           /\ drained # "none" => draining
           /\ stop = "await" => drained # "none"

\* An open channel has a mutation to close it; a closed one is final.
Channel == /\ drained = "open" => active > 0
           /\ drained = "closed" => active = 0

\* Nothing is in flight once the drain succeeded, unless the time is over.
Quiet == stop \in {"servers", "connections"} \/ (stop \in Late /\ ~expired) \/ swept => InFlight = {}

\* The same for the cleanup goroutine after the wait for it.
CleanupGone == (stop \in {"lock", "sweep"} /\ ~expired) \/ swept => cleanup = "done"

\* A sweep comes at the end, and what was not reported has been done.
Reported == /\ swept => stop \in {"close", "stopped"}
            /\ stop \in {"close", "stopped"} /\ out = "nil" => swept
            /\ stop = "connections" => ~listening
            /\ stop \in Late /\ out = "nil" => ~listening /\ Idle

IInv == TypeOK /\ Counted /\ Closing /\ Channel /\ Quiet /\ CleanupGone /\ Reported
-----------------------------------------------------------------------------
\* Facts about the mutations in flight.

\* The set in flight is finite and no larger than the set of mutations.
LEMMA InFlightBounded ==
  ASSUME NEW S \in SUBSET Mutations
  PROVE  /\ IsFiniteSet(S) /\ Cardinality(S) \in 0 .. Cardinality(Mutations)
         /\ Cardinality(S) = 0 <=> S = {}
<1>1. IsFiniteSet(Mutations) /\ Cardinality(Mutations) \in Nat
  BY FS_CardinalityType, DaemonAssumption
<1>2. IsFiniteSet(S) /\ Cardinality(S) <= Cardinality(Mutations)
  BY <1>1, FS_Subset
<1>3. Cardinality(S) \in Nat /\ (Cardinality(S) = 0 <=> S = {})
  BY <1>2, FS_CardinalityType, FS_EmptySet
<1> QED BY <1>1, <1>2, <1>3

\* The part of the type invariant that holds whatever the counter is.
Shape == /\ draining \in BOOLEAN /\ drained \in {"none", "open", "closed"}
         /\ mutation \in [Mutations -> Handling \union {"new", "refused", "done"}]
         /\ stream \in [Streams -> {"new", "open", "ended"}]
         /\ listening \in BOOLEAN /\ mu \in Mutations \union {Free, Cleanup, Stopper}
         /\ cleanup \in {"idle", "waiting", "working", "done"} /\ cancelled \in BOOLEAN
         /\ stop \in Begun \union {"running", "drain"}
         /\ expired \in BOOLEAN /\ out \in {"nil", "error"} /\ swept \in BOOLEAN

\* A counter that counts is of its type.
LEMMA CounterTyped == Shape /\ Counted => TypeOK
<1> SUFFICES ASSUME Shape, Counted PROVE TypeOK OBVIOUS
<1>1. InFlight \in SUBSET Mutations BY DEF InFlight
<1>2. active \in 0 .. Cardinality(Mutations) BY <1>1, InFlightBounded DEF Counted
<1> QED BY <1>2 DEF Shape, TypeOK, Begun

\* The counter is zero exactly when nothing is in flight.
LEMMA CountedZero == Counted => (active = 0 <=> InFlight = {}) /\ active \in Nat
<1> SUFFICES ASSUME Counted PROVE (active = 0 <=> InFlight = {}) /\ active \in Nat OBVIOUS
<1>1. InFlight \in SUBSET Mutations BY DEF InFlight
<1> QED BY <1>1, InFlightBounded DEF Counted

\* How each step of the gate changes the set in flight, and that it counts it.
LEMMA GateCounts ==
  ASSUME TypeOK, Counted, NEW m \in Mutations
  PROVE  /\ Admit(m) => Counted' /\ InFlight' = InFlight \union {m}
         /\ Leave(m) => Counted' /\ InFlight' = InFlight \ {m}
         /\ Refuse(m) \/ Work(m) \/ WorkEnds(m) => Counted' /\ InFlight' = InFlight
<1>0. InFlight \in SUBSET Mutations /\ IsFiniteSet(InFlight)
  BY InFlightBounded DEF InFlight
<1>1. ASSUME Admit(m) PROVE Counted' /\ InFlight' = InFlight \union {m}
  <2>1. InFlight' = InFlight \union {m} /\ m \notin InFlight
    BY <1>1 DEF Admit, InFlight, Handling, TypeOK
  <2>2. Cardinality(InFlight \union {m}) = Cardinality(InFlight) + 1
    BY <1>0, <2>1, FS_AddElement
  <2> QED BY <1>1, <2>1, <2>2 DEF Admit, Counted
<1>2. ASSUME Leave(m) PROVE Counted' /\ InFlight' = InFlight \ {m}
  <2>1. InFlight' = InFlight \ {m} /\ m \in InFlight
    BY <1>2 DEF Leave, InFlight, Handling, TypeOK
  <2>2. Cardinality(InFlight \ {m}) = Cardinality(InFlight) - 1
    BY <1>0, <2>1, FS_RemoveElement
  <2> QED BY <1>2, <2>1, <2>2 DEF Leave, Counted
<1>3. ASSUME Refuse(m) \/ Work(m) \/ WorkEnds(m) PROVE Counted' /\ InFlight' = InFlight
  <2>1. InFlight' = InFlight
    BY <1>3 DEF Refuse, Work, WorkEnds, InFlight, Handling, TypeOK
  <2> QED BY <1>3, <2>1 DEF Refuse, Work, WorkEnds, Counted
<1> QED BY <1>1, <1>2, <1>3

-----------------------------------------------------------------------------
\* The invariant holds at first and after every step.

\* A daemon of which nobody has asked for anything yet, listening or not.
LEMMA FreshInv ==
  ASSUME Fresh, listening \in BOOLEAN, cleanup \in {"idle", "done"} PROVE IInv
<1>1. InFlight = {} BY DEF Fresh, InFlight, Handling
<1>2. Counted BY <1>1, FS_EmptySet DEF Fresh, Counted
<1>3. Shape BY DEF Fresh, Shape, Begun
<1> QED BY <1>1, <1>2, <1>3, CounterTyped
        DEF Fresh, IInv, Closing, Channel, Quiet, CleanupGone, Reported, Begun, Late

LEMMA InitInv == Init => IInv
BY FreshInv DEF Init

\* A request that passes or is refused.  None passes once the gate is closed,
\* so that what is quiet stays quiet.
LEMMA RequestInv == ASSUME IInv, NEW m \in Mutations, Request(m) PROVE IInv'
<1>0. TypeOK /\ Counted BY DEF IInv
<1>1. Counted' BY <1>0, GateCounts DEF Request
<1>2. InFlight' = InFlight \/ ~draining
  BY <1>0, GateCounts DEF Request, Admit
<1>3. Shape' BY <1>0 DEF TypeOK, Shape, Begun, Request, Admit, Refuse, Handling, pass, stopv
<1>4. TypeOK' BY <1>1, <1>3, CounterTyped, PTL
<1>5. stop \in Begun \/ swept => draining BY DEF IInv, Closing, Reported, Begun
<1>6. Closing' /\ CleanupGone'
  BY DEF IInv, Closing, CleanupGone, Request, Admit, Refuse, stopv, pass, Begun
<1>7. Channel'
  BY <1>0 DEF IInv, Closing, Channel, Request, Admit, Refuse, TypeOK
<1>8. Quiet' BY <1>2, <1>5 DEF IInv, Quiet, Request, stopv, Begun, Late
<1>9. Reported' BY <1>2, <1>5 DEF IInv, Reported, Request, stopv, Begun, Late, Idle
<1> QED BY <1>1, <1>4, <1>6, <1>7, <1>8, <1>9 DEF IInv

\* A handler that works or leaves: the set in flight can only shrink, and the
\* last one to leave closes the channel.
LEMMA HandlerInv == ASSUME IInv, NEW m \in Mutations, Handler(m) PROVE IInv'
<1>0. TypeOK /\ Counted BY DEF IInv
<1>1. Counted' /\ InFlight' \subseteq InFlight BY <1>0, GateCounts DEF Handler
<1>2. Shape' BY <1>0 DEF TypeOK, Shape, Begun, Handler, Leave, Work, WorkEnds, Handling, pass, stopv
<1>3. TypeOK' BY <1>1, <1>2, CounterTyped, PTL
<1>4. Closing' /\ CleanupGone'
  BY DEF IInv, Closing, CleanupGone, Handler, Leave, Work, WorkEnds, stopv, pass, Begun
<1>5. Channel'
  <2>1. CASE Leave(m)
    <3>1. m \in InFlight BY <2>1 DEF Leave, InFlight, Handling
    <3>2. active \in Nat /\ active > 0 BY <1>0, <3>1, CountedZero
    <3> QED BY <1>0, <2>1, <3>2 DEF IInv, Closing, Channel, Leave, TypeOK
  <2>2. CASE Work(m) \/ WorkEnds(m) BY <2>2 DEF IInv, Channel, Work, WorkEnds
  <2> QED BY <2>1, <2>2 DEF Handler
<1>6. Quiet' BY <1>1 DEF IInv, Quiet, Handler, stopv
<1>7. Reported' BY <1>1 DEF IInv, Reported, Handler, stopv, Idle, Late
<1> QED BY <1>1, <1>3, <1>4, <1>5, <1>6, <1>7 DEF IInv

\* A stream opens only while the private server accepts requests.
LEMMA StreamInv ==
  ASSUME IInv, NEW s \in Streams, OpenStream(s) \/ EndStream(s) PROVE IInv'
<1>1. InFlight' = InFlight /\ Counted' BY DEF IInv, Counted, InFlight, OpenStream, EndStream, gate
<1>2. Shape' BY DEF IInv, TypeOK, Shape, Begun, OpenStream, EndStream, gate, pass, stopv
<1>3. TypeOK' BY <1>1, <1>2, CounterTyped, PTL
<1>4. Closing' /\ Channel' /\ CleanupGone' /\ Quiet'
  BY <1>1 DEF IInv, Closing, Channel, CleanupGone, Quiet, OpenStream, EndStream, gate, pass, stopv
<1>5. Idle /\ ~listening => Idle'
  BY <1>1 DEF Idle, OpenStream, EndStream, IInv, TypeOK
<1>6. Reported' BY <1>5 DEF IInv, Reported, OpenStream, EndStream, stopv, Late
<1> QED BY <1>1, <1>3, <1>4, <1>6 DEF IInv

\* The cleanup goroutine touches neither gate nor stop; once gone it stays so.
LEMMA CleanupInv == ASSUME IInv, CleanupGoroutine PROVE IInv'
<1> USE DEF CleanupGoroutine, Tick, PassBegins, PassEnds, CleanupEnds
<1>1. InFlight' = InFlight /\ Counted' /\ Idle' = Idle
  BY DEF IInv, Counted, InFlight, Idle, gate
<1>2. Shape' BY DEF IInv, TypeOK, Shape, Begun, gate, stopv
<1>3. TypeOK' BY <1>1, <1>2, CounterTyped, PTL
<1>4. Closing' /\ Channel' /\ CleanupGone' /\ Quiet' /\ Reported'
  BY <1>1 DEF IInv, Closing, Channel, CleanupGone, Quiet, Reported, gate, stopv
<1> QED BY <1>1, <1>3, <1>4 DEF IInv

\* One step of the stop function: what each place has waited for is what the
\* invariant says of the next one.
LEMMA StopInv == ASSUME IInv, StopSignal \/ StopStep PROVE IInv'
<1> USE DEF Proceed, Result
<1>0. mutation' = mutation /\ active' = active /\ stream' = stream /\ cleanup' = cleanup
  BY DEF StopSignal, StopStep, Drain, DrainReturns, CloseListeners, ServersReturn, CancelCleanup,
         AwaitCleanup, ShutdownBegins, ShutdownReturns, CloseRest, gate, pass
<1>1. InFlight' = InFlight /\ Counted' /\ Idle' = Idle
  BY <1>0 DEF IInv, Counted, InFlight, Idle
<1>2. (active = 0 <=> InFlight = {}) /\ active \in Nat BY CountedZero DEF IInv
<1>3. /\ Shape' /\ Closing' /\ Channel' /\ Quiet' /\ CleanupGone' /\ Reported'
  <2> USE DEF IInv, TypeOK, Shape, Closing, Channel, Quiet, CleanupGone, Reported, Begun, Late,
              gate, pass
  <2>1. CASE StopSignal BY <1>0, <1>1, <2>1 DEF StopSignal
  <2>2. CASE Drain BY <1>0, <1>1, <1>2, <2>2 DEF Drain
  <2>3. CASE DrainReturns BY <1>0, <1>1, <1>2, <2>3 DEF DrainReturns
  <2>4. CASE CloseListeners
    <3>1. Shape' /\ Closing' /\ Channel' BY <1>0, <1>1, <2>4 DEF CloseListeners
    <3>2. Quiet' /\ CleanupGone' BY <1>0, <1>1, <2>4 DEF CloseListeners
    <3>3. Reported' BY <1>0, <1>1, <2>4 DEF CloseListeners
    <3> QED BY <3>1, <3>2, <3>3
  <2>5. CASE ServersReturn BY <1>0, <1>1, <2>5 DEF ServersReturn
  <2>6. CASE CancelCleanup BY <1>0, <1>1, <2>6 DEF CancelCleanup
  <2>7. CASE AwaitCleanup BY <1>0, <1>1, <2>7 DEF AwaitCleanup
  <2>8. CASE ShutdownBegins BY <1>0, <1>1, <2>8 DEF ShutdownBegins
  <2>9. CASE ShutdownReturns
    <3>1. (~expired /\ swept' /\ out' = out) \/ (swept' = swept /\ out' = "error")
      BY <2>9 DEF ShutdownReturns
    <3>2. Shape' /\ Closing' /\ Channel' BY <1>0, <1>1, <2>9, <3>1 DEF ShutdownReturns
    <3>3. Quiet' /\ CleanupGone' BY <1>0, <1>1, <2>9, <3>1 DEF ShutdownReturns
    <3>4. Reported' BY <1>0, <1>1, <2>9, <3>1 DEF ShutdownReturns
    <3> QED BY <3>2, <3>3, <3>4
  <2>10. CASE CloseRest BY <1>0, <1>1, <2>10 DEF CloseRest
  <2> QED BY <2>1, <2>2, <2>3, <2>4, <2>5, <2>6, <2>7, <2>8, <2>9, <2>10 DEF StopStep
<1>4. TypeOK' BY <1>1, <1>3, CounterTyped, PTL
<1> QED BY <1>1, <1>3, <1>4 DEF IInv

\* What the deadline takes away is only what depended on time being left.
LEMMA ExpireInv == ASSUME IInv, Expire PROVE IInv'
<1>1. InFlight' = InFlight /\ Counted' /\ Idle' = Idle
  BY DEF IInv, Counted, InFlight, Idle, Expire, gate
<1>2. Shape' BY DEF IInv, TypeOK, Shape, Begun, Expire, gate, pass
<1>3. TypeOK' BY <1>1, <1>2, CounterTyped, PTL
<1>4. Closing' /\ Channel' /\ CleanupGone' /\ Quiet' /\ Reported'
  BY <1>1 DEF IInv, Closing, Channel, CleanupGone, Quiet, Reported, Expire, gate, pass
<1> QED BY <1>1, <1>3, <1>4 DEF IInv

LEMMA StutterInv == ASSUME IInv, UNCHANGED vars PROVE IInv'
<1> USE DEF vars, gate, pass, stopv
<1>1. InFlight' = InFlight /\ Idle' = Idle BY DEF InFlight, Idle
<1> QED BY <1>1 DEF IInv, TypeOK, Counted, Closing, Channel, Quiet, CleanupGone, Reported

LEMMA StepInv == IInv /\ [Next]_vars => IInv'
<1> SUFFICES ASSUME IInv, [Next]_vars PROVE IInv' OBVIOUS
<1> QED BY RequestInv, HandlerInv, StreamInv, CleanupInv, StopInv, ExpireInv, StutterInv DEF Next

THEOREM Invariance == Spec => []IInv
BY InitInv, StepInv, PTL DEF Spec

-----------------------------------------------------------------------------
\* The properties of the stop, for any number of mutations and streams.

\* Every variable keeps its type; the counter of active mutations is never
\* negative and never above the number of requests.
THEOREM TypeCorrect == Spec => []TypeOK
<1>1. IInv => TypeOK BY DEF IInv
<1> QED BY <1>1, Invariance, PTL

\* What the invariant promises.
LEMMA IInvPromises == IInv => SweptIsFinal /\ NoLostWakeup /\ CleanStop
<1> SUFFICES ASSUME IInv PROVE SweptIsFinal /\ NoLostWakeup /\ CleanStop OBVIOUS
<1>1. SweptIsFinal BY DEF IInv, SweptIsFinal, Quiet, CleanupGone, Reported, Closing, Begun
<1>2. NoLostWakeup BY DEF IInv, NoLostWakeup, Closing, Channel, TypeOK
<1>3. CleanStop
  <2> SUFFICES ASSUME stop = "stopped", out = "nil"
               PROVE  swept /\ Idle /\ ~listening /\ active = 0
    BY DEF CleanStop
  <2>1. swept /\ Idle /\ ~listening BY DEF IInv, Reported, Late
  <2>2. active = 0 BY <2>1, CountedZero DEF IInv, Idle
  <2> QED BY <2>1, <2>2
<1> QED BY <1>1, <1>2, <1>3

\* API.Drain and API.mutation: nothing can start a process after the sweep.
THEOREM SweptIsFinalAlways == Spec => []SweptIsFinal
BY IInvPromises, Invariance, PTL

\* API.mutation's deferred function: the drain never waits for nobody.
THEOREM NoLostWakeupAlways == Spec => []NoLostWakeup
BY IInvPromises, Invariance, PTL

\* The stop function's nil: swept, idle, closed and counted down to zero.
THEOREM CleanStopAlways == Spec => []CleanStop
BY IInvPromises, Invariance, PTL

-----------------------------------------------------------------------------
\* From the start on.

\* Only the holder of the lock upgrades, and it has not gone back.
Locked == \A p \in Openers : opening[p] = "upgrading" => writer = p /\ schema <= draft

\* How far Start has come is what is held.
Held == /\ boot # "serving" => stop = "running" /\ ~listening
        /\ boot \in {"open", "caddy", "probe", "token", "repair", "failed"} => cleanup = "done"
        /\ boot = "open" => child = "none"
        /\ boot \notin {"open", "failed", "serving"} => opening[Self] = "opened"
        /\ boot = "serving" /\ stop # "stopped" => opening[Self] = "opened"
        /\ NothingHeld

BootTypeOK ==
  /\ boot \in {"open", "caddy", "probe", "token", "repair", "listen", "unwind", "serving", "failed"}
  /\ child \in {"none", "running", "exited", "reaped"}

DaemonInv == IInv /\ MigrationTypeOK /\ Locked /\ BootTypeOK /\ Held

-----------------------------------------------------------------------------
\* The database.

\* An opener's step keeps the lock's meaning: Begin takes a free lock, so that
\* the schema cannot move under the one that upgrades.
LEMMA OpenStepInv ==
  ASSUME MigrationTypeOK, Locked, NEW p \in Openers, OpenStep(p)
  PROVE  MigrationTypeOK' /\ Locked'
<1> USE MigrationAssumption DEF MigrationTypeOK, Locked, Moves
<1>1. CASE Begin(p) BY <1>1 DEF Begin
<1>2. CASE GiveUp(p) BY <1>2 DEF GiveUp
<1>3. CASE Upgrade(p) BY <1>3 DEF Upgrade
<1>4. CASE Commit(p) BY <1>4 DEF Commit, MayCommit
<1>5. CASE Rollback(p) BY <1>5 DEF Rollback
<1> QED BY <1>1, <1>2, <1>3, <1>4, <1>5 DEF OpenStep

\* Only Commit opens, at the version of the release and never below the file's.
LEMMA OpenStepOwn ==
  ASSUME MigrationTypeOK, Locked, NEW p \in Openers, OpenStep(p), NEW q \in Openers, Opens(q)
  PROVE  OwnSchema(q)
<1> USE MigrationAssumption DEF MigrationTypeOK, Locked, Moves, Opens, OwnSchema
<1>1. CASE Commit(p) BY <1>1 DEF Commit, MayCommit
<1>2. CASE Begin(p) \/ GiveUp(p) \/ Upgrade(p) \/ Rollback(p)
  BY <1>2 DEF Begin, GiveUp, Upgrade, Rollback
<1> QED BY <1>1, <1>2 DEF OpenStep

\* Closing the store is no open, and leaves the lock alone.
LEMMA CloseStoreInv ==
  ASSUME MigrationTypeOK, Locked, CloseStore
  PROVE  /\ MigrationTypeOK' /\ Locked'
         /\ \A q \in Openers : ~Opens(q)
BY StartAssumption DEF Opens, MigrationTypeOK, Locked, CloseStore

-----------------------------------------------------------------------------
\* The steps of the daemon.

\* Until the stop begins, listening, cancelling and having a cleanup goroutine
\* are of no consequence to the invariant of DaemonStop.
LEMMA BeforeStop ==
  ASSUME IInv, stop = "running", UNCHANGED <<gate, stream, mu, stopv>>,
         listening' \in BOOLEAN, cancelled' \in BOOLEAN,
         cleanup' \in {"idle", "waiting", "working", "done"}
  PROVE  IInv'
<1>1. InFlight' = InFlight /\ Counted' BY DEF IInv, Counted, InFlight, gate
<1>2. Shape' BY DEF IInv, TypeOK, Shape, Begun, gate, stopv
<1>3. TypeOK' BY <1>1, <1>2, CounterTyped, PTL
<1>4. Closing' /\ Channel' /\ CleanupGone' /\ Quiet' /\ Reported'
  BY <1>1 DEF IInv, Closing, Channel, CleanupGone, Quiet, Reported, Late, gate, stopv
<1> QED BY <1>1, <1>3, <1>4 DEF IInv

\* What a return with an error leaves.
LEMMA FailGivesBack ==
  ASSUME DaemonInv, NEW pc \in {"caddy", "probe", "token", "repair", "unwind"}, Fail(pc)
  PROVE  /\ boot = pc /\ boot' = "failed" /\ child' \in {"none", "reaped"}
         /\ opening'[Self] = "closed" /\ MigrationTypeOK' /\ Locked'
<1>1. MigrationTypeOK' /\ Locked' BY CloseStoreInv DEF DaemonInv, Fail
<1>2. opening'[Self] = "closed" BY StartAssumption DEF DaemonInv, MigrationTypeOK, Fail, CloseStore
<1> QED BY <1>1, <1>2 DEF Fail, At, Stopped, DaemonInv, BootTypeOK

\* Start opens the database, or returns without it.
LEMMA OpenStoreInv == ASSUME DaemonInv, OpenStore PROVE DaemonInv'
<1>0. boot = "open" /\ UNCHANGED <<vars, child>> BY DEF OpenStore, At
<1>1. IInv' BY <1>0, StutterInv DEF DaemonInv
<1>2. MigrationTypeOK' /\ Locked'
  <2>1. CASE OpenStep(Self) BY <2>1, OpenStepInv, StartAssumption DEF DaemonInv
  <2>2. CASE UNCHANGED migration BY <2>2 DEF DaemonInv, MigrationTypeOK, Locked, migration
  <2> QED BY <2>1, <2>2 DEF OpenStore
<1>3. BootTypeOK' /\ Held'
  <2>1. CASE UNCHANGED boot
    BY <1>0, <2>1 DEF DaemonInv, BootTypeOK, Held, NothingHeld, vars, stopv, pass
  <2>2. CASE opening[Self] = "opened" /\ boot' \in {"caddy", "token"} /\ UNCHANGED migration
    BY <1>0, <2>2 DEF DaemonInv, BootTypeOK, Held, NothingHeld, vars, stopv, pass, migration
  <2>3. CASE opening[Self] = "failed" /\ boot' = "failed" /\ UNCHANGED migration
    BY <1>0, <2>3 DEF DaemonInv, BootTypeOK, Held, NothingHeld, vars, stopv, pass, migration
  <2> QED BY <2>1, <2>2, <2>3 DEF OpenStore, At
<1> QED BY <1>1, <1>2, <1>3 DEF DaemonInv

\* Any of the returns with an error, whatever the place.
LEMMA FailInv ==
  ASSUME DaemonInv, NEW pc \in {"caddy", "probe", "token", "repair", "unwind"}, Fail(pc),
         UNCHANGED vars, pc = "unwind" => cleanup = "done"
  PROVE  DaemonInv'
<1>1. /\ boot = pc /\ boot' = "failed" /\ child' \in {"none", "reaped"}
      /\ opening'[Self] = "closed" /\ MigrationTypeOK' /\ Locked'
  BY FailGivesBack
<1>2. IInv' BY StutterInv DEF DaemonInv
<1>3. BootTypeOK' /\ Held'
  BY <1>1 DEF DaemonInv, BootTypeOK, Held, NothingHeld, vars, stopv, pass
<1> QED BY <1>1, <1>2, <1>3 DEF DaemonInv

\* A step of Start that goes on: what is held does not change but as Held says.
LEMMA GoesOnInv ==
  ASSUME DaemonInv,
         UNCHANGED <<gate, stream, mu, stopv, migration>>,
         boot \in {"caddy", "probe", "token", "repair", "listen"},
         boot' \in {"probe", "token", "repair", "listen", "unwind", "serving"},
         boot' = "serving" \/ listening' = listening,
         boot' \in {"probe", "token", "repair"} => cleanup' = "done",
         listening' \in BOOLEAN, cancelled' \in BOOLEAN,
         cleanup' \in {"idle", "waiting", "working", "done"},
         child' = child \/ child' = "running"
  PROVE  DaemonInv'
<1>1. stop = "running" BY DEF DaemonInv, Held
<1>2. IInv' BY <1>1, BeforeStop DEF DaemonInv
<1>3. MigrationTypeOK' /\ Locked' BY DEF DaemonInv, MigrationTypeOK, Locked, migration
<1>4. BootTypeOK' /\ Held'
  BY <1>1 DEF DaemonInv, BootTypeOK, Held, NothingHeld, stopv, migration
<1> QED BY <1>2, <1>3, <1>4 DEF DaemonInv

LEMMA StartInv == ASSUME DaemonInv, StartStep \/ ProbeAnswers \/ ProbeTimesOut PROVE DaemonInv'
<1>0. /\ listening \in BOOLEAN /\ cancelled \in BOOLEAN
      /\ cleanup \in {"idle", "waiting", "working", "done"}
      /\ boot \in {"probe", "token", "repair", "caddy"} => cleanup = "done"
  BY DEF DaemonInv, IInv, TypeOK, Held
<1> USE DEF At, vars, pass
<1>1. CASE OpenStore BY <1>1, OpenStoreInv
<1>2. CASE StartChild
  <2>1. CASE Fail("caddy") BY <1>2, <2>1, FailInv DEF StartChild
  <2>2. CASE ~Fail("caddy") BY <1>0, <1>2, <2>2, GoesOnInv DEF StartChild
  <2> QED BY <2>1, <2>2
<1>3. CASE ReadAdminHash
  <2>1. CASE Fail("token") BY <1>3, <2>1, FailInv DEF ReadAdminHash
  <2>2. CASE ~Fail("token") BY <1>0, <1>3, <2>2, GoesOnInv DEF ReadAdminHash
  <2> QED BY <2>1, <2>2
<1>4. CASE Repair
  <2>1. CASE Fail("repair") /\ UNCHANGED cleanup BY <1>4, <2>1, FailInv DEF Repair
  <2>2. CASE ~(Fail("repair") /\ UNCHANGED cleanup) BY <1>0, <1>4, <2>2, GoesOnInv DEF Repair
  <2> QED BY <2>1, <2>2
<1>5. CASE Listen BY <1>0, <1>5, GoesOnInv DEF Listen
<1>6. CASE ListenFails BY <1>0, <1>6, GoesOnInv DEF ListenFails
<1>7. CASE Unwind BY <1>7, FailInv DEF Unwind
<1>8. CASE ProbeAnswers BY <1>0, <1>8, GoesOnInv DEF ProbeAnswers
<1>9. CASE ProbeTimesOut BY <1>9, FailInv DEF ProbeTimesOut
<1> QED BY <1>1, <1>2, <1>3, <1>4, <1>5, <1>6, <1>7, <1>8, <1>9 DEF StartStep

\* A child that ends was running, so that nothing had been given back yet.
LEMMA ChildExitsInv == ASSUME DaemonInv, ChildExits PROVE DaemonInv'
<1>1. IInv' BY StutterInv DEF DaemonInv, ChildExits
<1>2. MigrationTypeOK' /\ Locked' BY DEF DaemonInv, MigrationTypeOK, Locked, migration, ChildExits
<1>3. BootTypeOK' /\ Held'
  BY DEF DaemonInv, BootTypeOK, Held, NothingHeld, ChildExits, vars, stopv, pass, migration
<1> QED BY <1>1, <1>2, <1>3 DEF DaemonInv

\* What other processes do to the file is no concern of this daemon.
LEMMA OthersInv == ASSUME DaemonInv, Others PROVE DaemonInv'
<1>1. PICK p \in Openers \ {Self} : OpenStep(p) BY DEF Others
<1>2. opening'[Self] = opening[Self]
  BY <1>1, StartAssumption
     DEF DaemonInv, MigrationTypeOK, OpenStep, Begin, GiveUp, Upgrade, Commit, Rollback, Moves
<1>3. IInv' BY StutterInv DEF DaemonInv, Others
<1>4. MigrationTypeOK' /\ Locked' BY <1>1, OpenStepInv DEF DaemonInv
<1>5. BootTypeOK' /\ Held'
  BY <1>2 DEF DaemonInv, BootTypeOK, Held, NothingHeld, Others, vars, stopv, pass
<1> QED BY <1>3, <1>4, <1>5 DEF DaemonInv

\* The cleanup goroutine does nothing where there is none.
LEMMA BesideInv == ASSUME DaemonInv, Beside PROVE DaemonInv'
<1>1. IInv' BY CleanupInv DEF DaemonInv, Beside
<1>2. MigrationTypeOK' /\ Locked'
  BY DEF DaemonInv, MigrationTypeOK, Locked, migration, Beside, started
<1>3. cleanup # "done" /\ UNCHANGED <<boot, child, listening, stop>> /\ opening' = opening
  BY DEF Beside, started, migration, CleanupGoroutine, Tick, PassBegins, PassEnds, CleanupEnds, stopv
<1>4. BootTypeOK' /\ Held' BY <1>3 DEF DaemonInv, BootTypeOK, Held, NothingHeld
<1> QED BY <1>1, <1>2, <1>4 DEF DaemonInv

\* While the daemon serves, only the last step of the stop gives anything back.
LEMMA AroundInv == ASSUME DaemonInv, Next, Around PROVE DaemonInv'
<1>1. IInv' BY StepInv DEF DaemonInv
<1>2. stop' = "stopped" => stop \in {"close", "stopped"}
  BY DEF Next, Request, Handler, OpenStream, EndStream, CleanupGoroutine, StopSignal, StopStep,
         Drain, DrainReturns, CloseListeners, ServersReturn, CancelCleanup, AwaitCleanup,
         ShutdownBegins, ShutdownReturns, CloseRest, Expire, Proceed, stopv
<1>3. boot = "serving" /\ boot' = "serving" BY DEF Around
<1>4. CASE stop = "close" /\ stop' = "stopped"
  <2>1. child' = Stopped(child) /\ CloseStore BY <1>4 DEF Around
  <2>2. MigrationTypeOK' /\ Locked' BY <2>1, CloseStoreInv DEF DaemonInv
  <2>3. opening'[Self] = "closed" BY <2>1, StartAssumption DEF DaemonInv, MigrationTypeOK, CloseStore
  <2>4. BootTypeOK' /\ Held'
    BY <1>3, <1>4, <2>1, <2>3 DEF DaemonInv, BootTypeOK, Held, NothingHeld, Stopped
  <2> QED BY <1>1, <2>2, <2>4 DEF DaemonInv
<1>5. CASE ~(stop = "close" /\ stop' = "stopped")
  <2>1. UNCHANGED <<child, migration>> BY <1>5 DEF Around
  <2>2. MigrationTypeOK' /\ Locked' BY <2>1 DEF DaemonInv, MigrationTypeOK, Locked, migration
  <2>3. stop = "stopped" => stop' = "stopped"
    BY DEF Next, Request, Handler, OpenStream, EndStream, CleanupGoroutine, StopSignal, StopStep,
           Drain, DrainReturns, CloseListeners, ServersReturn, CancelCleanup, AwaitCleanup,
           ShutdownBegins, ShutdownReturns, CloseRest, Expire, Proceed, stopv
  <2>4. BootTypeOK' /\ Held'
    BY <1>2, <1>3, <1>5, <2>1, <2>3 DEF DaemonInv, BootTypeOK, Held, NothingHeld, migration
  <2> QED BY <1>1, <2>2, <2>4 DEF DaemonInv
<1> QED BY <1>4, <1>5

LEMMA DaemonStepInv == DaemonInv /\ [DaemonNext]_dvars => DaemonInv'
<1> SUFFICES ASSUME DaemonInv, [DaemonNext]_dvars PROVE DaemonInv' OBVIOUS
<1>1. CASE UNCHANGED dvars
  <2>1. IInv' BY <1>1, StutterInv DEF DaemonInv, dvars
  <2>2. MigrationTypeOK' /\ Locked' /\ BootTypeOK' /\ Held'
    BY <1>1 DEF DaemonInv, MigrationTypeOK, Locked, BootTypeOK, Held, NothingHeld,
                dvars, started, migration, vars, stopv, pass
  <2> QED BY <2>1, <2>2 DEF DaemonInv
<1>2. CASE DaemonNext
  BY <1>2, StartInv, ChildExitsInv, OthersInv, BesideInv, AroundInv DEF DaemonNext
<1> QED BY <1>1, <1>2

LEMMA DaemonInitInv == DaemonInit => DaemonInv
<1> SUFFICES ASSUME DaemonInit PROVE DaemonInv OBVIOUS
<1>1. IInv BY FreshInv DEF DaemonInit
<1>2. MigrationTypeOK /\ Locked
  BY MigrationAssumption DEF DaemonInit, MigrationInit, MigrationTypeOK, Locked
<1>3. BootTypeOK /\ Held BY DEF DaemonInit, BootTypeOK, Held, NothingHeld, Fresh
<1> QED BY <1>1, <1>2, <1>3 DEF DaemonInv

THEOREM DaemonInvariance == DaemonSpec => []DaemonInv
BY DaemonInitInv, DaemonStepInv, PTL DEF DaemonSpec

-----------------------------------------------------------------------------
\* The properties, for the daemon as a whole.

\* Every variable keeps its type, from the opening of the database to the end.
THEOREM StartTypeCorrect == DaemonSpec => []StartTypeOK
<1>1. DaemonInv => StartTypeOK BY DEF DaemonInv, IInv, BootTypeOK, StartTypeOK
<1> QED BY <1>1, DaemonInvariance, PTL

\* Start's returns with an error and the stop function: child and store are
\* given back at whatever point the start failed.
THEOREM NothingHeldAlways == DaemonSpec => []NothingHeld
<1>1. DaemonInv => NothingHeld BY DEF DaemonInv, Held
<1> QED BY <1>1, DaemonInvariance, PTL

\* migrate: an open that succeeds found or made exactly its own schema.
THEOREM OpensOwnSchemaAlways == DaemonSpec => OpensOwnSchema
<1>1. DaemonInv /\ [DaemonNext]_dvars => [\A p \in Openers : Opens(p) => OwnSchema(p)]_migration
  <2> SUFFICES ASSUME DaemonInv, DaemonNext PROVE (\A q \in Openers : Opens(q) => OwnSchema(q)) \/ UNCHANGED migration
    BY DEF dvars, started
  <2>1. CASE \E p \in Openers : OpenStep(p) BY <2>1, OpenStepOwn DEF DaemonInv
  <2>2. CASE CloseStore BY <2>2, CloseStoreInv DEF DaemonInv
  <2>3. CASE UNCHANGED migration BY <2>3
  <2>4. (\E p \in Openers : OpenStep(p)) \/ CloseStore \/ UNCHANGED migration
    BY StartAssumption
       DEF DaemonNext, StartStep, OpenStore, StartChild, ReadAdminHash, Repair, Listen, ListenFails,
           Unwind, Fail, ProbeAnswers, ProbeTimesOut, ChildExits, Others, Beside, started, Around
  <2> QED BY <2>1, <2>2, <2>3, <2>4
<1> QED BY <1>1, DaemonInvariance, PTL DEF DaemonSpec, OpensOwnSchema

\* The three promises of the stop hold with the start in front of it.
THEOREM StopPromisesAlways == DaemonSpec => [](SweptIsFinal /\ NoLostWakeup /\ CleanStop)
<1>1. DaemonInv => SweptIsFinal /\ NoLostWakeup /\ CleanStop
  BY IInvPromises DEF DaemonInv
<1> QED BY <1>1, DaemonInvariance, PTL
=============================================================================
