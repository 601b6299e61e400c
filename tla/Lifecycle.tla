----------------------------- MODULE Lifecycle -----------------------------
(***************************************************************************)
(* The link lifecycle of Mirage: application.Service (create, restart,     *)
(* delete, force-delete of a space), its compensation, the reconciliation  *)
(* pass, graceful shutdown, crash and start-up, over the ports it drives.  *)
(*                                                                         *)
(* Service.mu serialises the mutations, so at most one operation is in     *)
(* progress: op is its stack frame, and op.pc the next call it makes.      *)
(* Every call to the database, the port allocator, the supervisor, the     *)
(* health checker or the proxy is a step of its own; between two of them   *)
(* time passes, child processes die, the request is cancelled or the       *)
(* daemon crashes.                                                         *)
(***************************************************************************)
EXTENDS LinkStore, FiniteSets

CONSTANTS NoLink,      \* no link in hand
          TTLs,        \* the lifetimes a client may ask for
          URLs,        \* the health URLs a client may give, by their port
          MaxTime,     \* bound: the clock stops here
          MaxFaults,   \* bound: calls that fail for a reason of their own
          MaxCancels,  \* bound: operations whose context is cancelled
          MaxCrashes,  \* bound: crashes of the daemon
          MaxStops     \* bound: graceful shutdowns

ASSUME LifecycleAssumption ==
  /\ NoLink \notin Links
  /\ TTLs \subseteq Nat \ {0}
  /\ URLs \subseteq {NoPort, FixedPort}
  /\ MaxTime \in Nat
  /\ MaxFaults \in Nat
  /\ MaxCancels \in Nat
  /\ MaxCrashes \in Nat
  /\ MaxStops \in Nat

VARIABLES now,       \* the clock
          procs,     \* process groups: unused, alive or dead
          reserved,  \* listeners held by process.Allocator
          routes,    \* Mirage-owned proxy routes: the upstream port of each
          mode,      \* of the daemon
          op,        \* the operation that holds Service.mu
          spent      \* how much of each bound has been used

vars == <<spaces, rows, now, procs, reserved, routes, mode, op, spent>>
world == <<now, procs, reserved, routes>>

\* "stopped": the last Shutdown returned nil; "down": crashed, start-up
\* failed, or Shutdown returned an error.
Modes == {"down", "starting", "ready", "draining", "stopping", "stopped"}

Kinds == {"none", "request", "reconcile", "shutdown"}

StartPCs == {"allocate", "saveStarting", "releasePort", "spawn", "saveSpawned",
             "checkHealth", "saveHealthy", "addRoute", "saveActive", "unroute"}
CompensationPCs == {"removeRoute", "stopProcess", "returnPort"}
AfterPCs == {"saveFailed", "saveTerminal", "deleteRow", "saveCreating"}
LoopPCs == {"expired", "spaces", "purge", "inspect", "drop", "shut"}
PCs == {"idle"} \union StartPCs \union CompensationPCs \union AfterPCs \union LoopPCs

\* asOf is the instant the pass or the shutdown read the links by.  ended is
\* history for RepairedAfterPass: who had exited when the pass did so.
Operation == [kind: Kinds, pc: PCs, id: Links \union {NoLink}, l: LinkRow,
              then: {"fail", "destroy", "restart"}, term: Status,
              ret: {"idle"} \union LoopPCs, space: Spaces \union {NoSpace},
              todo: SUBSET Links, desired: SUBSET Links, asOf: Nat,
              ended: SUBSET Procs,
              compErr: BOOLEAN, err: BOOLEAN, cancelled: BOOLEAN]

Idle == [kind |-> "none", pc |-> "idle", id |-> NoLink, l |-> FreeLink,
         then |-> "fail", term |-> "deleted", ret |-> "idle", space |-> NoSpace,
         todo |-> {}, desired |-> {}, asOf |-> 0, ended |-> {},
         compErr |-> FALSE, err |-> FALSE, cancelled |-> FALSE]

TypeOK ==
  /\ StoreTypeOK
  /\ now \in Nat
  /\ procs \in [Procs -> {"unused", "alive", "dead"}]
  /\ reserved \subseteq Ports
  /\ routes \in [Links -> Ports \union {NoPort}]
  /\ mode \in Modes
  /\ op \in Operation
  /\ spent \in [faults: Nat, cancels: Nat, crashes: Nat, stops: Nat]

Init ==
  /\ StoreInit
  /\ now = 0
  /\ procs = [q \in Procs |-> "unused"]
  /\ reserved = {}
  /\ routes = [k \in Links |-> NoPort]
  /\ mode = "down"
  /\ op = Idle
  /\ spent = [faults |-> 0, cancels |-> 0, crashes |-> 0, stops |-> 0]

Alive(q)     == q \in Procs /\ procs[q] = "alive"
Unrouted     == [k \in Links |-> NoPort]
UnusedProcs  == {q \in Procs : procs[q] = "unused"}
EndedProcs   == {q \in Procs : procs[q] = "dead"}
\* Mutant: the allocator may hand out port zero.
AnyPort      == Ports \union {NoPort}
\* What net.Listen("127.0.0.1:0") may return: any port that Mirage itself does
\* not hold.  A child need not listen on its port, nor keep listening, so the
\* port recorded for a live link may be free, and may be handed out again.
FreePorts    == Ports \ reserved

----------------------------------------------------------------------------
(* Outcomes of a call.  With a cancelled context every adapter but the     *)
(* supervisor's fast path fails; otherwise a failure uses up one fault.    *)

CallOk   == ~op.cancelled /\ UNCHANGED spent
CallFails ==
  \/ op.cancelled /\ UNCHANGED spent
  \/ /\ ~op.cancelled
     /\ spent.faults < MaxFaults
     /\ spent' = [spent EXCEPT !.faults = @ + 1]

\* A statement that fails leaves the database as it was.
Goto(pc) == op' = [op EXCEPT !.pc = pc]

SaveOk(l, next)  == CallOk /\ SaveLink(op.id, l) /\ op' = next
SaveFails(next)  == CallFails /\ UNCHANGED store /\ op' = next

\* The proxy confirmed the removal, or an error left it either way.
RemoveOk    == CallOk /\ routes' = [routes EXCEPT ![op.id] = NoPort]
RemoveFails == CallFails /\ routes' \in {routes, [routes EXCEPT ![op.id] = NoPort]}

----------------------------------------------------------------------------
(* compensation.Run and its three callers: failStart, destroy and          *)
(* destroyForRestart.                                                      *)

\* Mutant: the route is left for last.
StopFirst(o, then)  == [o EXCEPT !.pc = "stopProcess", !.then = then, !.compErr = FALSE]
Compensate(o, then) == [o EXCEPT !.pc = "removeRoute", !.then = then, !.compErr = FALSE]

Destroy(o, k, term, ret) ==
  Compensate([o EXCEPT !.id = k, !.l = rows[k], !.term = term, !.ret = ret], "destroy")

\* destroy returned nil, or NotFound inside a loop: go on with the loop.
Returned(o) == IF o.ret = "idle" THEN Idle
               ELSE [o EXCEPT !.pc = o.ret, !.id = NoLink, !.l = FreeLink, !.compErr = FALSE]

\* The operation gives up; a start-up whose Reconcile fails exits.
Abort == /\ op' = Idle
         /\ mode' = IF mode = "starting" THEN "down" ELSE mode

\* Mutant: what could not be destroyed is tried again at once.
TriedAgain == op' = Compensate(op, "destroy") /\ UNCHANGED mode

\* destroy returned an error: only Shutdown's loop carries on.
ReturnError == IF op.ret = "shut"
               THEN op' = [Returned(op) EXCEPT !.err = TRUE] /\ UNCHANGED mode
               ELSE Abort

RemoveRoute ==
  /\ op.pc = "removeRoute"
  /\ \/ RemoveOk /\ Goto("stopProcess")
     \/ RemoveFails /\ op' = [op EXCEPT !.pc = "stopProcess", !.compErr = TRUE]
  /\ UNCHANGED <<store, now, procs, reserved, mode>>

Killed(q) == [procs EXCEPT ![q] = "dead"]

\* TERM, wait, KILL, wait.  A cancelled context cuts the wait short after the
\* TERM, before any KILL: the group may outlive the call.
StopProcess ==
  /\ op.pc = "stopProcess"
  /\ \/ /\ ~Alive(op.l.proc)
        /\ Goto("returnPort") /\ UNCHANGED <<procs, spent>>
     \/ /\ Alive(op.l.proc)
        /\ \/ /\ UNCHANGED spent
              /\ procs' = Killed(op.l.proc)
              /\ Goto("returnPort")
           \/ /\ CallFails
              /\ procs' \in (IF op.cancelled THEN {procs, Killed(op.l.proc)} ELSE {procs})
              /\ op' = [op EXCEPT !.pc = "returnPort", !.compErr = TRUE]
  /\ UNCHANGED <<store, now, reserved, routes, mode>>

\* Mutant: the identity is cleared whether or not compensation succeeded.
AlwaysCleared(o) ==
  [o EXCEPT !.pc = IF o.then = "destroy" THEN "saveTerminal" ELSE "saveFailed",
            !.l.status = IF o.then = "destroy" THEN o.term ELSE "failed",
            !.l.port = NoPort, !.l.proc = NoProc]

\* The link as the caller saves it once compensation has run.  A failed
\* compensation keeps the process identity and the port for a later attempt.
Compensated(o) ==
  LET saved(pc, status) == [o EXCEPT !.pc = pc, !.l.status = status]
      cleared(pc, status) == [saved(pc, status) EXCEPT !.l.port = NoPort, !.l.proc = NoProc]
  IN  IF o.compErr THEN saved("saveFailed", "failed")
      ELSE CASE o.then = "fail"    -> cleared("saveFailed", "failed")
             [] o.then = "destroy" -> cleared("saveTerminal", o.term)
             [] o.then = "restart" -> cleared("saveCreating", "creating")

\* Allocator.Release is idempotent; it refuses a cancelled context before it
\* looks at the listener, and forgets the listener before closing it.
ReturnPort ==
  /\ op.pc = "returnPort"
  /\ \/ /\ op.l.port = NoPort
        /\ op' = Compensated(op) /\ UNCHANGED <<reserved, spent>>
     \/ /\ op.l.port # NoPort
        /\ \/ /\ CallOk
              /\ reserved' = reserved \ {op.l.port}
              /\ op' = Compensated(op)
           \/ /\ CallFails
              /\ reserved' = IF op.cancelled THEN reserved ELSE reserved \ {op.l.port}
              /\ op' = Compensated([op EXCEPT !.compErr = TRUE])
  /\ UNCHANGED <<store, now, procs, routes, mode>>

\* The link is recorded as failed, and the caller gets an error either way.
SaveFailed ==
  /\ op.pc = "saveFailed"
  /\ \/ CallOk /\ SaveLink(op.id, op.l)
     \/ CallFails /\ UNCHANGED store
  /\ ReturnError
  /\ UNCHANGED world

SaveTerminal ==
  /\ op.pc = "saveTerminal"
  /\ \/ /\ SaveOk(op.l, [op EXCEPT !.pc = "deleteRow"]) /\ UNCHANGED mode
     \/ CallFails /\ UNCHANGED store /\ ReturnError
  /\ UNCHANGED world

DeleteRow ==
  /\ op.pc = "deleteRow"
  /\ \/ CallOk /\ DeleteLink(op.id) /\ op' = Returned(op) /\ UNCHANGED mode
     \/ CallFails /\ UNCHANGED store /\ ReturnError
  /\ UNCHANGED world

SaveCreating ==
  /\ op.pc = "saveCreating"
  /\ \/ SaveOk(op.l, [op EXCEPT !.pc = "allocate"])
     \/ SaveFails(Idle)
  /\ UNCHANGED <<world, mode>>

Compensation == RemoveRoute \/ StopProcess \/ ReturnPort
                \/ SaveFailed \/ SaveTerminal \/ DeleteRow \/ SaveCreating

----------------------------------------------------------------------------
(* Service.start *)

FailStart == op' = Compensate(op, "fail")

\* The expiry instant is terminal for an in-flight creation too; the result
\* of DeleteLink is ignored.
StartExpired ==
  /\ op.pc = "allocate"
  /\ Expired(op.l.exp, now)
  /\ \/ CallOk /\ DeleteLink(op.id)
     \/ CallFails /\ UNCHANGED store
  /\ op' = Idle
  /\ UNCHANGED <<world, mode>>

Allocate ==
  /\ op.pc = "allocate"
  /\ ~Expired(op.l.exp, now)
  /\ \/ /\ CallOk
        /\ \E p \in FreePorts :
             /\ reserved' = reserved \union {p}
             /\ op' = [op EXCEPT !.pc = "saveStarting", !.l.port = p, !.l.status = "starting"]
     \/ /\ CallFails \/ (FreePorts = {} /\ UNCHANGED spent)
        /\ UNCHANGED reserved /\ FailStart
  /\ UNCHANGED <<store, now, procs, routes, mode>>

SaveStarting ==
  /\ op.pc = "saveStarting"
  /\ \/ SaveOk(op.l, [op EXCEPT !.pc = "releasePort"])
     \/ CallFails /\ UNCHANGED store /\ FailStart
  /\ UNCHANGED <<world, mode>>

\* The listener is closed right before the child is started, so that the
\* child can bind the port.
ReleasePort ==
  /\ op.pc = "releasePort"
  /\ \/ CallOk /\ reserved' = reserved \ {op.l.port} /\ Goto("spawn")
     \/ /\ CallFails /\ FailStart
        /\ reserved' = IF op.cancelled THEN reserved ELSE reserved \ {op.l.port}
  /\ UNCHANGED <<store, now, procs, routes, mode>>

\* A start request may fail without a fault: the client chose the folder.
Spawn ==
  /\ op.pc = "spawn"
  /\ \/ /\ CallOk
        /\ \E q \in UnusedProcs :
             /\ procs' = [procs EXCEPT ![q] = "alive"]
             /\ op' = [op EXCEPT !.pc = "saveSpawned", !.l.proc = q]
     \/ UNCHANGED <<spent, procs>> /\ FailStart
  /\ UNCHANGED <<store, now, reserved, routes, mode>>

\* replacePort: the placeholder is substituted in the copy that is saved
\* from here on, so it is gone from the row as well.  A URL without one is
\* left alone.
Substituted(l) == [l EXCEPT !.probe = IF @ = NoPort THEN l.port ELSE @]

\* Mutant: a failed save returns without compensation.
SaveSpawnedOrReturn ==
  /\ op.pc = "saveSpawned"
  /\ \/ SaveOk(op.l, [op EXCEPT !.pc = "checkHealth", !.l = Substituted(op.l)])
     \/ SaveFails(Idle)
  /\ UNCHANGED <<world, mode>>

SaveSpawned ==
  /\ op.pc = "saveSpawned"
  /\ \/ SaveOk(op.l, [op EXCEPT !.pc = "checkHealth", !.l = Substituted(op.l)])
     \/ CallFails /\ UNCHANGED store /\ FailStart
  /\ UNCHANGED <<world, mode>>

\* CheckUntil, then the expiry test.  Whoever listens on the probed port
\* answers, the child or anybody else, or nobody does for the whole grace period.
CheckHealth ==
  /\ op.pc = "checkHealth"
  /\ \/ /\ CallOk
        /\ ~Expired(op.l.exp, now)
        /\ op' = [op EXCEPT !.pc = "saveHealthy", !.l.status = "healthy"]
     \/ UNCHANGED spent /\ FailStart
  /\ UNCHANGED <<store, world, mode>>

SaveHealthy ==
  /\ op.pc = "saveHealthy"
  /\ \/ SaveOk(op.l, [op EXCEPT !.pc = "addRoute"])
     \/ CallFails /\ UNCHANGED store /\ FailStart
  /\ UNCHANGED <<world, mode>>

AddRoute ==
  /\ op.pc = "addRoute"
  /\ LET added == [routes EXCEPT ![op.id] = op.l.port] IN
       \/ /\ CallOk /\ routes' = added
          /\ op' = [op EXCEPT !.pc = "saveActive", !.l.status = "active"]
       \/ CallFails /\ routes' \in {routes, added} /\ FailStart
  /\ UNCHANGED <<store, now, procs, reserved, mode>>

\* The last save, then AdvertisedURL; both failures take the route down first.
SaveActive ==
  /\ op.pc = "saveActive"
  /\ \/ SaveOk(op.l, Idle)
     \/ CallFails /\ SaveLink(op.id, op.l) /\ ~op.cancelled /\ Goto("unroute")
     \/ CallFails /\ UNCHANGED store /\ Goto("unroute")
  /\ UNCHANGED <<world, mode>>

Unroute ==
  /\ op.pc = "unroute"
  /\ RemoveOk \/ RemoveFails
  /\ FailStart
  /\ UNCHANGED <<store, now, procs, reserved, mode>>

Start == StartExpired \/ Allocate \/ SaveStarting \/ ReleasePort \/ Spawn
         \/ SaveSpawned \/ CheckHealth \/ SaveHealthy \/ AddRoute
         \/ SaveActive \/ Unroute

----------------------------------------------------------------------------
(* Requests.  Authentication, validation and audit failures change nothing *)
(* and are left out; a request already waiting for the mutex is served     *)
(* while the daemon drains.                                                *)

Admitted == op.pc = "idle" /\ mode \in {"ready", "draining"}
Request  == [Idle EXCEPT !.kind = "request"]

CreateSpace(s) ==
  /\ Admitted
  /\ spaces[s].slot = "free"
  /\ \E ttl \in TTLs : InsertSpace(s, now + ttl)
  /\ UNCHANGED <<world, mode, op, spent>>

Earlier(a, b) == IF a <= b THEN a ELSE b

\* The bound UnusedProcs # {} leaves every admitted start a process to spawn.
CreateLink(k, s) ==
  /\ Admitted /\ UnusedProcs # {}
  /\ rows[k].slot = "free"
  /\ LiveSpace(s) /\ ~Expired(spaces[s].exp, now)
  /\ \E ttl \in TTLs, url \in URLs :
       LET l == [FreeLink EXCEPT !.slot = "live", !.space = s, !.probe = url,
                                 !.exp = Earlier(now + ttl, spaces[s].exp)] IN
       /\ InsertLink(k, l)
       /\ op' = [Request EXCEPT !.pc = "allocate", !.id = k, !.l = l]
  /\ UNCHANGED <<world, mode, spent>>

\* An administrator may act on a link of an expired space, so the space has
\* only to be live.
Reachable(k) == LiveLink(k) /\ LiveSpace(rows[k].space)

RequestDelete(k) ==
  /\ Admitted /\ Reachable(k)
  /\ op' = Destroy(Request, k, "deleted", "idle")
  /\ UNCHANGED <<store, world, mode, spent>>

\* Mutant: restart without destroyForRestart.
RestartInPlace(k) ==
  /\ Admitted /\ Reachable(k) /\ UnusedProcs # {}
  /\ op' = Compensated(Compensate([Request EXCEPT !.id = k, !.l = rows[k]], "restart"))
  /\ UNCHANGED <<store, world, mode, spent>>

RequestRestart(k) ==
  /\ Admitted /\ Reachable(k) /\ UnusedProcs # {}
  /\ op' = IF Expired(rows[k].exp, now)
           THEN Destroy(Request, k, "expired", "idle")
           ELSE Compensate([Request EXCEPT !.id = k, !.l = rows[k]], "restart")
  /\ UNCHANGED <<store, world, mode, spent>>

RequestDrop(s) ==
  /\ Admitted /\ LiveSpace(s)
  /\ op' = [Request EXCEPT !.pc = "drop", !.space = s, !.todo = ListLinks(s)]
  /\ UNCHANGED <<store, world, mode, spent>>

----------------------------------------------------------------------------
(* Loops over a snapshot of links *)

\* Mutant: the loop never gets past a link.
Revisiting(k) == op
Visiting(k)  == [op EXCEPT !.todo = @ \ {k}]
QueryFails   == CallFails /\ Abort

\* Destroy the links of op.space one by one, then archive the space.
DestroyLinks(pc, term, after) ==
  /\ op.pc = pc
  /\ \/ \E k \in op.todo : /\ op' = Destroy(Visiting(k), k, term, pc)
                           /\ UNCHANGED <<store, mode, spent>>
     \/ /\ op.todo = {}
        /\ \/ CallOk /\ DeleteSpace(op.space) /\ op' = after /\ UNCHANGED mode
           \/ QueryFails /\ UNCHANGED store
  /\ UNCHANGED world

DropSpace  == DestroyLinks("drop", "deleted", Idle)
PurgeSpace == DestroyLinks("purge", "expired", [op EXCEPT !.pc = "spaces", !.space = NoSpace])

\* cleanupLocked, first half: the expired links.
SweepLinks ==
  /\ op.pc = "expired"
  /\ \/ \E k \in op.todo : /\ op' = Destroy(Visiting(k), k, "expired", "expired")
                           /\ UNCHANGED <<mode, spent>>
     \/ /\ op.todo = {}
        /\ \/ CallOk /\ Goto("spaces") /\ UNCHANGED mode
           \/ QueryFails
  /\ UNCHANGED <<store, world>>

\* cleanupLocked, second half: the expired spaces; then Reconcile reads the
\* clock again and the links to inspect.
SweepSpaces ==
  /\ op.pc = "spaces"
  /\ \/ /\ CallOk /\ UNCHANGED mode
        /\ \/ \E s \in ExpiredSpaces(op.asOf) :
                op' = [op EXCEPT !.pc = "purge", !.space = s, !.todo = ListLinks(s)]
           \/ /\ ExpiredSpaces(op.asOf) = {}
              /\ op' = [op EXCEPT !.pc = "inspect", !.asOf = now, !.ended = EndedProcs,
                                  !.todo = ReconciliationLinks(now)]
     \/ QueryFails
  /\ UNCHANGED <<store, world>>

\* Only an active link with an identity, a port and a live process whose probe
\* is answered, by whomever, stays public; Alive, the probe and FindSpace are
\* one step.
\* Mutant: any link that holds a process and a port may be published.
HoldsProcess(k) == rows[k].proc # NoProc /\ rows[k].port # NoPort
Recorded(k)  == rows[k].status = "active" /\ rows[k].proc # NoProc /\ rows[k].port # NoPort
MayKeep(k)   == Recorded(k) /\ Alive(rows[k].proc)
SpaceGone(k) == \/ ~LiveSpace(rows[k].space)
                \/ Expired(spaces[rows[k].space].exp, op.asOf)

Inspect ==
  /\ op.pc = "inspect"
  /\ \E k \in op.todo :
       \/ /\ CallOk /\ MayKeep(k) /\ ~SpaceGone(k)
          /\ op' = [Visiting(k) EXCEPT !.desired = @ \union {k}]
       \/ /\ UNCHANGED spent
          /\ op' = Destroy(Visiting(k), k, "failed", "inspect")
       \/ /\ MayKeep(k) /\ ~op.cancelled
          /\ CallFails \/ (SpaceGone(k) /\ UNCHANGED spent)
          /\ op' = Destroy(Visiting(k), k, "expired", "inspect")
  /\ UNCHANGED <<store, world, mode>>

\* Proxy.Reconcile publishes exactly the desired routes; when it fails, each
\* owned route is the old or the desired one.
Desired(set) == [k \in Links |-> IF k \in set THEN rows[k].port ELSE NoPort]
Between(a, b) == {r \in [Links -> Ports \union {NoPort}] : \A k \in Links : r[k] \in {a[k], b[k]}}

ApplyRoutes ==
  /\ op.pc = "inspect" /\ op.todo = {}
  /\ \/ /\ CallOk /\ routes' = Desired(op.desired) /\ op' = Idle
        /\ mode' = IF mode = "starting" THEN "ready" ELSE mode
     \/ QueryFails /\ routes' \in Between(routes, Desired(op.desired))
  /\ UNCHANGED <<store, now, procs, reserved>>

BeginReconcile == [Idle EXCEPT !.kind = "reconcile", !.pc = "expired",
                               !.asOf = now, !.todo = ExpiredLinks(now)]

\* The minute ticker; it runs until cleanupCancel, so also while draining.
Ticker ==
  /\ Admitted
  /\ op' = BeginReconcile
  /\ UNCHANGED <<store, world, mode, spent>>

Reconcile == SweepLinks \/ SweepSpaces \/ PurgeSpace \/ Inspect \/ ApplyRoutes

----------------------------------------------------------------------------
(* Shutdown and start-up (composition.Command) *)

StopSignal ==
  /\ mode = "ready" /\ spent.stops < MaxStops
  /\ mode' = "draining" /\ spent' = [spent EXCEPT !.stops = @ + 1]
  /\ UNCHANGED <<store, world, op>>

BeginShutdown ==
  /\ mode = "draining" /\ op.pc = "idle"
  /\ mode' = "stopping"
  /\ op' = [Idle EXCEPT !.kind = "shutdown", !.pc = "shut", !.asOf = now,
                         !.todo = ReconciliationLinks(now)]
  /\ UNCHANGED <<store, world, spent>>

\* The first error is kept and the loop goes on; the owned routes go last.
Shutdown ==
  /\ op.pc = "shut"
  /\ \/ \E k \in op.todo : /\ op' = Destroy(Visiting(k), k, "deleted", "shut")
                           /\ UNCHANGED <<reserved, routes, mode, spent>>
     \/ /\ op.todo = {}
        /\ \/ CallOk /\ routes' = Unrouted /\ mode' = IF op.err THEN "down" ELSE "stopped"
           \/ CallFails /\ routes' \in Between(routes, Unrouted) /\ mode' = "down"
        /\ op' = Idle /\ reserved' = {}
  /\ UNCHANGED <<store, now, procs>>

\* The process groups survive the daemon and the listeners do not.
Crash ==
  /\ mode \notin {"down", "stopped"} /\ spent.crashes < MaxCrashes
  /\ mode' = "down" /\ op' = Idle /\ reserved' = {}
  /\ spent' = [spent EXCEPT !.crashes = @ + 1]
  /\ UNCHANGED <<store, now, procs, routes>>

\* A managed Caddy starts with the fallback route alone, an external one
\* still has the routes.  Reconcile is the readiness gate.
Startup ==
  /\ mode \in {"down", "stopped"}
  /\ mode' = "starting"
  /\ routes' \in {routes, Unrouted}
  /\ op' = BeginReconcile
  /\ UNCHANGED <<store, now, procs, reserved, spent>>

----------------------------------------------------------------------------
(* The world around the daemon *)

Tick == /\ now < MaxTime
        /\ now' = now + 1
        /\ UNCHANGED <<store, procs, reserved, routes, mode, op, spent>>

Exit(q) == /\ Alive(q)
           /\ procs' = Killed(q)
           /\ UNCHANGED <<store, now, reserved, routes, mode, op, spent>>

\* The request times out or its client leaves, the stop signal cancels the
\* start-up or the last reconciliation, the shutdown deadline passes.
Cancellable == op.kind # "none" /\ (op.kind = "reconcile" => mode # "ready")

Cancel == /\ Cancellable /\ ~op.cancelled /\ spent.cancels < MaxCancels
          /\ op' = [op EXCEPT !.cancelled = TRUE]
          /\ spent' = [spent EXCEPT !.cancels = @ + 1]
          /\ UNCHANGED <<store, world, mode>>

Operate == Start \/ Compensation \/ DropSpace \/ Reconcile \/ Shutdown

Requests == \/ \E s \in Spaces : CreateSpace(s) \/ RequestDrop(s)
            \/ \E k \in Links, s \in Spaces : CreateLink(k, s)
            \/ \E k \in Links : RequestDelete(k) \/ RequestRestart(k)

Next == \/ Operate \/ Requests \/ Ticker
        \/ StopSignal \/ BeginShutdown \/ Crash \/ Startup
        \/ Tick \/ (\E q \in Procs : Exit(q)) \/ Cancel

Spec == Init /\ [][Next]_vars

----------------------------------------------------------------------------
(* Safety *)

\* A published route can always be found again from the database: its link is
\* live, past its health gate, and its row still names the port and the
\* process behind the route, whatever failed or crashed in between.
RouteRecoverable ==
  \A k \in Links : routes[k] # NoPort =>
    /\ LiveLink(k)
    /\ rows[k].status \in {"healthy", "active", "failed"}
    /\ rows[k].port = routes[k]
    /\ rows[k].proc # NoProc

\* A row gives up its process identity (cleared, replaced or archived) only
\* when that process group is already dead: no identity is forgotten early.
HandleKept ==
  [][\A k \in Links :
       (/\ rows[k].proc # NoProc
        /\ rows'[k].proc # rows[k].proc \/ rows'[k].slot # rows[k].slot)
       => ~Alive(rows[k].proc)]_vars

\* No process group is lost for nothing.  Every live group is named by a live
\* row or by the operation in progress, but for those that a crash or a
\* cancelled operation left behind before the row could name them, one each, or
\* three failing calls together: the save that would have named the group, the
\* stop that compensates for it, and the save that would have kept the handle.
LostProcs == {q \in Procs : /\ Alive(q) /\ op.l.proc # q
                            /\ \A k \in Links : LiveLink(k) => rows[k].proc # q}

NoOrphan ==
  3 * Cardinality(LostProcs) <= 3 * (spent.crashes + spent.cancels) + spent.faults

\* After a Reconcile that returned nil, at start-up or behind a running proxy,
\* the proxy serves exactly the links that are active and were unexpired at
\* the inspection, and no other unexpired link holds a process; a process that
\* had exited when the pass read the links has no route any more, however its
\* port is used meanwhile and whoever answers there.
PassReturnsNil == /\ op.pc = "inspect" /\ op.todo = {} /\ ~op.cancelled
                  /\ op'.pc = "idle" /\ UNCHANGED spent

RepairedAfterPass ==
  [][PassReturnsNil =>
       \A k \in Links :
         /\ routes'[k] # NoPort <=> (/\ LiveLink(k) /\ rows[k].status = "active"
                                    /\ ~Expired(rows[k].exp, op.asOf))
         /\ LiveLink(k) /\ rows[k].proc # NoProc /\ ~Expired(rows[k].exp, op.asOf)
            => rows[k].status = "active"
         /\ routes'[k] # NoPort => rows[k].proc \notin op.ended]_vars

\* A Shutdown that returns nil leaves no route, and a process only behind a
\* link that was already past its expiry when Shutdown read the links.
StopLeavesOnlyExpired ==
  [][mode = "stopping" /\ mode' = "stopped" =>
       /\ routes' = Unrouted
       /\ \A k \in Links : LiveLink(k) /\ Alive(rows[k].proc) => Expired(rows[k].exp, op.asOf)]_vars

\* Compensation stops a process behind a route only if the proxy reported an
\* error for the removal: a confirmed removal always comes first.
Stops == op.pc = "stopProcess" /\ op'.pc = "returnPort" /\ Alive(op.l.proc) /\ ~Alive(op.l.proc)'

RouteGoneBeforeStop == [][Stops /\ ~op.compErr => routes[op.id] = NoPort]_vars

\* The service implements the abstract contract of a link: a route means
\* public, a recorded process identity means a worker.
LeaseOf(k) ==
  [phase  |-> CASE rows[k].slot = "free"     -> "absent"
                [] rows[k].slot = "archived" -> "gone"
                [] rows[k].slot = "live"     -> IF routes[k] = NoPort THEN "private" ELSE "public",
   worker |-> IF rows[k].proc = NoProc THEN "none"
              ELSE IF Alive(rows[k].proc) THEN "running" ELSE "ended"]

Contract == INSTANCE PreviewLease WITH Leases <- Links, lease <- [k \in Links |-> LeaseOf(k)]

LeaseContract == Contract!Spec

\* What an operation still has ahead of it, the weightiest first: live spaces,
\* the part of the pass it is in, links of its loop, calls on the link in hand.
InHand == op.pc \in StartPCs \union CompensationPCs \union AfterPCs

\* The loop the operation is in, or will return to.
Loop == IF InHand THEN op.ret ELSE op.pc

LiveSpaces == {s \in Spaces : LiveSpace(s)}
Stage == CASE Loop = "expired" -> 3
           [] Loop = "spaces"  -> 2
           [] Loop = "purge"   -> 1
           [] OTHER            -> 0

\* The compensation of a restart comes before the start, that of a start that
\* fails behind it.
Course == [deleteRow |-> 1, saveFailed |-> 1, saveTerminal |-> 2,
           returnPort |-> 3, stopProcess |-> 4, removeRoute |-> 5,
           unroute |-> 6, saveActive |-> 7, addRoute |-> 8, saveHealthy |-> 9,
           checkHealth |-> 10, saveSpawned |-> 11, spawn |-> 12, releasePort |-> 13,
           saveStarting |-> 14, allocate |-> 15, saveCreating |-> 16]
CallsLeft == IF ~InHand THEN 0
             ELSE IF op.pc \in CompensationPCs /\ op.then = "restart" THEN Course[op.pc] + 14
             ELSE Course[op.pc]

Ahead  == <<Cardinality(LiveSpaces), Stage, Cardinality(op.todo), CallsLeft>>
Nearer == \E i \in 1 .. 4 : /\ Ahead'[i] < Ahead[i]
                            /\ \A j \in 1 .. i - 1 : Ahead'[j] = Ahead[j]

\* Service.mu is held for a bounded number of calls: each one brings the
\* operation nearer to its end, however many calls fail, and nothing that
\* happens meanwhile (time, exits, a cancelled context) takes it back.
OperationAdvances ==
  [][op.pc # "idle" /\ op'.pc # "idle" => IF Operate THEN Nearer ELSE UNCHANGED Ahead]_vars

----------------------------------------------------------------------------
(* What the documentation says and the code does not do *)

\* docs/usage.md: Mirage "replaces literal {port} placeholders in the command
\* and health-check URL" by the port it reserved for the start.
ProbesOwnPort == op.pc = "checkHealth" => op.l.probe \in {op.l.port, FixedPort}

\* docs/usage.md: "If startup exceeds the grace period, Mirage stops the
\* process": no failed start leaves its process running behind it.
FailedStartStops ==
  mode = "ready" /\ op.pc = "idle" =>
    \A k \in Links : LiveLink(k) /\ Alive(rows[k].proc) => rows[k].status = "active"

----------------------------------------------------------------------------
(* Liveness *)

\* The minute pass and the start-up pass reach the proxy on a context without a
\* deadline, through a client without a timeout: an answer may never come.  The
\* other calls are bounded: those of a request or of the stop by its deadline,
\* a probe by the client's two seconds, a stop by its waits.
AwaitsProxy == /\ op.kind = "reconcile" /\ ~op.cancelled
               /\ op.pc = "removeRoute" \/ (op.pc = "inspect" /\ op.todo = {})

\* Service.mu hands over to a waiter (the Go mutex has a starvation mode), so
\* the ticker is strongly fair; the operation in progress keeps running but
\* where it awaits the proxy; the service manager restarts a daemon that went
\* down (Restart=on-failure).
Fairness == WF_vars(Operate /\ ~AwaitsProxy) /\ SF_vars(Ticker) /\ WF_vars(Startup)

FairSpec == Spec /\ Fairness

Collected(k) == rows[k].slot = "archived" /\ routes[k] = NoPort

\* Every expired link is eventually archived without a route, unless a pass
\* waits for the proxy for ever.
ExpiredCollected ==
  \A k \in Links : (LiveLink(k) /\ Expired(rows[k].exp, now))
                   ~> (Collected(k) \/ []AwaitsProxy)

\* The mutex is always given back, but by a pass that waits for the proxy for
\* ever: no other call, and no loop, keeps an operation from its end.
MutexReleased == (op.pc # "idle") ~> (op.pc = "idle" \/ []AwaitsProxy)
=============================================================================
