---------------------------- MODULE DaemonStop ----------------------------
(***************************************************************************)
(* The orderly stop of the daemon: the mutation gate of the HTTP API       *)
(* (internal/adapters/inbound/httpapi), the shutdown of its servers and    *)
(* the stop function of internal/composition.  One deadline covers the     *)
(* drain, the servers, the wait for the cleanup goroutine and              *)
(* Service.Shutdown, which is a single step here (its calls are            *)
(* Lifecycle's).                                                           *)
(***************************************************************************)
EXTENDS Naturals, FiniteSets

CONSTANTS Mutations,  \* requests that change spaces or links
          Streams,    \* requests that follow a log
          Free,       \* Service.mu is not held
          Cleanup,    \* Service.mu is held by the minute pass
          Stopper     \* Service.mu is held by Service.Shutdown

ASSUME DaemonAssumption ==
  /\ IsFiniteSet(Mutations)
  /\ {Free, Cleanup, Stopper} \intersect Mutations = {}
  /\ Free # Cleanup /\ Free # Stopper /\ Cleanup # Stopper

VARIABLES draining,   \* API.draining
          active,     \* API.activeMutations
          drained,    \* API.drained: no channel, an open one, or closed
          mutation,   \* where the handler of a mutation is
          stream,     \* where the handler of a stream is
          listening,  \* whether the private server accepts requests
          mu,         \* who holds Service.mu
          cleanup,    \* where the cleanup goroutine is
          cancelled,  \* cleanupCtx
          stop,       \* where the stop function is
          expired,    \* whether the ten seconds of the stop function are over
          out,        \* what the stop function will return
          swept       \* whether Service.Shutdown returned nil

gate  == <<draining, active, drained, mutation>>
pass  == <<cleanup, cancelled>>
stopv == <<stop, expired, out, swept>>
vars  == <<gate, stream, listening, mu, pass, stopv>>

Handling == {"waiting", "working", "leaving"}
InFlight == {m \in Mutations : mutation[m] \in Handling}

TypeOK ==
  /\ draining \in BOOLEAN
  /\ active \in 0 .. Cardinality(Mutations)
  /\ drained \in {"none", "open", "closed"}
  /\ mutation \in [Mutations -> Handling \union {"new", "refused", "done"}]
  /\ stream \in [Streams -> {"new", "open", "ended"}]
  /\ listening \in BOOLEAN
  /\ mu \in Mutations \union {Free, Cleanup, Stopper}
  /\ cleanup \in {"idle", "waiting", "working", "done"}
  /\ cancelled \in BOOLEAN
  /\ stop \in {"running", "drain", "await", "servers", "connections", "cancel", "cleanup",
               "lock", "sweep", "close", "stopped"}
  /\ expired \in BOOLEAN
  /\ out \in {"nil", "error"}
  /\ swept \in BOOLEAN

\* Nobody has asked for anything.
Fresh ==
  /\ draining = FALSE /\ active = 0 /\ drained = "none"
  /\ mutation = [m \in Mutations |-> "new"] /\ stream = [s \in Streams |-> "new"]
  /\ mu = Free /\ cancelled = FALSE
  /\ stop = "running" /\ expired = FALSE /\ out = "nil" /\ swept = FALSE

\* Start has repaired the state, started the cleanup goroutine and listens.
Init == Fresh /\ listening = TRUE /\ cleanup = "idle"

-----------------------------------------------------------------------------
\* The gate: API.mutation and API.Drain look at and change it under gateMu.

\* Its handler goes for the service's mutex, or leaves with a request that is
\* not valid.
Admit(m) ==
  /\ listening /\ mutation[m] = "new" /\ ~draining
  /\ \E next \in {"waiting", "leaving"} : mutation' = [mutation EXCEPT ![m] = next]
  /\ active' = active + 1
  /\ UNCHANGED <<draining, drained>>

\* Mutant: the deferred decrement also runs for a refused request.
RefuseAndLeave(m) ==
  /\ listening /\ mutation[m] = "new" /\ draining
  /\ mutation' = [mutation EXCEPT ![m] = "refused"] /\ active' = active - 1
  /\ UNCHANGED <<draining, drained>>

\* 503, before anything was counted.
Refuse(m) ==
  /\ listening /\ mutation[m] = "new" /\ draining
  /\ mutation' = [mutation EXCEPT ![m] = "refused"]
  /\ UNCHANGED <<draining, active, drained>>

\* Mutant: the last mutation does not wake the drain.
LeaveQuietly(m) ==
  /\ mutation[m] = "leaving"
  /\ mutation' = [mutation EXCEPT ![m] = "done"] /\ active' = active - 1
  /\ UNCHANGED <<draining, drained>>

\* The deferred function of a mutation; the last one closes the channel.
Leave(m) ==
  /\ mutation[m] = "leaving"
  /\ mutation' = [mutation EXCEPT ![m] = "done"] /\ active' = active - 1
  /\ drained' = IF draining /\ active' = 0 /\ drained = "open" THEN "closed" ELSE drained
  /\ UNCHANGED draining

\* A handler's work is one operation of the service under its mutex, for which
\* it waits whatever its context says.
Work(m) ==
  /\ mutation[m] = "waiting" /\ mu = Free
  /\ mu' = m /\ mutation' = [mutation EXCEPT ![m] = "working"]
  /\ UNCHANGED <<draining, active, drained>>

WorkEnds(m) ==
  /\ mutation[m] = "working"
  /\ mutation' = [mutation EXCEPT ![m] = "leaving"] /\ mu' = Free
  /\ UNCHANGED <<draining, active, drained>>

Request(m) == (Admit(m) \/ Refuse(m)) /\ UNCHANGED <<stream, listening, mu, pass, stopv>>
Handler(m) == /\ (Leave(m) /\ UNCHANGED mu) \/ Work(m) \/ WorkEnds(m)
              /\ UNCHANGED <<stream, listening, pass, stopv>>

\* A stream ends with its process, its client or the request timeout.
OpenStream(s) ==
  /\ listening /\ stream[s] = "new"
  /\ stream' = [stream EXCEPT ![s] = "open"]
  /\ UNCHANGED <<gate, listening, mu, pass, stopv>>

EndStream(s) ==
  /\ stream[s] = "open"
  /\ stream' = [stream EXCEPT ![s] = "ended"]
  /\ UNCHANGED <<gate, listening, mu, pass, stopv>>

-----------------------------------------------------------------------------
\* The cleanup goroutine.  With both channels ready select may take the tick.
Tick == cleanup = "idle" /\ cleanup' = "waiting" /\ UNCHANGED mu
PassBegins == cleanup = "waiting" /\ mu = Free /\ mu' = Cleanup /\ cleanup' = "working"
PassEnds == cleanup = "working" /\ mu' = Free /\ cleanup' = "idle"
CleanupEnds == cleanup = "idle" /\ cancelled /\ cleanup' = "done" /\ UNCHANGED mu

CleanupGoroutine ==
  /\ Tick \/ PassBegins \/ PassEnds \/ CleanupEnds
  /\ UNCHANGED <<gate, stream, listening, cancelled, stopv>>

-----------------------------------------------------------------------------
\* The stop function.  Its first error is the one it returns.

\* Mutant: a later nil replaces an error.
LastResult(e) == e

Result(e) == IF out = "nil" THEN e ELSE out
Proceed(pc, e) == stop' = pc /\ out' = Result(e) /\ UNCHANGED <<expired, swept>>

StopSignal ==
  /\ stop = "running" /\ Proceed("drain", "nil")
  /\ UNCHANGED <<gate, stream, listening, mu, pass>>

\* Drain closes admission and looks at the count in one critical section.
Drain ==
  /\ stop = "drain"
  /\ draining' = TRUE
  /\ IF active = 0
       THEN Proceed("servers", "nil") /\ UNCHANGED drained
       ELSE Proceed("await", "nil") /\ drained' = "open"
  /\ UNCHANGED <<active, mutation, stream, listening, mu, pass>>

\* A drain that runs out of time leaves the servers running.
DrainReturns ==
  /\ stop = "await"
  /\ (drained = "closed" /\ Proceed("servers", "nil")) \/ (expired /\ Proceed("cancel", "error"))
  /\ UNCHANGED <<gate, stream, listening, mu, pass>>

CloseListeners ==
  /\ stop = "servers" /\ Proceed("connections", "nil") /\ listening' = FALSE
  /\ UNCHANGED <<gate, stream, mu, pass>>

Idle == InFlight = {} /\ \A s \in Streams : stream[s] # "open"

\* Mutant: the servers' Shutdown has no deadline.
ServersReturnInTheEnd ==
  /\ stop = "connections" /\ Idle /\ Proceed("cancel", "nil")
  /\ UNCHANGED <<gate, stream, listening, mu, pass>>

\* http.Server.Shutdown waits for every handler, those of streams included.
ServersReturn ==
  /\ stop = "connections"
  /\ (Idle /\ Proceed("cancel", "nil")) \/ (expired /\ Proceed("cancel", "error"))
  /\ UNCHANGED <<gate, stream, listening, mu, pass>>

CancelCleanup ==
  /\ stop = "cancel" /\ Proceed("cleanup", "nil") /\ cancelled' = TRUE
  /\ UNCHANGED <<gate, stream, listening, mu, cleanup>>

\* Mutant: the stop goes on without waiting for the goroutine it cancelled.
LeaveCleanup ==
  /\ stop = "cleanup" /\ Proceed("lock", "nil")
  /\ UNCHANGED <<gate, stream, listening, mu, pass>>

AwaitCleanup ==
  /\ stop = "cleanup"
  /\ (cleanup = "done" /\ Proceed("lock", "nil")) \/ (expired /\ Proceed("lock", "error"))
  /\ UNCHANGED <<gate, stream, listening, mu, pass>>

\* Service.Shutdown waits for the mutex whatever the context says.
ShutdownBegins ==
  /\ stop = "lock" /\ mu = Free /\ mu' = Stopper /\ Proceed("sweep", "nil")
  /\ UNCHANGED <<gate, stream, listening, pass>>

\* On a context that has ended its first query fails and nothing is stopped.
ShutdownReturns ==
  /\ stop = "sweep" /\ stop' = "close" /\ mu' = Free
  /\ \/ ~expired /\ swept' = TRUE /\ out' = Result("nil")
     \/ swept' = swept /\ out' = Result("error")
  /\ UNCHANGED <<gate, stream, listening, pass, expired>>

\* The managed Caddy is stopped and the store closed, each with its error.
CloseRest ==
  /\ stop = "close" /\ \E e \in {"nil", "error"} : Proceed("stopped", e)
  /\ UNCHANGED <<gate, stream, listening, mu, pass>>

\* Time passes while the stop function waits for somebody, or in Shutdown.  A
\* cleanup goroutine that neither works nor waits for the mutex ends at once.
Blocked ==
  \/ stop = "await" /\ active > 0
  \/ stop = "connections" /\ ~Idle
  \/ stop = "cleanup" /\ (cleanup = "working" \/ (cleanup = "waiting" /\ mu # Free))
  \/ stop = "lock" /\ mu # Free
  \/ stop = "sweep"

Expire ==
  /\ Blocked /\ ~expired /\ expired' = TRUE
  /\ UNCHANGED <<gate, stream, listening, mu, pass, stop, out, swept>>

StopStep == \/ Drain \/ DrainReturns \/ CloseListeners \/ ServersReturn \/ CancelCleanup
            \/ AwaitCleanup \/ ShutdownBegins \/ ShutdownReturns \/ CloseRest

Next ==
  \/ \E m \in Mutations : Request(m) \/ Handler(m)
  \/ \E s \in Streams : OpenStream(s) \/ EndStream(s)
  \/ CleanupGoroutine \/ StopSignal \/ StopStep \/ Expire

Spec == Init /\ [][Next]_vars

\* The stop function runs on and its timer fires.  A handler's work ends by the
\* request timeout; Go's mutex hands over to a waiter that starves; ticks are a
\* minute apart, so the cleanup goroutine gets to see its cancelled context.  A
\* pass may wait for the proxy as long as that context is not cancelled: its end
\* before is not assumed, nor is that of a stream.
FairSpec ==
  /\ Spec
  /\ WF_vars(StopStep) /\ SF_vars(ShutdownBegins) /\ WF_vars(Expire)
  /\ \A m \in Mutations : WF_vars(Handler(m))
  /\ WF_vars((PassBegins \/ (PassEnds /\ cancelled)) /\ CleanupGoroutine)
  /\ SF_vars(CleanupEnds /\ CleanupGoroutine)

-----------------------------------------------------------------------------
\* Once Service.Shutdown has swept, nobody may start a process any more: no
\* mutation is under way or can be admitted, and the cleanup goroutine is gone.
SweptIsFinal == swept => InFlight = {} /\ draining /\ cleanup = "done"

\* A drain that waits while no mutation is left has been woken.
NoLostWakeup == stop = "await" /\ active = 0 => drained = "closed"

\* A stop that reports success has done everything: the routes and processes
\* are swept, no handler runs, nothing is accepted.
CleanStop == stop = "stopped" /\ out = "nil" => swept /\ Idle /\ ~listening /\ active = 0

\* Every stop returns, with a client that reads for ever, too.
StopReturns == (stop = "drain") ~> (stop = "stopped")

\* Service.Shutdown is called with time left to stop the processes.
SweepHasTime == stop = "lock" => ~expired
=============================================================================
