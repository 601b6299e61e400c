------------------------------- MODULE Daemon -------------------------------
(***************************************************************************)
(* One daemon from its start to its stop (composition.Start): it opens the *)
(* database, launches the managed Caddy, repairs the state, starts the     *)
(* cleanup goroutine and listens; each of these can fail, and what is held *)
(* by then has to be given back.  Migration is the opening of the database *)
(* and DaemonStop all that follows a start that succeeded.                 *)
(***************************************************************************)
EXTENDS DaemonStop, Migration

CONSTANT Self  \* this daemon among the processes that open the database

ASSUME StartAssumption == Self \in Openers

VARIABLES boot,   \* where Start is
          child   \* the managed Caddy

started == <<boot, child, migration>>
dvars   == <<vars, started>>

StartTypeOK ==
  /\ TypeOK /\ MigrationTypeOK
  /\ boot \in {"open", "caddy", "probe", "token", "repair", "listen", "unwind", "serving", "failed"}
  /\ child \in {"none", "running", "exited", "reaped"}

\* There is no cleanup goroutine yet, which is like one that has ended.
DaemonInit ==
  /\ Fresh /\ listening = FALSE /\ cleanup = "done"
  /\ MigrationInit /\ boot = "open" /\ child = "none"

-----------------------------------------------------------------------------
\* Start.  Service.mu is free in all of it but for the minute pass.

At(pc, next) == boot = pc /\ boot' = next

\* Child.Stop kills and waits for what Start launched, whatever its state.
Stopped(c) == IF c = "none" THEN "none" ELSE "reaped"
CloseStore == opening' = [opening EXCEPT ![Self] = "closed"] /\ UNCHANGED <<schema, writer, draft>>

\* Mutant: a return that forgets the child.
FailWithChild(pc) == At(pc, "failed") /\ child' = child /\ CloseStore

\* A return with an error gives back the child, if any, and the store.
Fail(pc) == At(pc, "failed") /\ child' = Stopped(child) /\ CloseStore

\* Caddy is a child of the daemon, or an external one is used.
OpenStore ==
  \/ boot = "open" /\ OpenStep(Self) /\ UNCHANGED <<vars, boot, child>>
  \/ /\ \/ opening[Self] = "opened" /\ \E next \in {"caddy", "token"} : At("open", next)
        \/ opening[Self] = "failed" /\ At("open", "failed")
     /\ UNCHANGED <<vars, child, migration>>

StartChild ==
  /\ (At("caddy", "probe") /\ child' = "running" /\ UNCHANGED migration) \/ Fail("caddy")
  /\ UNCHANGED vars

\* The admin address answers, be it this child or another Caddy.
ProbeAnswers == At("probe", "token") /\ UNCHANGED <<vars, child, migration>>

ProbeTimesOut == Fail("probe") /\ UNCHANGED vars

ReadAdminHash ==
  /\ (At("token", "repair") /\ UNCHANGED <<child, migration>>) \/ Fail("token")
  /\ UNCHANGED vars

\* The first reconciliation, with the goroutine that repeats it.
Repair ==
  /\ \/ At("repair", "listen") /\ cleanup' = "idle" /\ UNCHANGED <<child, migration>>
     \/ Fail("repair") /\ UNCHANGED cleanup
  /\ UNCHANGED <<gate, stream, listening, mu, cancelled, stopv>>

Listen ==
  /\ At("listen", "serving") /\ listening' = TRUE
  /\ UNCHANGED <<gate, stream, mu, pass, stopv, child, migration>>

\* Mutant: Start waits for a goroutine that it has not cancelled.
WaitsUncancelled ==
  /\ At("listen", "unwind")
  /\ UNCHANGED <<vars, child, migration>>

\* The address is taken.
ListenFails ==
  /\ At("listen", "unwind") /\ cancelled' = TRUE
  /\ UNCHANGED <<gate, stream, listening, mu, cleanup, stopv, child, migration>>

\* With the goroutine gone Start calls Service.Shutdown, whose error it drops.
Unwind == cleanup = "done" /\ Fail("unwind") /\ UNCHANGED vars

StartStep == OpenStore \/ StartChild \/ ReadAdminHash \/ Repair \/ Listen \/ ListenFails \/ Unwind

-----------------------------------------------------------------------------
\* What goes on beside Start.

\* The managed Caddy ends by itself; nothing looks at that before the stop.
ChildExits ==
  /\ child = "running" /\ child' = "exited"
  /\ UNCHANGED <<vars, boot, migration>>

Others == \E p \in Openers \ {Self} : OpenStep(p) /\ UNCHANGED <<vars, boot, child>>

\* The stop function ends with Child.Stop, which reports a child that is gone
\* already as an error, and Store.Close.
Around ==
  /\ boot = "serving" /\ UNCHANGED boot
  /\ IF stop = "close" /\ stop' = "stopped"
       THEN child' = Stopped(child) /\ CloseStore /\ (child = "exited" => out' = "error")
       ELSE UNCHANGED <<child, migration>>

Beside == CleanupGoroutine /\ UNCHANGED started

DaemonNext == \/ StartStep \/ ProbeAnswers \/ ProbeTimesOut \/ ChildExits \/ Others
              \/ Beside \/ (Next /\ Around)

DaemonSpec == DaemonInit /\ [][DaemonNext]_dvars

\* The first reconciliation and the unwinding Shutdown ask the proxy on contexts
\* without a deadline, through an HTTP client without a timeout.
AwaitsProxy == boot = "repair" \/ (boot = "unwind" /\ cleanup = "done")

\* Start runs on, but for the proxy's answers, and its probe has a deadline.  The
\* rest is the fairness of DaemonStop.
FairDaemonSpec ==
  /\ DaemonSpec
  /\ WF_dvars(StartStep /\ ~AwaitsProxy) /\ WF_dvars(ProbeTimesOut)
  /\ WF_dvars(StopStep /\ Around) /\ SF_dvars(ShutdownBegins /\ Around) /\ WF_dvars(Expire /\ Around)
  /\ \A m \in Mutations : WF_dvars(Handler(m) /\ Around)
  /\ WF_dvars((PassBegins \/ (PassEnds /\ cancelled)) /\ Beside)
  /\ SF_dvars(CleanupEnds /\ Beside)

-----------------------------------------------------------------------------
\* A start that failed, at any point, and a stop that returned, with whatever
\* result, have left no Caddy child and no open database behind; after a failed
\* start there is no cleanup goroutine and no listener either.
NothingHeld ==
  /\ boot = "failed" \/ stop = "stopped" =>
       child \in {"none", "reaped"} /\ opening[Self] \in {"failed", "closed"}
  /\ boot = "failed" => cleanup = "done" /\ ~listening

\* Every start returns, it serves or it failed, but for one whose proxy never
\* answers: the database, the child, its probe and the goroutine that Start has
\* to wait for cannot keep it.
StartReturns == (boot = "open") ~> (boot \in {"serving", "failed"} \/ []AwaitsProxy)
=============================================================================
