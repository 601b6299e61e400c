# Mirage Links: TLA+ models and proofs

Mirage starts a command, waits until it answers a health check on a loopback
port, publishes it under `name-alias.base-host` through Caddy's admin API and
takes it down again when it is deleted or its TTL ends. The state of a link is
spread over four places that no transaction covers: a SQLite row, a process
group, a reserved port and a proxy route. The models here are about keeping the
four consistent.

## 1. Inventory

| part | state | operations | interacts with |
| --- | --- | --- | --- |
| `application.Service` (`service.go`) | a mutex, timers of scheduled restarts | create/delete space, create/delete/restart link, scheduled restart, queries | every port below; holds the mutex for a whole mutation |
| reconciliation (`reconcile.go`) | none of its own | expiry sweep, inspection, proxy reconcile, shutdown | repository, supervisor, health, proxy |
| compensation | none | route, process, port, always all three | proxy, supervisor, allocator |
| repository (`libsql/store.go`) | spaces, links, audit, schema version | inserts, save, soft delete, queries, migration | SQLite file; UNIQUE constraints are the cross-process authority |
| supervisor (`process/supervisor_linux.go`) | run records by `pid:generation`, a reaper goroutine each | Start, Stop (TERM, wait, KILL), Alive | process groups, log store |
| allocator, hand-off (`port.go`, `handoff.go`, `ownership_linux.go`) | held listeners | Allocate, Release, StartAllocated | the kernel's port table |
| health checker | none | probe until healthy, cancelled or out of grace | whoever listens on the port |
| Caddy adapter (`caddy.go`) | a mutex | Add, Remove, List, Reconcile with rollback, by array index | Caddy's config, which others may edit |
| Caddy child (`child.go`) | the child process | start, readiness probe, stop | Caddy |
| log store (`logs/store.go`) | a ring per link, followers with bounded queues | Append, Tail, Follow, Close | supervisor (writer), HTTP (reader) |
| HTTP API (`httpapi.go`, `server.go`) | ready flag, count of active mutations | create, delete, restart by token or administrator, log streams, mutation gate, request timeout, Drain, Shutdown | service, clients |
| dashboard (`dashboard.go`) | a session cookie that holds a token | the forms of a space and of the administrator, with a reason for every forced act | service, behind the same gate |
| CLI (`cli/command.go`) | configuration with tokens | sends the requests, reads the answers, `admin init` | HTTP API |
| composition (`command.go`) | once, cleanup goroutine | start-up gate, minute ticker, ordered stop | all |
| domain types | - | status table, expiry, TTL and label parsing | - |

What is hard: calls that fail or time out half way through a start or a
cleanup; a cleanup that fails as well; a crash at any call; a request context
that ends while compensation still needs it; expiry during any operation;
a request that is authorized, waits for the mutex and then acts on what it
looked up before; an answer that is lost after the act, or never comes; several
index-based writes to a proxy that others edit; PIDs and ports that the kernel
reuses; follower and reaper goroutines that outlive what they serve.

What makes each part correct:

- service, reconciliation: a route is always recoverable from the database; no
  process identity is forgotten while the process lives; after a pass the proxy
  serves exactly the surviving active links; expired links are collected.
- repository: rows go free, live, archived and never back; one writer wins.
- supervisor: Stop and Alive act on the process group that Start created.
- allocator: no port is held twice; a listener is not leaked.
- Caddy adapter: only owned routes change (while no other client edits during a
  call); the fallback stays last; a failed Reconcile restores the previous routes.
- log store: bounded, in order, a slow follower does not block a writer.
- HTTP and daemon: nothing is admitted after the drain began; Drain returns
  when the admitted mutations are done; nothing can start a process after the
  sweep; a failed start gives back what it holds; a nil stop has done it all.
- API and dashboard: a token reaches only its own space; what an operator forces
  is audited first and takes only what it names; a repeated delete is answered
  truthfully; a request whose client has left stores nothing.
- database file: processes of several releases migrate it one at a time.

## 2. Plan

Done in this order:

1. `LinkStore`: the tables and statements of the repository.
2. `Lifecycle` (EXTENDS `LinkStore`): service, reconciliation, compensation,
   start-up, shutdown and crash over the outcomes of the ports' calls, with
   `LifecycleProofs`, `LifecycleSafety` and `LifecycleRepair`.
3. `PreviewLease`: the abstract contract of a link that `Lifecycle` implements.
4. `CaddyRoutes` and its abstract contract `ProxyContract`, which is what
   `Lifecycle` assumes of the proxy.
5. `Supervisor`, `LogStore` and their composition `ProcessLogs`.
6. `DaemonStop`, `Migration` and their composition `Daemon`, with
   `DaemonProofs`.

7. `ManagementApi`: the requests of clients, dashboard and administrator, with
   `ManagementApiProofs`.
8. `LogStoreProofs`, `ProcessLogsProofs` and `CaddyRoutesProofs`.

Left, most important first:

9. `CaddyRoutes`: a request that the server applies after the client gave up.
10. `PortHandoff` (EXTENDS `Supervisor`): `StartAllocated` and `waitBound`
    (handoff.go, ownership_linux.go), which the service does not call.
11. Two services on one database file, the case behind the observation on
    command.go:176 in section 6.
12. `DomainRules`: transition table, backoff and labels as pure operators.

## 3. The models

### `LinkStore`

`spaces` and `rows` are the two tables. A slot stands for one alias, or one
(space, name) pair: the UNIQUE constraints also cover archived rows, so a slot
goes free, live, archived and is used once. A committed statement is an action;
a failed one leaves the tables unchanged. `probe` is the port inside the
persisted health URL: `NoPort` while the URL still holds `{port}`, `FixedPort`
when the client gave a URL with a port of its own.

### `Lifecycle`

`Service.mu` serialises mutations, so at most one operation is in progress; the
record `op` is its frame: what kind it is, the next call (`pc`), the link copy
it carries (`l`), where compensation continues (`then`, `ret`), the loop
snapshot (`todo`), the desired routes, the clock reading (`asOf`), who had exited
by then (`ended`, history that only a property reads) and whether its context
was cancelled. Each call to the database, allocator, supervisor,
health checker or proxy is one action; between two of them `Tick`, `Exit`,
`Cancel`, `Crash` and `StopSignal` may happen.

| code | model |
| --- | --- |
| `start` | `Allocate` ... `SaveActive`, `Unroute`, `StartExpired` |
| `failStart`, `destroy`, `destroyForRestart` over `compensation.Run` | `RemoveRoute`, `StopProcess`, `ReturnPort`, `Compensated`, then `SaveFailed`, `SaveTerminal` and `DeleteRow`, or `SaveCreating` |
| `CreateSpace`, `CreateLink`, `DeleteLink`, `RestartLink`, `DeleteSpace` | `CreateSpace`, `CreateLink`, `RequestDelete`, `RequestRestart`, `RequestDrop` and `DropSpace` |
| `cleanupLocked` | `SweepLinks`, `SweepSpaces`, `PurgeSpace` |
| `Reconcile` | `Ticker` or `Startup`, the sweep, `Inspect`, `ApplyRoutes` |
| `Shutdown` and the stop function | `StopSignal`, `BeginShutdown`, `Shutdown` |

Outcomes of a call: with a live context it succeeds, or fails and uses up one
of `MaxFaults`; with a cancelled context it fails, except that stopping a dead
group succeeds and a cancelled stop may or may not outrun its SIGTERM. A failed
proxy call may have taken effect; a failed `Proxy.Reconcile` leaves each owned
route at the old or the desired value (`ProxyKept` of `CaddyRoutes` is the
check that the adapter does no worse). The order of a loop over links is
arbitrary (the code sorts it). Who may send a request, and what is recorded of
it, is `ManagementApi`'s subject.

Ports. `reserved` is what Mirage's own allocator holds, and that is all that
keeps a port from being handed out: `Supervisor.Start` only runs a shell with
`PORT` in its environment, so a child may never listen, listen elsewhere or stop
listening, and a released port may be given to another link or taken by a
stranger. A probe goes to whatever port its URL holds, so it may be answered by
anybody and may fail at any time: nothing about a process follows from a probe.
What the service knows of its child it knows from `Alive` alone, and in a start
it does not ask (section 6).

`NotFound` is tolerated inside the loops; with one daemon per database a row in
hand cannot vanish under the mutex, so it does not occur in the model.

### `PreviewLease`

Per link: absent, private, public, gone, and a worker that is none, running or
ended. Public only with a recorded worker; a worker is forgotten only when it
ended and the lease is private; gone only from private without a worker.

### `CaddyRoutes` and `ProxyContract`

`config` is Caddy's route array, which Mirage shares with other admin clients;
`call` is the frame of the one call that holds `Client.mu`: what it has read
(`snap`, `all`), its next request, its undo list and its outcome. Every request
to the admin server is a step; it may fail with or without effect, and the
context may end. `Edit` is another client, between calls and, up to `MaxEdits`
times, in the middle of one; `edits` counts those. What the server does with a
request (`Applied`: PUT replaces, POST inserts and DELETE removes at an index)
is outside this repository and modelled as the adapter and its tests use it.

| code | model |
| --- | --- |
| `Add`, `Remove` | `BeginAdd` or `BeginRemove`, `Fetch`, `Send` |
| `Reconcile`: repair, insert, prune | `BeginReconcile`, `Fetch`, `Repair`, `Insert`, `Prune`, `Send`, `Finish` |
| `rollback` and the verifying read | `UndoRepair`, `UndoOther`, `Verify` |
| retry loop of a request | `MayRetry` |

`ProxyContract` is a table of owned routes and at most one call with a target:
each entry is always the old or the wanted one, success means the target.

### `Supervisor`, `LogStore`, `ProcessLogs`

`Supervisor`: `groups` is the kernel's table of process groups (owner, leader
up or zombie, surviving members), `procs` the run records under `pid:generation`,
`reaper` how far each run's goroutine is. `Stop` is cut at its system calls and
waits (`StopProbes`, `SendTerm`, `StopWaits`, `SendKill`, `StopWaitsAgain`), the
reaper at `cmd.Wait`, closing `done`, deleting the record and closing the log.
`Fork`, `LeaderExits`, `OthersExit` and `TakePid` are the processes and the
kernel, `DaemonDies` forgets all records.

`LogStore`: `records` and `bytes` are the ring of one link; `fol[f]` is what
belongs to one call of `Follow`: queue, the record its writer holds, how often
its `done` channel was closed, and where writer, watcher and reader are. What
`Store.mu` makes atomic is one action. `history` and `written` are auxiliary.

`ProcessLogs` joins them: `Capture` appends what a run writes, the reaper
closes the log of the link, and the runs of a restarted link share that log.
`CaptureEnds` is the end of the scanner, with the last writer or, while the
process runs, at a line over 1 MiB, after which nobody reads its output.
Its run has no followers: in `LogStore`'s specification Append and Close may
happen at any time, and `ProcessLogsProofs` puts the two together
(`FollowedSpec`: the steps of `ProcessLogs` and of any number of followers).
`LogClosed` and `ClosedEndsStreams` together say that a follow ends when the
process does (docs/plan.md:204).

### `ManagementApi`

`req[r]` is a request in flight: its kind, how it authorizes itself (`by`: token,
dashboard, administrator) and with whose token (`cred`), the alias and name it
carries, what it found (`space`, `link`), whether its audit event is stored,
whether its client has left (`late`) and its answer. `Service.mu` is held by the
request at one of `HeldPCs`. `spaces` and `links` are the rows, `public` whether
a link is routed, `known` the spaces whose token reached a client.

| code | model |
| --- | --- |
| routes of `httpapi.go`, forms of `dashboard.go`, commands of the CLI | `SendCreate`, `SendDrop`, `SendForcedDrop`, `SendLink`, `SendAdminLink`, `SendFromDashboard`, `SendDropOwn` |
| request timeout, a client that leaves | `Leave` |
| `authenticate`, `linkAuth`, `AuthorizeAdmin` | `Authorized`, `Denied`, `Deny` |
| `CreateSpace`, `CreateLink` | `CreateSpace`, `CreateLink`, then `Start` |
| `DeleteLink`, `RestartLink` and their admin variants | `LookUpLink`, `Audit`, `DestroyLink`, `DestroyForRestart`, `Collect`, `Start` |
| `DeleteSpace`, with force or without | `LookUpSpace`, `Audit`, `DestroyNext`, `DropSpace` |
| an error of any statement | `GiveUp`, `DestroyFails`, `Start` |
| the answer, read or lost | `Reply` |
| the minute pass beside it | `PassStops`, `PassFails`, `PassRepairs` |

What a destroy or a start consists of is `Lifecycle`; here each is one step with
the outcomes that `Lifecycle` has for it. A space's token opens a session or a
route before the mutex (`Opens`), and the service looks it up again behind the
mutex (`Authorized`): between the two everything may change.

### `Migration`, `DaemonStop`, `Daemon`

`Migration` is `Open` and `migrate`: `BEGIN IMMEDIATE`, the look at the version,
one step per schema version, COMMIT or ROLLBACK, for any number of processes
with the versions of their releases. `schema` is the version on file, `draft`
that of the transaction.

`DaemonStop` is everything between a start that succeeded and the return of the
stop function. `draining`, `active` and `drained` are the fields of `API` that
`gateMu` guards; `mutation` and `stream` say where each handler is; `mu` is
`Service.mu`; `stop` is the line of the stop function; `expired` its ten
seconds, `out` its result.

| code | model |
| --- | --- |
| `API.mutation` | `Admit` (to wait for the mutex, or to leave with an invalid request) or `Refuse`, `Work`, `WorkEnds`, `Leave` |
| `API.follow` | `OpenStream`, `EndStream` |
| cleanup goroutine | `Tick`, `PassBegins`, `PassEnds`, `CleanupEnds` |
| `Drain` | `Drain`, `DrainReturns` |
| `Servers.Shutdown` | `CloseListeners`, `ServersReturn` |
| stop function | `StopSignal`, then the above, `CancelCleanup`, `AwaitCleanup`, `ShutdownBegins`, `ShutdownReturns`, `CloseRest` |

`Service.Shutdown` and the minute pass are single steps here: `Lifecycle` has
their calls. Time passes (`Expire`) only while the stop waits or sweeps.

`Daemon` puts `Start` in front: `OpenStore` (the steps of `Migration`),
`StartChild`, `ProbeAnswers`, `ProbeTimesOut`, `ReadAdminHash`, `Repair`,
`Listen`, and for each the return with an error (`Fail`; after the cleanup
goroutine exists `ListenFails` and `Unwind`). `child` is the managed Caddy, which
may end at any time. Other processes open the same file meanwhile.

## 4. Runs

| run | question | bounds | states |
| --- | --- | --- | --- |
| `lifecycle` | do database, processes and routes stay consistent whatever fails, what is lost to it, is the state repaired by every pass that returns nil, what does a Shutdown that returns nil leave, and does the service implement `PreviewLease`? | 2 links, 2 processes, 2 ports, any 3 of: 3 faults, 1 cancelled context, 1 crash, 1 stop; clock 0..1, TTL 1 | 3.8 M |
| `lifecycle_live` | are expired links collected, is the mutex given back, and does each call bring its holder nearer to the end, unless the proxy never answers it? | 1 link, 2 processes, 1 fault, 1 cancelled context, 1 crash, clock 0..2, TTL 1 or 2 | 608 k |
| `caddy` | does the adapter change only its own routes, restore them after a failure and keep `ProxyContract` until another client interferes, and does a call return, whoever interferes? | 2 links, 2 upstreams, 1 foreign route, 1 fault or ended context per call, 1 attempt, 1 foreign edit during a call | 895 k |
| `process_logs` | do Stop and Alive tell the truth, is a running process always on record, is every run reaped and its log closed? | 2 runs, 1 PID, 1 crash, 1 line | 137 k |
| `log_store` | is the ring the newest suffix that fits, does every stream end once, and with it its goroutines? | 1 follower, capacity 3, records of size 1..4, 4 of them, queue of 1 | 49 k |
| `daemon` | does a failed start or a stop leave anything, can anything start after the sweep, does each return (a start unless the proxy never answers), does an open find its schema? | 2 mutations, 1 stream, 1 other process of an older release, schema 0..3 on file | 53 k |
| `http_api` | what may a request do that waited for the mutex, whom does it touch, and what does its client learn? | 2 requests, 2 spaces, 2 aliases, 2 links, 1 name | 1.4 M |

Why the bounds are enough. Links share only the mutex, the port range and the
proxy, and an operation touches one link or loops over all, so two show every
interaction. Two processes are one for each link, or one link restarted (the
theorems are for any number); three faults allow a failing
call, a failing cleanup and the loss of a process group that they pay for
(`NoOrphan`), and any three mishaps (`ThreeMishaps`) a crash in the middle of a
failing cleanup or a stop after both. With one clock step a link expires at any
point of an operation while another, created later, does not; with two and two
TTLs, in `lifecycle_live`, a space and its link also expire one after the other. One link is enough for the liveness run, where the loops differ only in
length: `OperationAdvances` is a theorem for any number of links (TLC has also
held it with two, which takes too long for every run). The port inside a health
URL is read by nothing but `ProbesOwnPort`, whose run has URLs with a fixed port
as well; in the others they would only double the states. Two owned routes,
a foreign one and the fallback, itself nobody's of Mirage, give every relative
order in the array, and one edit is enough to shift every index that a call has
read. With a single PID every second use of it is a reuse, by a run or by a stranger.
Records smaller than, equal to and larger than the ring, and one that evicts
several, occur with capacity 3; followers do not see each other, so one is
enough. The gate counts to two with two mutations, the smallest number for
which "the last one" differs from "one". The other process of an older release
meets every version on file, older, equal and newer. Two requests are the one
that waits and the one that changes what it waits for, and the pass is a third
party; with two spaces and two aliases an alias can come to mean nothing or
another space; two links of one name are the old and the new one, in one space
or in two. Links, ports and processes of `lifecycle` and of the two violation
runs of `Lifecycle`, and the IDs of `http_api`, are symmetric; runs with liveness
use no symmetry. `TTLs`, `MaxTime`, `MaxFaults`, `MaxCancels`, `MaxCrashes`,
`MaxStops`, `MaxEdits`, `MaxLines` and `MaxSize` are the bounds of counters.

### Fairness

- `Lifecycle!FairSpec`: the operation in progress keeps running, but not where
  `AwaitsProxy` holds: a pass that was not cancelled has asked the proxy on a
  context without a deadline (command.go:144, 151-162) through a client without
  a timeout (command.go:109), and the answer may never come. The other calls are
  bounded, those of a request by its thirty seconds, those of the stop by its
  ten, a probe by the client's two, `Stop` by its waits. `Ticker` is strongly
  fair, since it is enabled whenever the mutex is free and Go's mutex hands over
  to a starving waiter; `Startup` is weakly fair, since the service manager
  restarts the daemon (`Restart=on-failure` in docs/setup.md). Hence
  `ExpiredCollected` and `MutexReleased` end in `\/ []AwaitsProxy`.
- `CaddyRoutes!FairSpec`: a call takes its steps, but not where `Unbounded`
  holds: its first read (caddy.go:269 and 427) and the write of Add and Remove
  run on the caller's context, which may have no end. The mutations, the undos
  and the verifying read of Reconcile have two seconds of their own (caddy.go:117).
- `ProcessLogs!FairSpec`, `LogStore!LogFairSpec`: runnable goroutines run. A
  watcher is only asked to act once its handler has left; the request timeout
  is not relied on.
- `Daemon!FairDaemonSpec`: Start and the stop function run on and their timers
  fire, but not where `AwaitsProxy` holds: the first Reconcile (command.go:144)
  and the Shutdown of the unwinding (command.go:176) have no deadline. Handlers
  of mutations end, by the request timeout, once they have the mutex; a pass is
  only asked to end once it is cancelled, which ends its requests;
  `ShutdownBegins` and `CleanupEnds` are strongly fair, because a waiter that
  starves gets Go's mutex and ticks are a minute apart. Nothing is assumed of
  streams, of other processes, or of an answer to the probe.
- Requests, the clock, faults, exits, edits and crashes are never fair.
  `ManagementApi` states safety only and needs no fairness.

### What the code does not do (violation runs)

- `restart_probes_old_port`: the health URL is persisted with the first port in
  place of `{port}`; a restart probes the old port.
- `timeout_keeps_process`: compensation uses the request's context; when that
  has ended the process of a failed start stays.
- `restarted_log_silent`: the log is keyed by the link and closed for good by
  the reaper of its first run; a restarted process writes into a closed log.
- `stream_starves_stop`: one open log stream holds the servers' shutdown until
  the ten seconds are over, and `Service.Shutdown` gets a context that has
  ended: it removes no route and stops no process.
- `foreign_route_overwritten`: Add reads the array and writes by index
  (caddy.go:208); when another client inserts a route in between, Add replaces
  that client's, against caddy.go:3-6 and docs/product.md:70.

## 5. Proofs

TLAPS proves, for every value of the constants that satisfies the named
assumptions (`StoreAssumption`, `LifecycleAssumption`, `CaddyAssumption`,
`DaemonAssumption`, `MigrationAssumption`, `StartAssumption`, `ApiAssumption`,
`LogAssumption`, `SupervisorAssumption`: special values are not members of the
sets they stand beside, bounds are naturals, the set of mutations is finite):

| module | theorem | says |
| --- | --- | --- |
| `LifecycleProofs` | `TypeCorrect` | `Spec => []TypeOK` |
| `LifecycleSafety` | `RouteRecoverableAlways`, `HandleKeptAlways`, `RouteGoneBeforeStopAlways` | the property for any number of links, faults, cancelled contexts, crashes and stops |
| `LifecycleSafety` | `LeaseContractAlways` | `Lifecycle` implements `PreviewLease`: initial states map to initial states, each step to a move of every lease |
| `LifecycleSafety` | `NoOrphanAlways` | a process group that nothing names was paid for by a crash, a cancelled operation or three failing calls (for a finite set of processes, since the losses are counted) |
| `LifecycleRepair` | `RepairedAfterPassAlways` | after a pass that returned nil exactly the active unexpired links are routed, and none whose process had exited when the pass read the links; after any number of failures, expiries and crashes |
| `LifecycleRepair` | `StopLeavesOnlyExpiredAlways` | a Shutdown that returned nil leaves no route, and a process only behind a link that had expired |
| `LifecycleRepair` | `OperationAdvancesAlways` | while an operation holds `Service.mu` every call brings it nearer to its end and nothing in between sets it back, for any number of faults (for finite sets of links and spaces) |
| `CaddyRoutesProofs` | `CallAdvancesAlways` | the same for a call of the adapter, rollback included, with any number of attempts, faults and foreign edits (for a finite set of links) |
| `CaddyRoutesProofs` | `CaddyTypeCorrect` | no call indexes past its array or its undo list, with any number of attempts, faults and foreign edits |
| `CaddyRoutesProofs` | `CaddyOrdered`, `CaddyOwnWrites`, `CaddyRestores` | order of the array, foreign routes and rollback, for any number of links, upstreams and routes, under `OneFailure` and until another client has edited the array during a call |
| `CaddyRoutesProofs` | `CaddyKeepsContract` | every step of the adapter is one of `ProxyContract`, under the same conditions |
| `DaemonProofs` | `SweptIsFinalAlways`, `NoLostWakeupAlways`, `CleanStopAlways` | the promises of gate and stop for any number of requests and streams |
| `DaemonProofs` | `StartTypeCorrect`, `NothingHeldAlways`, `StopPromisesAlways`, `OpensOwnSchemaAlways` | the same with the start in front, and for any number of processes and releases at the file |
| `ManagementApiProofs` | `ApiTypeCorrect`, `NothingInDeadSpaceAlways`, `OwnSpaceOnlyAlways`, `ForcedIsAuditedAlways`, `AbandonedInertAlways`, `DeleteAnswersAlways` | what a request may touch and what its client may conclude from the answer, for any number of requests, spaces and links |
| `ProcessLogsProofs` | `TypesHold` | supervisor and log stay well formed together, for any finite set of runs |
| `ProcessLogsProofs` | `SupInvAlways`, `StopMeansDeadAlways`, `DeadMeansExitedAlways`, `RunningIsRecordedAlways` | Stop and Alive tell the truth and a running process is on record, for any number of runs, PIDs and restarts of the daemon |
| `ProcessLogsProofs` | `PromisesHoldTogether`, `EndedRunEndsStreams` | supervisor, log and any number of followers together: the promises of each hold, and a run whose reaper is through leaves no stream open |
| `LogStoreProofs` | `FollowInvAlways`, `ReleasedOnceAlways`, `ClosedEndsStreamsAlways` | every stream is released once, for any number of followers and any queue |
| `LogStoreProofs` | `LogTypeCorrect`, `RingIsNewestAlways` | the ring is the longest suffix that fits and its count of bytes is right, for any capacity and any sizes of records |

`Lifecycle`. `RouteRecoverable` is not inductive: whether a route is still
recoverable after `SaveTerminal` depends on what compensation did before. The
invariant `IInv` of `LifecycleSafety` adds what the operation in hand may rely
on: its link is live (`FrameInv`); while its route exists its copy names the
same port and process as the row, and past the removal only with a reported
error (`RouteInv`); what `start` has established when it publishes
(`PublishInv`); copy and row name different processes only when one names none
and the row's is dead (`HandleInv`); a loop's snapshot is of live links, apart
from what it keeps (`LoopInv`). Lemmas say once what each building block does
to the store and to the frame; then there is one step per action and one per
conjunct that it disturbs. `HandleKept`, `RouteGoneBeforeStop` and the
refinement are consequences of `IInv` for a single step.

`NoOrphan` is an account. `Budget` is what was spent, three for a crash or a
cancelled operation and one for a failed call; `Owed` is the part of it that
belongs to an unnamed process still in the hands of the operation, 0 to 3 by
the place it has come to. `OrphanInv` says that every lost group was paid with
three and that `Owed` is left over on top. A process gets into a hand that no
row names only by a failed save right after its start (`EmptyHanded`,
`UnnamedAt`); it is lost there only by a crash, or by two more calls that fail
or that a cancelled context fails for free. The bound is sharp: TLC finds a
loss for one crash, for one cancelled operation and for three faults, and none
for two faults.

`CaddyRoutes`. What `OwnWritesUntilEdited` needs is that an index read before still
names the same route, and what `RollbackRestores` needs is that each undo meets
the array its mutation left. `Reconciling` says both at once: the mutations of a
Reconcile leave a trail of arrays, each made from the one before by the mutation
whose undo stands at that place of the list (`Trail`), the server is at the end
of the trail or one step before it (`Located`), and the three loops know so much
of the array they plan on (`Planned`). Beside it stand `Framed` (types, and
which fields belong to which place), `Sound` (no route twice, Mirage's before
the fallback), `Faulty` (a rollback has the only fault behind it) and
`SingleWrite` (the one request of Add or Remove fits the array that is there).
The invariant is claimed while `edits = 0`: an edit ends what an index read
before can mean, and `foreign_route_overwritten` is what follows. `OneFailure` is
`Attempts = 1 /\ MaxFaults <= 1`; production makes one attempt
(caddy.go:108-110), and section 6 says what fails with a second fault in one call.
`CaddyTypeCorrect` and `CallAdvancesAlways` need none of this.

`LifecycleRepair`. What a pass leaves depends on more than the row of one link.
`RInv` adds to `IInv` that whoever had exited when the pass read the links stays
dead (`EndedInv`); that a link in a terminal status names no process
(`ClearedInv`); that a start returns to no loop, so no link becomes active while
a pass is under way (`StartInv`); that every unexpired link is still to come, was
kept or is in hand, unless Shutdown already has an error (`SnapshotInv`); and
that no link which is kept names a process that had exited by then
(`DesiredInv`). About the ports of living processes nothing is assumed and
nothing is proved: the code has no way to know who listens there.

`OperationAdvances` and `CallAdvances` are termination without fairness. A run
bounds the faults, which would hide a loop that tries again until a call
succeeds; the measure has no such bound. It is a tuple of four naturals in
lexicographic order. For an operation (`Ahead` in `Lifecycle`): the live spaces,
since only an expiry sweep ends one and it then looks for the next; the loop it
is in; the links that loop still has to visit; the calls left for the link in
hand, where the compensation of a failed start lies behind the start and that of
a restart before it. For a call of the adapter: reading, mutating or taking
back; the links left with the position in the array, or the undos left; whether
the next request is out; its attempts. Each component is bounded by the
constants, and so is the number of steps. What is needed beyond the invariants
above is that a space is purged once (`PurgeInv`), and that the mutation under
way is one that was outstanding (`SentInv`, `Outstanding`): else a request
could succeed and leave as much to do as before. That a runnable goroutine does
take its next step is fairness, and that half of `MutexReleased` and
`CallReturns` stays with TLC.

`DaemonStop` (in `DaemonProofs`). `IInv` says that the counter counts the mutations in flight
(`Counted`, by the theorems on cardinality), that an open channel has somebody
to close it (`Channel`), and for each place of the stop function what the
places before it established, as long as the time was not over (`Quiet`,
`CleanupGone`, `Reported`). `Daemon` adds which resources exist at which place
of `Start` (`Held`) and that only the lock's holder has a draft, no older than
the file (`Locked`); a step of `DaemonStop` inside `Daemon` reuses `StepInv`.

`ManagementApi`. `ApiInv` adds to `NothingInDeadSpace` that rows and names
belong together (`Rows`), what a request knows while it waits for the mutex and
may be stale (`Waits`), what one that holds it has found and may rely on, since
only the pass moves meanwhile (`Works`), and that a space a creator was told of
exists or was dropped (`Created`). The action properties follow from it for a
single step.

`ProcessLogs`. `SupInv` says that an identity `pid:generation` is unique within
one life of the daemon (`IdentsUnique`), that a record names a run of this life
(`RecordsCurrent`), that a reaper past `cmd.Wait` has an exited leader
(`ReapedExited`), and that a run of an earlier life which still has its PID
shares it with none of this (`LostAlone`). `TypeOK` is less plain than it looks:
the number a run is given must not run past the set of runs, which `Numbered`
says: `next` counts the runs of this life. A step of the log inside `ProcessLogs`
is one of `LogStore`'s or leaves a fresh log, so `LogStore`'s lemmas are reused.
`FollowedInv` joins both sides by `ReaperClosed`: a reaper of this life that has
ended has closed the log, and only the death of the daemon opens one again.
Hence no follower waits on the log once any run of the link is through, which is
also why a restarted link has no log (section 4).

`LogStore`. `FollowInv` says that the map of followers decides who is still to
be released: the channel of a follower in the map is open, that of one that left
was closed at most once, so `Close` and an unfollowing watcher never both close
it. `RingInv` is `RingIsNewest` with the types it needs; that it survives an
append rests on `EvictedFacts` (eviction takes no record more than it must) and on the
laws of `Size`, a recursive function: `SizeOf`, `SizeSplit`. They are proved by
descent to the least element of a set of naturals, since no installed prover can
instantiate the library's induction theorems, which take an operator.

Only model-checked: liveness, which the provers cannot do under fairness
(`ExpiredCollected`, `MutexReleased`, `CallReturns`, `LogClosed`,
`GoroutinesEnd`, `StopReturns`, `StartReturns`, and what a violation run shows).
Of `MutexReleased`, `CallReturns` and `LogClosed` what needs no fairness is
proved (above). The types of supervisor and log
(`TypesHold`, `LogTypeCorrect`)
are theorems only: TLC held them before they were proved, and a run on two
runs or one follower would add nothing to that. Every invariant and every action property of the passing runs
has a theorem.

## 6. Observations without a run

- The process is stopped even if the route removal failed, although
  docs/product.md:52 says routes are removed first (`RouteGoneBeforeStop` states
  what does hold).
- Shutdown leaves a link running that expired since the last sweep, although
  docs/product.md:74 says that it terminates owned processes: its loop takes the
  links that are not expired (`StopLeavesOnlyExpired` states what does hold). The
  next start of the daemon sweeps it.
- `--restarts` (docs/usage.md:91, docs/product.md:61) has no effect in
  production: nothing calls `ScheduleAutomaticRestart`, and a pass destroys a
  link whose child has died (reconcile.go:42-47). `runScheduledRestart`
  (service.go:757-769) would clear the identity without stopping the old process.
- A restart of an expired link destroys it and reports not found; nothing is
  audited. The administrator may act on the links of an expired space, and a
  `DELETE` of a space without force does not look at its expiry either.
- Names and aliases are never free again, since UNIQUE covers archived rows. A
  space whose answer is lost keeps its alias with a token that nobody knows
  (service.go:109).
- A `DELETE` with a token of another space answers 401, where docs/plan.md:240
  says not found.
- Between `Release` and the child's bind a stranger can take the port
  (port.go:34), as it can from a child that never listens or no longer does; while
  the child lives, its answers to the probe keep the link public, in every pass.
  A start does not even ask whether its child still lives (service.go:367-384)
  and takes the first answer for readiness. docs/reviews/MIR-05/code.md:14 says
  that a competing listener is found out: that check is in `StartAllocated`
  (handoff.go:24), which the service does not call.
- The service writes statuses directly; `Domain.CanTransition` is used by tests
  only and forbids steps the service takes (active to deleted, active to
  creating).
- In `CaddyRoutes` with `MaxFaults = 2` a failing undo shifts the indexes of the
  undos after it; with `Attempts = 2` a DELETE is repeated after a lost answer.
  Production makes one attempt.
- An answer "not found" to a delete does not say that the link was not there: a
  space that expired while the request waited for the mutex is not found for its
  token (service.go:156-168), with its links still running until the pass.
- `SignalsOwnGroup` fails with reuse of PIDs: once the record is gone Stop and
  Alive use the PID alone (supervisor_linux.go:143); generations restart at 1
  with the daemon. Alive says dead after the leader's exit, then alive again
  through the group once the record is deleted. The last lines of a process can
  be lost, since `cmd.Wait` closes the pipes under `capture`.
- A second daemon with the same file and address takes the rows for its own,
  fails to listen and then calls `Service.Shutdown` (command.go:176): it stops
  the links of the daemon that serves. Its probe of Caddy is answered by the
  first one's, since `caddy.Start` does not look whether its own child lives.
- `Child.Stop` reports a Caddy that had ended already as an error, so such a
  stop is never clean (`Around`).
- The previous binary refuses a file that a newer one has migrated
  (store.go:101), so the roll back of docs/setup.md section 7 works only
  between releases of one schema.
- A Caddy that accepts a request of the minute pass and never answers it ends the
  collection of expired links, which docs/product.md:12 promises every minute:
  neither the pass (command.go:151-162) nor the client (command.go:109) has a
  deadline, and the pass holds `Service.mu`. Without its second disjunct
  `ExpiredCollected` fails for this alone.
- A Caddy that does not answer keeps a start of the daemon for ever, before it
  listens (command.go:144) or while it unwinds (command.go:176).

## 7. Not modelled, and why

- Port hand-off (not called by the service), two services on one file, effects
  of admin requests that the proxy applies after the client gave up
  (caddy.go:313): planned (section 2).
- Scheduled restarts (service.go:702-809): nothing in production calls them.
- Sockets: which process listens on which port, and what a probe would tell.
- `DomainRules`: status table, TTL and label parsing have no state.
- A process group between `Processes.Start` and the save of its identity is
  lost by a crash, for the code has no record of it; `NoOrphan` bounds the loss
  to one group per crash or cancelled operation and one per three failing calls.
- Routing, JSON, HTML, cookies, the CLI's parsing, configuration and output, its
  `admin init`, redaction of log lines and file permissions are input and output
  without state that the rest depends on. `Tail`, `List` and the queries of the
  API only read.
- Causes of failures: a call fails or not.
