---------------------------- MODULE CaddyRoutes ----------------------------
(***************************************************************************)
(* caddy.Client: Add, Remove and Reconcile over Caddy's admin API, which   *)
(* knows a route only by its index in an array that Mirage shares with     *)
(* other admin clients.  Client.mu serialises the calls; each request to   *)
(* the admin server is a step.  The server is modelled as the adapter and  *)
(* its tests use it: GET returns the array, PUT replaces, POST inserts and *)
(* DELETE removes at an index, and an index out of range is refused.       *)
(* Indexes are those of TLA+ sequences, one more than the code's.          *)
(***************************************************************************)
EXTENDS SequencesExt

CONSTANTS Links,        \* identities of Mirage's own routes
          Upstreams,    \* what a route may lead to
          Foreign,      \* identities of other controllers' routes
          Fallback,     \* the identity of the fixed last route
          None,         \* no upstream, no route
          Attempts,     \* Config.RetryAttempts
          MaxFaults,    \* bound: requests that fail and contexts that end, per call
          MaxEdits      \* bound: edits of the array by other clients during calls

ASSUME CaddyAssumption ==
  /\ Links \intersect Foreign = {}
  /\ Fallback \notin Links \union Foreign
  /\ None \notin Upstreams
  /\ Attempts \in Nat \ {0}
  /\ MaxFaults \in Nat
  /\ MaxEdits \in Nat

VARIABLES config,   \* the server's route array
          call,     \* the call that holds Client.mu
          edits     \* history: how often others have edited the array during calls

vars == <<config, call, edits>>

Ids     == Links \union Foreign \union {Fallback}
Route   == [id: Ids, up: Upstreams \union {None}]
Request == [method: {"PUT", "POST", "DELETE"}, at: Nat, route: Route]
Undo    == [kind: {"put", "unadd", "readd"}, at: Nat, route: Route]
Wanted  == [Links -> Upstreams \union {None}]
Calls   == {"none", "add", "remove", "reconcile"}

Plain(k)    == [id |-> k, up |-> None]     \* a route that is not Mirage's
Owned(l, u) == [id |-> l, up |-> u]
NoRequest   == [method |-> "PUT", at |-> 0, route |-> Plain(Fallback)]

\* A call reads ("fetch"), writes ("send") and, in Reconcile, picks its next
\* mutation ("plan") or takes its mutations back ("undo", "unsend").
PCs == {"idle", "fetch", "plan", "send", "undo", "unsend"}
Outcomes == {"ok", "error", "incomplete", "indeterminate"}

Idle == [kind |-> "none", pc |-> "idle", link |-> None, wanted |-> [l \in Links |-> None],
         snap |-> <<>>, all |-> <<>>, left |-> {}, cursor |-> 0, undos |-> <<>>,
         req |-> NoRequest, tries |-> 0, dead |-> FALSE, faults |-> 0, outcome |-> "ok"]

Call == [kind: Calls, pc: PCs, link: Links \union {None}, wanted: Wanted,
         snap: Seq(Route), all: Seq(Route), left: SUBSET Links, cursor: Nat,
         undos: Seq(Undo), req: Request, tries: 0 .. Attempts - 1,
         dead: BOOLEAN, faults: 0 .. MaxFaults, outcome: Outcomes]

TypeOK == config \in Seq(Route) /\ call \in Call /\ edits \in 0 .. MaxEdits

\* Whatever is configured before Mirage starts: other routes, and the
\* fallback when Mirage seeds the server itself.
Init ==
  /\ config \in {<<>>, <<Plain(Fallback)>>}
                 \union {<<Plain(f)>> : f \in Foreign}
                 \union {<<Plain(f), Plain(Fallback)>> : f \in Foreign}
  /\ call = Idle
  /\ edits = 0

-----------------------------------------------------------------------------
\* The array.

Places(cfg, k) == {i \in DOMAIN cfg : cfg[i].id = k}
Has(cfg, k)    == Places(cfg, k) # {}
Place(cfg, k)  == Min(Places(cfg, k))
Upstream(cfg, l) == IF Has(cfg, l) THEN cfg[Place(cfg, l)].up ELSE None

\* Mutant: a new route is appended.
EndIndex(cfg) == Len(cfg) + 1

FallbackIndex(cfg) == IF Has(cfg, Fallback) THEN Place(cfg, Fallback) ELSE Len(cfg) + 1

Put(i, r)  == [method |-> "PUT", at |-> i, route |-> r]
Post(i, r) == [method |-> "POST", at |-> i, route |-> r]
Delete(i)  == [method |-> "DELETE", at |-> i, route |-> Plain(Fallback)]

Accepts(cfg, r) == r.at \in 1 .. (IF r.method = "POST" THEN Len(cfg) + 1 ELSE Len(cfg))

Applied(cfg, r) ==
  CASE r.method = "PUT"    -> ReplaceAt(cfg, r.at, r.route)
    [] r.method = "POST"   -> InsertAt(cfg, r.at, r.route)
    [] r.method = "DELETE" -> RemoveAt(cfg, r.at)

-----------------------------------------------------------------------------
\* The parts the handlers share.

Busy == call.pc # "idle"
Return(o) == call' = [Idle EXCEPT !.outcome = o]
Charge == call.faults < MaxFaults

\* Compensation runs on a context of its own: context.WithoutCancel.  n is
\* what the failure that leads here takes from the bound.
Rollback(n) == call' = [call EXCEPT !.pc = "undo", !.dead = FALSE, !.tries = 0, !.faults = @ + n]

\* request() tries again after a transport error or a 5xx answer.
\* Mutant: one attempt too many.
RetryOnceMore == ~call.dead /\ call.tries < Attempts

MayRetry == ~call.dead /\ call.tries + 1 < Attempts
Retry == MayRetry /\ call' = [call EXCEPT !.tries = @ + 1, !.faults = @ + 1]

\* Mutant: the undo stays on the list.
Kept(n) == call' = [call EXCEPT !.pc = "undo", !.tries = 0, !.faults = @ + n]

\* An undo is done with, whether it worked or not.
Dropped(n) == call' = [call EXCEPT !.pc = "undo", !.undos = Front(@), !.tries = 0, !.faults = @ + n]

\* How a read fails: on a dead context, or by a fault, perhaps tried again.
ReadFailed(n) ==
  CASE call.pc = "fetch"                       -> Return("error")
    [] call.pc = "undo" /\ call.undos = <<>>  -> Return("indeterminate")
    [] call.pc = "undo" /\ call.undos # <<>>  -> Dropped(n)

ReadFails ==
  /\ UNCHANGED config
  /\ \/ call.dead /\ ReadFailed(0)
     \/ ~call.dead /\ Charge /\ (ReadFailed(1) \/ Retry)

-----------------------------------------------------------------------------
\* The calls.  Service passes valid routes (RouteFor), so validRoute holds.

BeginAdd(l, u) ==
  /\ ~Busy
  /\ call' = [Idle EXCEPT !.kind = "add", !.pc = "fetch", !.link = l, !.wanted[l] = u]
  /\ UNCHANGED config

BeginRemove(l) ==
  /\ ~Busy
  /\ call' = [Idle EXCEPT !.kind = "remove", !.pc = "fetch", !.link = l]
  /\ UNCHANGED config

BeginReconcile(w) ==
  /\ ~Busy
  /\ call' = [Idle EXCEPT !.kind = "reconcile", !.pc = "fetch", !.wanted = w]
  /\ UNCHANGED config

\* Add: nothing to write when the route is there as wanted, else replace it
\* where it is or insert it before the fallback.
FetchForAdd ==
  LET l == call.link
      r == Owned(l, call.wanted[l])
      read == [call EXCEPT !.snap = config, !.tries = 0]
  IN  /\ call.kind = "add"
      /\ IF Has(config, l) /\ Upstream(config, l) = r.up
           THEN Return("ok")
           ELSE call' = [read EXCEPT !.pc = "send",
                          !.req = IF Has(config, l) THEN Put(Place(config, l), r)
                                  ELSE Post(FallbackIndex(config), r)]

\* Remove: an absent route is no error.
FetchForRemove ==
  /\ call.kind = "remove"
  /\ IF Has(config, call.link)
       THEN call' = [call EXCEPT !.snap = config, !.tries = 0, !.pc = "send",
                                 !.req = Delete(Place(config, call.link))]
       ELSE Return("ok")

FetchForReconcile ==
  /\ call.kind = "reconcile"
  /\ call' = [call EXCEPT !.pc = "plan", !.snap = config, !.all = config, !.tries = 0,
                          !.left = {l \in Links : call.wanted[l] # None},
                          !.cursor = Len(config) + 1]

Fetch ==
  /\ call.pc = "fetch"
  /\ \/ ~call.dead /\ UNCHANGED config /\ (FetchForAdd \/ FetchForRemove \/ FetchForReconcile)
     \/ ReadFails

-----------------------------------------------------------------------------
\* Reconcile's three loops.  An undo is registered before its mutation is sent.

\* Mutant: a record that exists is taken for up to date.
NeverStale(l) == FALSE

Stale(l) == Has(call.snap, l) /\ Upstream(call.snap, l) # call.wanted[l]
ToRepair == {Place(call.snap, l) : l \in {k \in call.left : Stale(k)}}
ToInsert == {l \in call.left : ~Has(call.snap, l)}
\* Mutant: whatever is not desired is an orphan.
Undesired(r) == r.id \in Links => call.wanted[r.id] = None

Orphan(r) == r.id \in Links /\ call.wanted[r.id] = None
ToPrune == {i \in DOMAIN call.snap : i < call.cursor /\ Orphan(call.all[i])}

\* Nothing is sent once the caller's context has ended.
Mutate(u, r) ==
  /\ call' = IF call.dead
               THEN [call EXCEPT !.pc = "undo", !.dead = FALSE, !.undos = Append(@, u)]
               ELSE [call EXCEPT !.pc = "send", !.req = r, !.undos = Append(@, u)]
  /\ UNCHANGED config

\* Records out of date are replaced where they are, by ascending index.
Repair ==
  /\ call.pc = "plan" /\ ToRepair # {}
  /\ LET i == Min(ToRepair)
         l == call.snap[i].id
     IN  Mutate([kind |-> "put", at |-> i, route |-> call.snap[i]], Put(i, Owned(l, call.wanted[l])))

\* Missing ones are inserted before the fallback, in the order of a Go map.
Insert(l) ==
  /\ call.pc = "plan" /\ ToRepair = {} /\ l \in ToInsert
  /\ LET r == Owned(l, call.wanted[l])
         i == FallbackIndex(call.all)
     IN  Mutate([kind |-> "unadd", at |-> i, route |-> r], Post(i, r))

\* Orphans are deleted from the highest index down.
Prune ==
  /\ call.pc = "plan" /\ ToRepair = {} /\ ToInsert = {} /\ ToPrune # {}
  /\ LET i == Max(ToPrune)
     IN  Mutate([kind |-> "readd", at |-> i, route |-> call.snap[i]], Delete(i))

Finish ==
  /\ call.pc = "plan" /\ ToRepair = {} /\ ToInsert = {} /\ ToPrune = {}
  /\ Return("ok")
  /\ UNCHANGED config

\* Mutant: an insertion is not ticked off.
Unticked(r) ==
  LET c == [call EXCEPT !.pc = "plan", !.tries = 0]
  IN  CASE r.method = "PUT"    -> [c EXCEPT !.left = @ \ {r.route.id}]
        [] r.method = "POST"   -> [c EXCEPT !.all = InsertAt(@, r.at, r.route)]
        [] r.method = "DELETE" -> [c EXCEPT !.cursor = r.at]

\* The local bookkeeping after a mutation went through.
Recorded(r) ==
  LET c == [call EXCEPT !.pc = "plan", !.tries = 0]
  IN  CASE r.method = "PUT"    -> [c EXCEPT !.left = @ \ {r.route.id}]
        [] r.method = "POST"   -> [c EXCEPT !.left = @ \ {r.route.id}, !.all = InsertAt(@, r.at, r.route)]
        [] r.method = "DELETE" -> [c EXCEPT !.cursor = r.at]

Done ==
  CASE call.pc = "unsend"                            -> Dropped(0)
    [] call.pc = "send" /\ call.kind = "reconcile"  -> call' = Recorded(call.req)
    [] call.pc = "send" /\ call.kind # "reconcile"  -> Return("ok")

Failed(n) ==
  CASE call.pc = "unsend"                            -> Dropped(n)
    [] call.pc = "send" /\ call.kind = "reconcile"  -> Rollback(n)
    [] call.pc = "send" /\ call.kind # "reconcile"  -> Return("error")

\* A write whose answer is lost may have been applied, and so may one whose
\* context ended while it was under way.
Applications == {config} \union (IF Accepts(config, call.req) THEN {Applied(config, call.req)} ELSE {})

\* One attempt at a write.
Send ==
  /\ call.pc \in {"send", "unsend"}
  /\ \/ ~call.dead /\ Accepts(config, call.req) /\ config' = Applied(config, call.req) /\ Done
     \/ ~call.dead /\ ~Accepts(config, call.req) /\ UNCHANGED config /\ Failed(0)
     \/ ~call.dead /\ Charge /\ config' \in Applications /\ (Failed(1) \/ Retry)
     \/ call.dead /\ config' \in Applications /\ Failed(0)

-----------------------------------------------------------------------------
\* Rollback: the undos in reverse, then a comparison with the snapshot.

Pending == Last(call.undos)
Ask(r) == call' = [call EXCEPT !.pc = "unsend", !.req = r, !.tries = 0]

\* Mutant: a deletion is undone without looking whether it took place.
UndoneBlindly ==
  LET r == Pending.route
  IN  CASE Pending.kind = "unadd" -> IF Has(config, r.id) THEN Ask(Delete(Place(config, r.id))) ELSE Dropped(0)
        [] Pending.kind = "readd" -> Ask(Post(Pending.at, r))

\* The undo of an insertion looks for the identity, that of a deletion for
\* the exact route; both read the array first.
Undone ==
  LET r == Pending.route
  IN  CASE Pending.kind = "unadd" -> IF Has(config, r.id) THEN Ask(Delete(Place(config, r.id))) ELSE Dropped(0)
        [] Pending.kind = "readd" -> IF r \in ToSet(config) THEN Dropped(0) ELSE Ask(Post(Pending.at, r))

UndoRepair ==
  /\ call.pc = "undo" /\ call.undos # <<>> /\ Pending.kind = "put"
  /\ IF call.dead THEN Dropped(0) ELSE Ask(Put(Pending.at, Pending.route))
  /\ UNCHANGED config

UndoOther ==
  /\ call.pc = "undo" /\ call.undos # <<>> /\ Pending.kind # "put"
  /\ \/ ~call.dead /\ Undone /\ UNCHANGED config
     \/ ReadFails

Verify ==
  /\ call.pc = "undo" /\ call.undos = <<>>
  /\ \/ /\ ~call.dead
        /\ Return(IF config = call.snap THEN "error" ELSE "incomplete")
        /\ UNCHANGED config
     \/ ReadFails

-----------------------------------------------------------------------------
\* The surroundings.

\* The caller's context ends, or in a rollback the two seconds it is given.
Cancel ==
  /\ Busy /\ ~call.dead /\ Charge
  /\ call' = [call EXCEPT !.dead = TRUE, !.faults = @ + 1]
  /\ UNCHANGED config

\* The daemon dies in the middle of a call; the proxy's routes stay.
Crash ==
  /\ Busy
  /\ Return("error")
  /\ config' \in IF call.pc \in {"send", "unsend"} THEN Applications ELSE {config}

\* Another admin client inserts or removes a route of its own.
Edit ==
  /\ Busy => edits < MaxEdits
  /\ \E f \in Foreign :
       \/ ~Has(config, f) /\ \E i \in 1 .. Len(config) + 1 : config' = InsertAt(config, i, Plain(f))
       \/ Has(config, f) /\ config' = RemoveAt(config, Place(config, f))
  /\ edits' = IF Busy THEN edits + 1 ELSE edits
  /\ UNCHANGED call

Begin == \/ \E l \in Links, u \in Upstreams : BeginAdd(l, u)
         \/ \E l \in Links : BeginRemove(l)
         \/ \E w \in Wanted : BeginReconcile(w)

Mutations == Repair \/ (\E l \in Links : Insert(l)) \/ Prune \/ Finish

\* What the call does by itself.
Steps == Fetch \/ Mutations \/ Send \/ UndoRepair \/ UndoOther \/ Verify

Next == \/ (Begin \/ Steps \/ Cancel \/ Crash) /\ UNCHANGED edits
        \/ Edit

Spec == Init /\ [][Next]_vars

\* The first read of a call runs on its caller's context.  That of a minute
\* pass or of the start-up has no deadline, and the HTTP client no timeout: the
\* answer may never come.  An Add or a Remove writes on the caller's context too.
\* The mutations and the rollback of Reconcile have two seconds.
Unbounded == /\ Busy /\ ~call.dead
             /\ call.pc = "fetch" \/ (call.pc = "send" /\ call.kind # "reconcile")

FairSpec == Spec /\ WF_vars(Steps /\ ~Unbounded /\ UNCHANGED edits)

-----------------------------------------------------------------------------
\* Properties.

\* The routes of others, each with its place among them.
Others(cfg)  == {i \in DOMAIN cfg : cfg[i].id \notin Links}
Unowned(cfg) == {<<Cardinality({j \in Others(cfg) : j <= i}), cfg[i]>> : i \in Others(cfg)}

\* Until another client edits the array between the read and a write of a call,
\* no step of a call adds, drops, replaces or reorders a route of somebody else:
\* every index written to is that of a route of Mirage, or of a free place.
OwnWritesUntilEdited ==
  [][edits = 0 /\ call' # call => Unowned(config') = Unowned(config)]_vars

\* caddy.go:3-7: the adapter "writes only routes bearing a Mirage @id", it
\* "never replaces ... another controller's route", whatever others do.
OnlyOwnWrites == [][call' # call => Unowned(config') = Unowned(config)]_vars

\* The fallback answers only what no link answers: every route of Mirage
\* comes before it (caddy.go:211-212), also half way through a rollback.
OwnedBeforeFallback ==
  edits = 0 => \A i, j \in DOMAIN config :
               config[i].id \in Links /\ config[j].id = Fallback => i < j

\* A Reconcile that fails leaves the array it found, each route at its
\* position (caddy.go:254), and knows it; a crash excepted.
RollbackRestores ==
  [][Verify /\ edits = 0 => call'.outcome = "error" /\ config' = call.snap]_vars

\* A call returns, and Client.mu is free again, however its requests fail, but
\* for one that waits for an answer on a context without an end: no mutation and
\* no part of a rollback keeps it.
CallReturns == Busy ~> (~Busy \/ []Unbounded)

\* What a call still has ahead of it, the weightiest first: the part it is in
\* (read, mutate, take back), what that part has left to do, the request for
\* the next piece of it, the attempts at that request.
Part == CASE call.pc = "fetch"             -> 3
          [] call.pc \in {"plan", "send"} -> 2
          [] OTHER                         -> 1
Rest == IF Part = 2 THEN Cardinality(call.left) + call.cursor ELSE Len(call.undos)
Unsent == IF call.pc \in {"plan", "undo"} THEN 1 ELSE 0

Ahead  == <<Part, Rest, Unsent, Attempts - call.tries>>
Nearer == \E i \in 1 .. 4 : /\ Ahead'[i] < Ahead[i]
                            /\ \A j \in 1 .. i - 1 : Ahead'[j] = Ahead[j]

\* The same without fairness and without a bound on the faults: each step of a
\* call brings it nearer to its end, whatever its requests answer, and neither
\* other clients nor the end of a context take it back.
CallAdvances ==
  [][Busy /\ Busy' => IF Steps THEN Nearer ELSE UNCHANGED Ahead]_vars

\* How a call looks to the service.
OldTable == [l \in Links |-> Upstream(IF call.pc = "fetch" THEN config ELSE call.snap, l)]
Target == IF call.kind = "reconcile" THEN call.wanted
          ELSE [OldTable EXCEPT ![call.link] = call.wanted[call.link]]

Contract == INSTANCE ProxyContract WITH
  table <- [l \in Links |-> Upstream(config, l)],
  call <- [busy   |-> Busy,
           ok     |-> Busy \/ call.outcome = "ok",
           old    |-> IF Busy THEN OldTable ELSE [l \in Links |-> None],
           target |-> IF Busy THEN Target ELSE [l \in Links |-> None]]

\* The adapter keeps the contract of ports.Proxy that Lifecycle relies on, with
\* each of its steps until another client edits the array during a call.
ProxyKept ==
  /\ Contract!Init
  /\ [][edits' = 0 => [Contract!Next]_(Contract!vars)]_vars
=============================================================================
