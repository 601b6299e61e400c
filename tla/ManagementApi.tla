---------------------------- MODULE ManagementApi ----------------------------
(***************************************************************************)
(* The management requests as their clients see them: the bearer-token API *)
(* and the dashboard (httpapi), the admin variants, and the service calls  *)
(* behind them with their authorization, audit events and answers.         *)
(*                                                                         *)
(* A request is authorized before the mutex for its transport, waits for   *)
(* Service.mu, looks its target up again, and then acts; meanwhile other   *)
(* requests, the minute pass and time go on, and its client may leave.     *)
(* What destroying and starting a link consist of is Lifecycle's subject:  *)
(* here each is one step, with the outcomes that Lifecycle has for it.     *)
(***************************************************************************)
EXTENDS Naturals, FiniteSets

CONSTANTS Spaces,    \* space IDs, one token each
          Aliases,
          Links,     \* link IDs
          Names,
          Requests,  \* slots for the requests in flight
          NoSpace, NoAlias, NoLink, NoName

ASSUME ApiAssumption == /\ NoSpace \notin Spaces /\ NoAlias \notin Aliases
                        /\ NoLink \notin Links /\ NoName \notin Names

VARIABLES spaces,  \* rows of the spaces table
          links,   \* rows of the links table, and whether each is routed
          known,   \* spaces whose token reached the client that created them
          req      \* requests in flight

vars == <<spaces, links, known, req>>

Row == {"free", "live", "archived"}
SpaceRow == [row: Row, alias: Aliases \union {NoAlias}, expired: BOOLEAN]
LinkRow  == [row: Row, space: Spaces \union {NoSpace}, name: Names \union {NoName},
             expired: BOOLEAN, public: BOOLEAN]

\* How a request authorizes itself: a space token as a bearer, the same token
\* as a dashboard session, or the administrator's token over either transport.
By    == {"token", "dashboard", "admin"}
Kinds == {"createSpace", "deleteSpace", "createLink", "restartLink", "deleteLink"}

\* The holder of Service.mu is the request at one of these.
HeldPCs == {"audit", "destroy", "collect", "start"}
PCs     == {"idle", "waiting", "done"} \union HeldPCs
Answers == {"none", "ok", "conflict", "unauthorized", "notFound", "error"}

Request == [pc: PCs, kind: Kinds, by: By, cred: Spaces \union {NoSpace},
            alias: Aliases \union {NoAlias}, name: Names \union {NoName},
            space: Spaces \union {NoSpace}, link: Links \union {NoLink},
            audited: BOOLEAN, late: BOOLEAN, answer: Answers]

Idle == [pc |-> "idle", kind |-> "createSpace", by |-> "admin", cred |-> NoSpace,
         alias |-> NoAlias, name |-> NoName, space |-> NoSpace, link |-> NoLink,
         audited |-> FALSE, late |-> FALSE, answer |-> "none"]

\* Every variable has its type, and Service.mu has one holder (service.go:60).
ApiTypeOK ==
  /\ spaces \in [Spaces -> SpaceRow]
  /\ links \in [Links -> LinkRow]
  /\ known \subseteq Spaces
  /\ req \in [Requests -> Request]
  /\ \A q, r \in Requests : {req[q].pc, req[r].pc} \subseteq HeldPCs => q = r

Init ==
  /\ spaces = [s \in Spaces |-> [row |-> "free", alias |-> NoAlias, expired |-> FALSE]]
  /\ links = [l \in Links |-> [row |-> "free", space |-> NoSpace, name |-> NoName,
                               expired |-> FALSE, public |-> FALSE]]
  /\ known = {}
  /\ req = [r \in Requests |-> Idle]

-----------------------------------------------------------------------------
\* Queries.  A link never outlives its space: its expiry is the earlier one.

FindSpaceByAlias(a) == {s \in Spaces : spaces[s].row = "live" /\ spaces[s].alias = a}
ListLinks(s)        == {l \in Links : links[l].row = "live" /\ links[l].space = s}
Named(s, n)         == {l \in Links : links[l].space = s /\ links[l].name = n}
FindLink(s, n)      == Named(s, n) \intersect ListLinks(s)
Expired(l)          == links[l].expired \/ spaces[links[l].space].expired

\* SpaceForToken: the space that the token opens, before any lock.
Opens(s) == spaces[s].row = "live" /\ ~spaces[s].expired

\* The UNIQUE constraints also cover archived rows.
\* Mutant: an alias is free again once its space is archived.
LiveAliasTaken(a)   == \E s \in Spaces : spaces[s].row = "live" /\ spaces[s].alias = a
AliasTaken(a)       == \E s \in Spaces : spaces[s].alias = a
NameTaken(s, n)     == Named(s, n) # {}

\* The operator gives a reason, which is recorded before the request acts.
Reasoned(r) == req[r].by # "token" /\ req[r].kind # "createSpace"

-----------------------------------------------------------------------------
\* A request as it is admitted.

Send(r, kind, by, cred, alias, name) ==
  /\ req[r].pc = "idle"
  /\ req' = [req EXCEPT ![r] = [Idle EXCEPT !.pc = "waiting", !.kind = kind, !.by = by,
                                            !.cred = cred, !.alias = alias, !.name = name]]
  /\ UNCHANGED <<spaces, links, known>>

\* POST /spaces, for the holder of the administrator's token.
SendCreate(r, a) == Send(r, "createSpace", "admin", NoSpace, a, NoName)

\* DELETE /spaces/{alias} names its target; the token is checked at the act.
SendDrop(r, s, a) == s \in known /\ Send(r, "deleteSpace", "token", s, a, NoName)

\* The same with "force" takes the administrator's token and nothing less.
SendForcedDrop(r, a) == Send(r, "deleteSpace", "admin", NoSpace, a, NoName)

\* The link routes name no space: the alias is that of the space which the
\* token opens now.  A request that is turned down here, or by the drain gate,
\* changes nothing.
SendLink(r, s, n) ==
  /\ s \in known /\ Opens(s)
  /\ \E kind \in {"createLink", "restartLink", "deleteLink"} :
       Send(r, kind, "token", s, spaces[s].alias, n)

SendAdminLink(r, a, n) ==
  \E kind \in {"restartLink", "deleteLink"} : Send(r, kind, "admin", NoSpace, a, n)

\* The dashboard's session is the token in a cookie, opened at every request.
Session(s) == s \in known /\ Opens(s)

SendFromDashboard(r, s, n) ==
  /\ Session(s)
  /\ \E kind \in {"restartLink", "deleteLink"} :
       Send(r, kind, "dashboard", s, spaces[s].alias, n)

\* The dashboard takes only the alias of its own space for a forced delete,
\* and the service then goes by the alias alone.
SendDropOwn(r, s) ==
  Session(s) /\ Send(r, "deleteSpace", "dashboard", s, spaces[s].alias, NoName)

\* Who sends what: the commands of the CLI, and the forms of the dashboard.
SpaceCommand(r)  == \E a \in Aliases : \/ SendCreate(r, a) \/ SendForcedDrop(r, a)
                                       \/ \E s \in Spaces : SendDrop(r, s, a)
LinkCommand(r)   == \E s \in Spaces, n \in Names : SendLink(r, s, n)
AdminCommand(r)  == \E a \in Aliases, n \in Names : SendAdminLink(r, a, n)
DashboardForm(r) == \E s \in Spaces : SendDropOwn(r, s) \/ \E n \in Names : SendFromDashboard(r, s, n)
AdminForm(r)     == \E a \in Aliases : \/ SendCreate(r, a) \/ SendForcedDrop(r, a)
                                       \/ \E n \in Names : SendAdminLink(r, a, n)

Arrive(r) == \/ SpaceCommand(r) \/ LinkCommand(r) \/ AdminCommand(r)
             \/ DashboardForm(r) \/ AdminForm(r)

\* The request times out or its client leaves: its context is cancelled.
Leave(r) ==
  /\ req[r].pc \in HeldPCs \union {"waiting"} /\ ~req[r].late
  /\ req' = [req EXCEPT ![r].late = TRUE]
  /\ UNCHANGED <<spaces, links, known>>

-----------------------------------------------------------------------------
\* Under the mutex: the lookups.

MutexFree == \A r \in Requests : req[r].pc \notin HeldPCs
\* Mutant: the statements do not take the request's context.
TurnOfAny(r) == req[r].pc = "waiting" /\ MutexFree
\* Mutant: a request does not wait for another that has not read its rows yet.
TurnEarly(r) == /\ req[r].pc = "waiting" /\ ~req[r].late
                /\ \A q \in Requests : req[q].pc \notin HeldPCs \ {"audit"}
Turn(r)      == req[r].pc = "waiting" /\ MutexFree /\ ~req[r].late

\* Of a request that has been served its answer is left, which may still be lost.
AnswerIn(r, s, answer) ==
  req' = [req EXCEPT ![r] = [Idle EXCEPT !.pc = "done", !.kind = req[r].kind,
                                         !.space = s, !.answer = answer]]
Answer(r, answer) == AnswerIn(r, req[r].space, answer)

\* A statement fails, as the first one does for a client that has left.
GiveUp(r) ==
  /\ \/ req[r].pc = "waiting" /\ MutexFree
     \/ req[r].pc = "audit"
     \/ req[r].pc = "destroy" /\ req[r].kind = "deleteSpace"
  /\ Answer(r, "error")
  /\ UNCHANGED <<spaces, links, known>>

CreateSpace(r) ==
  /\ Turn(r) /\ req[r].kind = "createSpace"
  /\ \/ /\ ~AliasTaken(req[r].alias)
        /\ \E s \in Spaces :
             /\ spaces[s].row = "free"
             /\ spaces' = [spaces EXCEPT ![s].row = "live", ![s].alias = req[r].alias]
             /\ AnswerIn(r, s, "ok")
     \/ AliasTaken(req[r].alias) /\ Answer(r, "conflict") /\ UNCHANGED spaces
  /\ UNCHANGED <<links, known>>

\* authenticate, or AuthorizeAdmin and the lookup: the spaces (at most one)
\* that the request may act in.
\* Mutant: the space that was resolved before the mutex is trusted.
Resolved(r)   == {s \in Spaces : spaces[s].alias = req[r].alias}
Authorized(r) == {s \in FindSpaceByAlias(req[r].alias) :
                    req[r].by = "admin" \/ (~spaces[s].expired /\ req[r].cred = s)}
Denied(r)     == IF \E s \in FindSpaceByAlias(req[r].alias) : ~spaces[s].expired
                 THEN "unauthorized" ELSE "notFound"

Deny(r) ==
  /\ Turn(r) /\ req[r].kind \in {"createLink", "restartLink", "deleteLink"}
  /\ Authorized(r) = {} /\ Answer(r, Denied(r))
  /\ UNCHANGED <<spaces, links, known>>

CreateLink(r) ==
  /\ Turn(r) /\ req[r].kind = "createLink"
  /\ \E s \in Authorized(r) :
       \/ /\ ~NameTaken(s, req[r].name)
          /\ \E l \in Links :
               /\ links[l].row = "free"
               /\ links' = [links EXCEPT ![l].row = "live", ![l].space = s, ![l].name = req[r].name]
               /\ req' = [req EXCEPT ![r].pc = "start", ![r].space = s, ![r].link = l]
       \/ NameTaken(s, req[r].name) /\ Answer(r, "conflict") /\ UNCHANGED links
  /\ UNCHANGED <<spaces, known>>

\* DeleteLink answers for a link that was deleted before as for one that it
\* deletes; nothing is audited then.
\* Mutant: the tombstones are not looked at.
MissingWithoutTombstone(r, s) == "notFound"
Missing(r, s) ==
  IF req[r].kind = "deleteLink" /\ NameTaken(s, req[r].name) THEN "ok" ELSE "notFound"

LookUpLink(r) ==
  /\ Turn(r) /\ req[r].kind \in {"restartLink", "deleteLink"}
  /\ \E s \in Authorized(r) :
       \/ \E l \in FindLink(s, req[r].name) :
            req' = [req EXCEPT ![r].space = s, ![r].link = l,
                      ![r].pc = IF req[r].kind = "restartLink" /\ Expired(l) THEN "collect"
                                ELSE IF Reasoned(r) THEN "audit" ELSE "destroy"]
       \/ /\ FindLink(s, req[r].name) = {}
          /\ AnswerIn(r, s, Missing(r, s))
  /\ UNCHANGED <<spaces, links, known>>

\* An expired space can still be deleted; a forced delete checks no token.
LookUpSpace(r) ==
  /\ Turn(r) /\ req[r].kind = "deleteSpace"
  /\ \/ \E s \in FindSpaceByAlias(req[r].alias) :
          \/ /\ Reasoned(r) \/ req[r].cred = s
             /\ req' = [req EXCEPT ![r].space = s,
                                   ![r].pc = IF Reasoned(r) THEN "audit" ELSE "destroy"]
          \/ ~Reasoned(r) /\ req[r].cred # s /\ Answer(r, "unauthorized")
     \/ FindSpaceByAlias(req[r].alias) = {} /\ Answer(r, "notFound")
  /\ UNCHANGED <<spaces, links, known>>

-----------------------------------------------------------------------------
\* Under the mutex: the acts.

\* Mutant: an event that cannot be stored is only logged.
AuditBestEffort(r) ==
  /\ req[r].pc = "audit"
  /\ \E stored \in BOOLEAN : req' = [req EXCEPT ![r].pc = "destroy", ![r].audited = stored]
  /\ UNCHANGED <<spaces, links, known>>

Audit(r) ==
  /\ req[r].pc = "audit" /\ ~req[r].late
  /\ req' = [req EXCEPT ![r].pc = "destroy", ![r].audited = TRUE]
  /\ UNCHANGED <<spaces, links, known>>

Unrouted(l) == [l EXCEPT !.public = FALSE]
Archived(l) == [l EXCEPT !.row = "archived", !.public = FALSE]

DestroyLink(r) ==
  /\ req[r].pc = "destroy" /\ req[r].kind = "deleteLink" /\ ~req[r].late
  /\ links' = [links EXCEPT ![req[r].link] = Archived(@)]
  /\ Answer(r, "ok")
  /\ UNCHANGED <<spaces, known>>

DestroyForRestart(r) ==
  /\ req[r].pc = "destroy" /\ req[r].kind = "restartLink" /\ ~req[r].late
  /\ links' = [links EXCEPT ![req[r].link] = Unrouted(@)]
  /\ req' = [req EXCEPT ![r].pc = "start"]
  /\ UNCHANGED <<spaces, known>>

\* The links of the space one by one, then the space.
DestroyNext(r) ==
  /\ req[r].pc = "destroy" /\ req[r].kind = "deleteSpace" /\ ~req[r].late
  /\ \E l \in ListLinks(req[r].space) : links' = [links EXCEPT ![l] = Archived(@)]
  /\ UNCHANGED <<spaces, known, req>>

DropSpace(r) ==
  /\ req[r].pc = "destroy" /\ req[r].kind = "deleteSpace" /\ ~req[r].late
  /\ ListLinks(req[r].space) = {}
  /\ spaces' = [spaces EXCEPT ![req[r].space].row = "archived"]
  /\ Answer(r, "ok")
  /\ UNCHANGED <<links, known>>

\* destroy fails: the link stays, as failed, with its route or without.
DestroyFails(r) ==
  /\ req[r].pc = "destroy"
  /\ \E l \in IF req[r].kind = "deleteSpace" THEN ListLinks(req[r].space) ELSE {req[r].link} :
       links' \in {links, [links EXCEPT ![l] = Unrouted(@)]}
  /\ Answer(r, "error")
  /\ UNCHANGED <<spaces, known>>

\* RestartLink on an expired link: destroyed as far as that goes.
Collect(r) ==
  /\ req[r].pc = "collect"
  /\ LET l == req[r].link IN
       \/ links' \in {links, [links EXCEPT ![l] = Unrouted(@)]}
       \/ ~req[r].late /\ links' = [links EXCEPT ![l] = Archived(@)]
  /\ Answer(r, "notFound")
  /\ UNCHANGED <<spaces, known>>

\* Service.start: the link is public, it expired (before the start, when its
\* row goes, or during it), or the start failed, even in its compensation.
Start(r) ==
  /\ req[r].pc = "start"
  /\ LET l == req[r].link IN
       \/ /\ ~req[r].late /\ ~Expired(l)
          /\ links' = [links EXCEPT ![l].public = TRUE] /\ Answer(r, "ok")
       \/ /\ Expired(l)
          /\ links' = links \/ (~req[r].late /\ links' = [links EXCEPT ![l] = Archived(@)])
          /\ Answer(r, "notFound")
       \/ links' \in {links, [links EXCEPT ![l].public = TRUE]} /\ Answer(r, "error")
  /\ UNCHANGED <<spaces, known>>

\* The client reads the answer, or never gets it.  A space's token is in the
\* answer to its creation and nowhere else.
Reply(r) ==
  /\ req[r].pc = "done"
  /\ \/ /\ req[r].kind = "createSpace" /\ req[r].answer = "ok"
        /\ known' = known \union {req[r].space}
     \/ UNCHANGED known
  /\ req' = [req EXCEPT ![r] = Idle]
  /\ UNCHANGED <<spaces, links>>

-----------------------------------------------------------------------------
\* What goes on beside the requests.

Expire == /\ \/ \E s \in Spaces : /\ spaces[s].row = "live" /\ ~spaces[s].expired
                                  /\ spaces' = [spaces EXCEPT ![s].expired = TRUE]
                                  /\ UNCHANGED links
             \/ \E l \in Links : /\ links[l].row = "live" /\ ~links[l].expired
                                 /\ links' = [links EXCEPT ![l].expired = TRUE]
                                 /\ UNCHANGED spaces
          /\ UNCHANGED <<known, req>>

\* The minute pass destroys the links that expired and those that it finds
\* dead, unhealthy or not active, and then drops the expired spaces.
Collected(gone, drop) ==
  /\ links' = [l \in Links |-> IF l \in gone THEN Archived(links[l]) ELSE links[l]]
  /\ spaces' = [s \in Spaces |-> IF s \in drop THEN [spaces[s] EXCEPT !.row = "archived"]
                                 ELSE spaces[s]]
LiveLinks   == {l \in Links : links[l].row = "live"}
Droppable(gone) == {s \in Spaces : /\ spaces[s].row = "live" /\ spaces[s].expired
                                   /\ ListLinks(s) \subseteq gone}

\* It fails at some call and leaves the rest to the next one.
PassStops ==
  /\ MutexFree
  /\ \E gone \in SUBSET LiveLinks : \E drop \in SUBSET Droppable(gone) : Collected(gone, drop)
  /\ UNCHANGED <<known, req>>

\* The destroy that fails has removed the route.
PassFails ==
  /\ MutexFree
  /\ \E l \in LiveLinks : links' = [links EXCEPT ![l] = Unrouted(@)]
  /\ UNCHANGED <<spaces, known, req>>

\* It reaches the end, and every link that is left is routed.
PassRepairs ==
  /\ MutexFree
  /\ ~\E s \in Spaces : spaces[s].row = "live" /\ spaces[s].expired
  /\ ~\E l \in LiveLinks : links[l].expired
  /\ links' = [l \in Links |-> IF l \in LiveLinks THEN [links[l] EXCEPT !.public = TRUE] ELSE links[l]]
  /\ UNCHANGED <<spaces, known, req>>

LookUp(r) == CreateSpace(r) \/ Deny(r) \/ CreateLink(r) \/ LookUpLink(r) \/ LookUpSpace(r)
Act(r)    == \/ Audit(r) \/ DestroyLink(r) \/ DestroyForRestart(r) \/ DestroyNext(r)
             \/ DropSpace(r) \/ DestroyFails(r) \/ Collect(r) \/ Start(r)

Handle(r) == LookUp(r) \/ Act(r) \/ GiveUp(r)

Next == \/ \E r \in Requests : Arrive(r) \/ Leave(r) \/ Handle(r) \/ Reply(r)
        \/ Expire \/ PassStops \/ PassFails \/ PassRepairs

Spec == Init /\ [][Next]_vars
-----------------------------------------------------------------------------
\* Properties.

\* What a step does to rows and routes, the passing of time aside.
TouchedLinks  == {l \in Links : /\ links'[l] # links[l]
                                /\ links'[l] # [links[l] EXCEPT !.expired = TRUE]}
TouchedSpaces == {s \in Spaces : /\ spaces'[s] # spaces[s]
                                 /\ spaces'[s] # [spaces[s] EXCEPT !.expired = TRUE]}
\* The request that has the mutex, or that takes it in this step.
Serving(r) == req[r].pc \in HeldPCs \/ (req[r].pc = "waiting" /\ req'[r].pc # "waiting")

\* A request that came with a space's token changes only that space and its
\* links, although the dashboard's forced delete and every link route go by
\* the alias after the wait for the mutex (dashboard.go:408, service.go:601).
StaysInOwnSpace(r) ==
  (Serving(r) /\ req[r].by # "admin") =>
    /\ \A l \in TouchedLinks : links'[l].space = req[r].cred
    /\ TouchedSpaces \subseteq {req[r].cred}
OwnSpaceOnly == [][\A r \in Requests : StaysInOwnSpace(r)]_vars

\* An operator's request takes down only what its stored audit event names;
\* a link that has expired may go without one (service.go:232, 595, 676).
TakesWhatItNamed(r) ==
  (Serving(r) /\ Reasoned(r) /\ (TouchedLinks # {} \/ TouchedSpaces # {})) =>
    /\ req[r].audited \/ \A l \in TouchedLinks : Expired(l)
    /\ \/ req[r].kind = "deleteSpace" /\ TouchedSpaces \subseteq {req[r].space}
          /\ \A l \in TouchedLinks : links[l].space = req[r].space
       \/ TouchedSpaces = {} /\ TouchedLinks = {req[r].link}
ForcedIsAudited == [][\A r \in Requests : TakesWhatItNamed(r)]_vars

\* A space goes only after its links, whatever creates and restarts wait for
\* the mutex meanwhile, and a link of which the row is gone is not public
\* (service.go:239, reconcile.go:103).
NothingInDeadSpace ==
  \A l \in Links : /\ links[l].row = "live" => spaces[links[l].space].row = "live"
                   /\ links[l].public => links[l].row = "live"

\* What a client may conclude from the answer to a delete, be it the first or a
\* repeated one after a lost answer.  "ok": no live link of the name is left,
\* whoever deleted it.  "Not found": there never was one, or the space is gone,
\* or, for its token, has expired by the time the request has the mutex: it
\* does not say that there was no link.  A token that opened the space when the
\* request was sent is not called a wrong one later (service.go:156-168, 577).
TellsTheTruth(r) ==
  (req[r].pc # "done" /\ req'[r].pc = "done" /\ req[r].kind = "deleteLink") =>
    /\ req'[r].answer = "ok" =>
         /\ Named(req'[r].space, req[r].name) # {}
         /\ \A l \in Named(req'[r].space, req[r].name) : links'[l].row = "archived"
    /\ req'[r].answer = "notFound" =>
         \A s \in Spaces : spaces[s].alias = req[r].alias =>
           \/ Named(s, req[r].name) = {}
           \/ spaces[s].row = "archived"
           \/ spaces[s].expired /\ req[r].by # "admin"
    /\ req'[r].answer # "unauthorized"
DeleteAnswers == [][\A r \in Requests : TellsTheTruth(r)]_vars

\* Once its client has left or its thirty seconds are over, a request, however
\* long it waits for the mutex, creates and archives nothing (httpapi.go:103).
StoresNothing(r) ==
  (Serving(r) /\ req[r].late) =>
    /\ \A l \in Links : links'[l].row = links[l].row
    /\ \A s \in Spaces : spaces'[s].row = spaces[s].row
AbandonedInert == [][\A r \in Requests : StoresNothing(r)]_vars
=============================================================================
