------------------------- MODULE ManagementApiProofs -------------------------
(***************************************************************************)
(* Theorems of ManagementApi, for any number of spaces, links, names and   *)
(* requests.  The inductive invariant has three parts.  Rows: what the     *)
(* tables look like (the two UNIQUE constraints, a link's row never        *)
(* outlives its space's).  Waits: the alias that a client's request is     *)
(* bound to still means the space of its token when its turn comes.        *)
(* Works: what the holder of the mutex has looked up stays as it was until *)
(* it is done.                                                             *)
(***************************************************************************)
EXTENDS ManagementApi, TLAPS

AliasesUnique ==
  \A s, t \in Spaces : spaces[s].alias = spaces[t].alias /\ spaces[s].alias # NoAlias => s = t
NamesUnique ==
  \A l, k \in Links :
    (/\ links[l].row # "free" /\ links[k].row # "free"
     /\ links[l].space = links[k].space /\ links[l].name = links[k].name) => l = k
SpaceRowsOK == \A s \in Spaces : /\ spaces[s].row = "free" => spaces[s].alias = NoAlias
                                 /\ spaces[s].row # "free" => spaces[s].alias \in Aliases
LinkRowsOK == \A l \in Links : /\ links[l].row = "free" => /\ links[l].name = NoName
                                                           /\ links[l].space = NoSpace
                               /\ links[l].row # "free" => links[l].space \in Spaces
Rows == /\ AliasesUnique /\ NamesUnique /\ SpaceRowsOK /\ LinkRowsOK
        /\ known \subseteq {s \in Spaces : spaces[s].row # "free"}

\* The alias is that of the token's space, except in DELETE /spaces/{alias}.
Bound(r) == req[r].by # "admin" /\ ~(req[r].by = "token" /\ req[r].kind = "deleteSpace")
WaitsOf(r) ==
  req[r].pc = "waiting" =>
    /\ req[r].alias \in Aliases
    /\ req[r].kind \in {"createLink", "restartLink", "deleteLink"} => req[r].name \in Names
    /\ req[r].kind = "createSpace" => req[r].by = "admin"
    /\ req[r].kind = "createLink" => req[r].by = "token"
    /\ req[r].by # "admin" => req[r].cred \in Spaces
    /\ Bound(r) => spaces[req[r].cred].row # "free" /\ spaces[req[r].cred].alias = req[r].alias
Waits == \A r \in Requests : WaitsOf(r)

WorksOf(r) ==
  req[r].pc \in HeldPCs =>
    /\ req[r].kind # "createSpace"
    /\ req[r].space \in Spaces /\ spaces[req[r].space].row = "live"
    /\ req[r].kind # "deleteSpace" => /\ req[r].link \in Links
                                      /\ links[req[r].link].row = "live"
                                      /\ links[req[r].link].space = req[r].space
                                      /\ links[req[r].link].name = req[r].name
    /\ req[r].by # "admin" => req[r].space = req[r].cred
    /\ req[r].pc = "collect" => req[r].kind = "restartLink" /\ Expired(req[r].link)
    /\ req[r].pc = "start" => req[r].kind \in {"createLink", "restartLink"}
    /\ req[r].pc \in {"audit", "destroy"} => req[r].kind \in {"deleteSpace", "restartLink", "deleteLink"}
    /\ (Reasoned(r) /\ req[r].pc \in {"destroy", "start"}) => req[r].audited
Works == \A r \in Requests : WorksOf(r)

\* A token on its way to the client is that of a space that exists.
CreatedOf(r) == (req[r].pc = "done" /\ req[r].kind = "createSpace" /\ req[r].answer = "ok") =>
                  req[r].space \in Spaces /\ spaces[req[r].space].row # "free"
Created == \A r \in Requests : CreatedOf(r)

ApiInv == ApiTypeOK /\ NothingInDeadSpace /\ Rows /\ Waits /\ Works /\ Created
-----------------------------------------------------------------------------
\* The steps of one request.

RowTypes == /\ spaces \in [Spaces -> SpaceRow] /\ links \in [Links -> LinkRow]
            /\ known \subseteq Spaces
OneHolder == \A q, r \in Requests : {req[q].pc, req[r].pc} \subseteq HeldPCs => q = r

\* The tables only move on: a space that exists keeps its alias.
Grows == \A s \in Spaces : spaces[s].row # "free" =>
           spaces'[s].row # "free" /\ spaces'[s].alias = spaces[s].alias

\* While a request is served no other one has the mutex.
LEMMA Alone ==
  ASSUME ApiTypeOK, NEW r \in Requests, Handle(r)
  PROVE  \A q \in Requests \ {r} : req[q].pc \notin HeldPCs
<1>1. req[r].pc \in HeldPCs \/ MutexFree
  BY DEF Handle, LookUp, Act, CreateSpace, Deny, CreateLink, LookUpLink, LookUpSpace, Turn, Audit,
         DestroyLink, DestroyForRestart, DestroyNext, DropSpace, DestroyFails, Collect, Start,
         GiveUp, HeldPCs
<1> QED BY <1>1 DEF ApiTypeOK, MutexFree

\* An answered request keeps its slot well formed.
LEMMA AnswerTyped ==
  ASSUME ApiTypeOK, NEW r \in Requests, NEW s \in Spaces \union {NoSpace},
         NEW answer \in Answers, AnswerIn(r, s, answer)
  PROVE  /\ req' \in [Requests -> Request]
         /\ req'[r].pc = "done" /\ req'[r].kind = req[r].kind
         /\ req'[r].space = s /\ req'[r].answer = answer
         /\ \A q \in Requests \ {r} : req'[q] = req[q]
<1>1. req[r].kind \in Kinds
  BY DEF ApiTypeOK, Request
<1> DEFINE ans == [Idle EXCEPT !.pc = "done", !.kind = req[r].kind, !.space = s, !.answer = answer]
<1>2. ans \in Request /\ ans.pc = "done" /\ ans.kind = req[r].kind /\ ans.space = s
      /\ ans.answer = answer
  BY <1>1 DEF Idle, Request, PCs, By
<1>3. req' = [req EXCEPT ![r] = ans]
  BY DEF AnswerIn
<1> HIDE DEF ans
<1> QED BY <1>2, <1>3 DEF ApiTypeOK

\* What Handle(r) leaves alone, and the shape of what it does to the request.
Served(r) == /\ req' \in [Requests -> Request]
             /\ \A q \in Requests \ {r} : req'[q] = req[q]
             /\ req'[r].pc \in HeldPCs \union {"done"}
             /\ req'[r].kind = req[r].kind

LEMMA AnswerServes ==
  ASSUME ApiTypeOK, NEW r \in Requests, NEW answer \in Answers, Answer(r, answer)
  PROVE  Served(r) /\ req'[r].pc = "done" /\ req'[r].space = req[r].space /\ req'[r].answer = answer
<1>1. req[r].space \in Spaces \union {NoSpace}
  BY DEF ApiTypeOK, Request
<1> QED BY <1>1, AnswerTyped DEF Answer, Served

\* A step to another place of the handler.
Moved(q, pc, s, l, audited) ==
  [q EXCEPT !.pc = pc, !.space = s, !.link = l, !.audited = audited]
Moves(r, pc, s, l, audited) == req' = [req EXCEPT ![r] = Moved(req[r], pc, s, l, audited)]
Arrives(r, pc, s, l, audited) ==
  /\ Served(r)
  /\ req'[r].pc = pc /\ req'[r].space = s /\ req'[r].link = l /\ req'[r].audited = audited
  /\ req'[r].by = req[r].by /\ req'[r].cred = req[r].cred /\ req'[r].name = req[r].name

LEMMA MoveServes ==
  ASSUME ApiTypeOK, NEW r \in Requests, NEW pc \in HeldPCs,
         NEW s \in Spaces \union {NoSpace}, NEW l \in Links \union {NoLink}, NEW audited \in BOOLEAN,
         Moves(r, pc, s, l, audited)
  PROVE  Arrives(r, pc, s, l, audited)
<1>1. req[r] \in Request
  BY DEF ApiTypeOK
<1> DEFINE x == Moved(req[r], pc, s, l, audited)
<1>2. pc \in PCs
  BY DEF PCs
<1>3. x \in Request
  BY <1>1, <1>2 DEF Request, Moved
<1>4. /\ x.pc = pc /\ x.space = s /\ x.link = l /\ x.audited = audited
      /\ x.by = req[r].by /\ x.cred = req[r].cred /\ x.name = req[r].name
      /\ x.kind = req[r].kind
  BY <1>1 DEF Request, Moved
<1>5. req' = [req EXCEPT ![r] = x]
  BY DEF Moves
<1> HIDE DEF x
<1> QED BY <1>3, <1>4, <1>5 DEF ApiTypeOK, Served, Arrives
-----------------------------------------------------------------------------
\* The tables.

\* A row that exists is archived at most, and a route is there only for a live one.
Ages ==
  /\ links' \in [Links -> LinkRow] /\ spaces' \in [Spaces -> SpaceRow] /\ known' = known
  /\ \A l \in Links : \/ links'[l] = links[l]
                      \/ /\ links[l].row = "live" /\ links'[l].row \in {"live", "archived"}
                         /\ links'[l].space = links[l].space /\ links'[l].name = links[l].name
                         /\ links'[l].public => links'[l].row = "live"
  /\ \A s \in Spaces : \/ spaces'[s] = spaces[s]
                       \/ /\ spaces[s].row = "live" /\ spaces'[s].row \in {"live", "archived"}
                          /\ spaces'[s].alias = spaces[s].alias
  /\ \A l \in Links : links'[l].row = "live" => spaces'[links'[l].space].row = "live"

LEMMA AgesKeepRows ==
  ASSUME RowTypes, Rows, NothingInDeadSpace, Ages
  PROVE  RowTypes' /\ Rows' /\ NothingInDeadSpace' /\ Grows
<1>1. RowTypes'
  BY DEF RowTypes, Ages
<1>2. Grows
  BY DEF Grows, Ages
<1>3. AliasesUnique'
  BY DEF Rows, AliasesUnique, Ages
<1>4. NamesUnique'
  <2>1. \A l \in Links : links'[l].row # "free" =>
          links[l].row # "free" /\ links'[l].space = links[l].space /\ links'[l].name = links[l].name
    BY DEF Ages
  <2> QED BY <2>1 DEF Rows, NamesUnique
<1>5. SpaceRowsOK' /\ LinkRowsOK'
  BY DEF Rows, SpaceRowsOK, LinkRowsOK, Ages
<1>6. (known \subseteq {s \in Spaces : spaces[s].row # "free"})'
  BY <1>2 DEF Rows, Grows, Ages
<1>7. NothingInDeadSpace'
  BY DEF NothingInDeadSpace, Ages
<1> QED BY <1>1, <1>2, <1>3, <1>4, <1>5, <1>6, <1>7 DEF Rows

\* Tables that nothing changed have aged.
LEMMA SameAges ==
  ASSUME RowTypes, NothingInDeadSpace, UNCHANGED <<spaces, links, known>>
  PROVE  Ages
BY DEF RowTypes, NothingInDeadSpace, Ages

\* One live link is archived, loses its route or gets it.
LEMMA OneLinkAges ==
  ASSUME RowTypes, NothingInDeadSpace, UNCHANGED <<spaces, known>>,
         NEW l \in Links, links[l].row = "live",
         \/ links' = [links EXCEPT ![l] = Archived(@)]
         \/ links' = [links EXCEPT ![l] = Unrouted(@)]
         \/ links' = [links EXCEPT ![l].public = TRUE]
         \/ links' = links
  PROVE  Ages
<1>1. links[l] \in LinkRow
  BY DEF RowTypes
<1>a. \A x \in LinkRow : /\ Archived(x) \in LinkRow /\ Archived(x).row = "archived"
                          /\ Archived(x).public = FALSE
                          /\ Archived(x).space = x.space /\ Archived(x).name = x.name
  BY DEF Archived, LinkRow, Row
<1>b. \A x \in LinkRow : /\ Unrouted(x) \in LinkRow /\ Unrouted(x).row = x.row
                          /\ Unrouted(x).space = x.space /\ Unrouted(x).name = x.name
  BY DEF Unrouted, LinkRow
<1>c. \A x \in LinkRow : /\ [x EXCEPT !.public = TRUE] \in LinkRow
                          /\ [x EXCEPT !.public = TRUE].row = x.row
                          /\ [x EXCEPT !.public = TRUE].space = x.space
                          /\ [x EXCEPT !.public = TRUE].name = x.name
  BY DEF LinkRow
<1> DEFINE x == links'[l]
<1>2. /\ x \in LinkRow /\ x.row \in {"live", "archived"} /\ x.space = links[l].space
      /\ x.name = links[l].name /\ (x.public => x.row = "live")
      /\ links' \in [Links -> LinkRow] /\ \A k \in Links \ {l} : links'[k] = links[k]
  <2>1. CASE links' = [links EXCEPT ![l] = Archived(@)]
    <3> DEFINE y == Archived(links[l])
    <3>1. links' = [links EXCEPT ![l] = y]
      BY <2>1
    <3>2. /\ y \in LinkRow /\ y.row = "archived" /\ y.public = FALSE
          /\ y.space = links[l].space /\ y.name = links[l].name
      BY <1>1, <1>a
    <3> HIDE DEF y
    <3> QED BY <3>1, <3>2 DEF RowTypes
  <2>2. CASE links' = [links EXCEPT ![l] = Unrouted(@)]
    <3> DEFINE y == Unrouted(links[l])
    <3>1. links' = [links EXCEPT ![l] = y]
      BY <2>2
    <3>2. /\ y \in LinkRow /\ y.row = "live"
          /\ y.space = links[l].space /\ y.name = links[l].name
      BY <1>1, <1>b
    <3> HIDE DEF y
    <3> QED BY <3>1, <3>2 DEF RowTypes
  <2>3. CASE links' = [links EXCEPT ![l].public = TRUE]
    <3> DEFINE y == [links[l] EXCEPT !.public = TRUE]
    <3>1. links' = [links EXCEPT ![l] = y]
      BY <2>3
    <3>2. /\ y \in LinkRow /\ y.row = "live"
          /\ y.space = links[l].space /\ y.name = links[l].name
      BY <1>1, <1>c
    <3> HIDE DEF y
    <3> QED BY <3>1, <3>2 DEF RowTypes
  <2>4. CASE links' = links
    BY <1>1, <2>4 DEF RowTypes
  <2> QED BY <2>1, <2>2, <2>3, <2>4
<1>3. \A k \in Links : links'[k].row = "live" => spaces'[links'[k].space].row = "live"
  BY <1>2 DEF NothingInDeadSpace
<1> QED BY <1>2, <1>3 DEF Ages, RowTypes

\* A request that is not served keeps what it waits for.
LEMMA OthersKept ==
  ASSUME ApiInv, NEW r \in Requests, Handle(r), Served(r), Grows
  PROVE  /\ \A q \in Requests : WaitsOf(q)'
         /\ \A q \in Requests \ {r} : WorksOf(q)' /\ CreatedOf(q)'
         /\ OneHolder'
<1>1. \A q \in Requests \ {r} : req[q].pc \notin HeldPCs
  BY Alone DEF ApiInv
<1>2. \A q \in Requests \ {r} : req'[q] = req[q]
  BY DEF Served
<1>3. \A q \in Requests \ {r} : WorksOf(q)'
  BY <1>1, <1>2 DEF WorksOf
<1>4. req'[r].pc # "waiting"
  BY DEF Served, HeldPCs
<1>5. ASSUME NEW q \in Requests \ {r} PROVE WaitsOf(q)'
  <2>1. WaitsOf(q)
    BY DEF ApiInv, Waits
  <2> QED BY <1>2, <2>1 DEF WaitsOf, Bound, Grows
<1>6. OneHolder'
  BY <1>1, <1>2 DEF OneHolder
<1>7. ASSUME NEW q \in Requests \ {r} PROVE CreatedOf(q)'
  <2>1. CreatedOf(q)
    BY DEF ApiInv, Created
  <2> QED BY <1>2, <2>1 DEF CreatedOf, Grows
<1> QED BY <1>3, <1>4, <1>5, <1>6, <1>7 DEF WaitsOf
-----------------------------------------------------------------------------
\* The lookups.

\* What each step of a request must do for the invariant.
Keeps(r) == /\ Served(r) /\ Grows /\ RowTypes' /\ Rows' /\ NothingInDeadSpace'
            /\ WorksOf(r)' /\ CreatedOf(r)'

\* The step answers the request, and the tables are as they were or have aged.
LEMMA AnsweredKeeps ==
  ASSUME ApiInv, NEW r \in Requests, NEW answer \in Answers, Answer(r, answer), Ages,
         answer = "ok" => req[r].kind # "createSpace"
  PROVE  Keeps(r)
<1>1. Served(r) /\ req'[r].pc = "done" /\ req'[r].answer = answer
  BY AnswerServes DEF ApiInv
<1>2. RowTypes' /\ Rows' /\ NothingInDeadSpace' /\ Grows
  BY AgesKeepRows DEF ApiInv, ApiTypeOK, RowTypes
<1>3. CreatedOf(r)'
  BY <1>1 DEF CreatedOf, Served
<1> QED BY <1>1, <1>2, <1>3 DEF Keeps, WorksOf, HeldPCs

\* The tables are as they were.
LEMMA UnchangedAges ==
  ASSUME ApiInv, UNCHANGED <<spaces, links, known>>
  PROVE  Ages /\ RowTypes' /\ Rows' /\ NothingInDeadSpace' /\ Grows
<1>1. Ages
  BY SameAges DEF ApiInv, ApiTypeOK, RowTypes
<1> QED BY <1>1, AgesKeepRows DEF ApiInv, ApiTypeOK, RowTypes

LEMMA GiveUpKeeps ==
  ASSUME ApiInv, NEW r \in Requests, GiveUp(r)
  PROVE  Keeps(r)
<1>1. Answer(r, "error") /\ "error" \in Answers /\ UNCHANGED <<spaces, links, known>>
  BY DEF GiveUp, Answers
<1> QED BY <1>1, UnchangedAges, AnsweredKeeps

LEMMA DenyKeeps ==
  ASSUME ApiInv, NEW r \in Requests, Deny(r)
  PROVE  Keeps(r)
<1>1. /\ Answer(r, Denied(r)) /\ Denied(r) \in Answers /\ Denied(r) # "ok"
      /\ UNCHANGED <<spaces, links, known>>
  BY DEF Deny, Denied, Answers
<1> QED BY <1>1, UnchangedAges, AnsweredKeeps

LEMMA CreateSpaceKeeps ==
  ASSUME ApiInv, NEW r \in Requests, CreateSpace(r)
  PROVE  Keeps(r)
<1>1. CASE Answer(r, "conflict") /\ UNCHANGED <<spaces, links, known>>
  <2>1. "conflict" \in Answers
    BY DEF Answers
  <2> QED BY <1>1, <2>1, UnchangedAges, AnsweredKeeps
<1>2. ASSUME NEW s \in Spaces, spaces[s].row = "free", ~AliasTaken(req[r].alias),
             spaces' = [spaces EXCEPT ![s].row = "live", ![s].alias = req[r].alias],
             AnswerIn(r, s, "ok"), UNCHANGED <<links, known>>
      PROVE  Keeps(r)
  <2>1. Served(r) /\ req'[r].pc = "done" /\ req'[r].space = s
    BY <1>2, AnswerTyped DEF ApiInv, Served, Answers
  <2>2. req[r].alias \in Aliases
    <3>1. req[r].pc = "waiting"
      BY DEF CreateSpace, Turn
    <3> QED BY <3>1 DEF ApiInv, Waits, WaitsOf
  <2>3. spaces[s] \in SpaceRow
    BY DEF ApiInv, ApiTypeOK
  <2> DEFINE x == [spaces[s] EXCEPT !.row = "live", !.alias = req[r].alias]
  <2>4. x \in SpaceRow /\ x.row = "live" /\ x.alias = req[r].alias
    BY <2>2, <2>3 DEF SpaceRow, Row
  <2>5. spaces' = [spaces EXCEPT ![s] = x]
    BY <1>2
  <2> HIDE DEF x
  <2>6. /\ spaces' \in [Spaces -> SpaceRow] /\ spaces'[s] = x
        /\ \A t \in Spaces \ {s} : spaces'[t] = spaces[t]
    BY <2>4, <2>5 DEF ApiInv, ApiTypeOK
  <2>7. RowTypes' /\ Grows
    BY <1>2, <2>6 DEF RowTypes, Grows, ApiInv, ApiTypeOK
  <2>8. AliasesUnique'
    BY <1>2, <2>4, <2>6 DEF AliasesUnique, AliasTaken, ApiInv, Rows
  <2>9. Rows'
    BY <1>2, <2>2, <2>4, <2>6, <2>8
       DEF Rows, NamesUnique, SpaceRowsOK, LinkRowsOK, ApiInv
  <2>10. NothingInDeadSpace'
    BY <1>2, <2>4, <2>6 DEF NothingInDeadSpace, ApiInv, ApiTypeOK, Rows, LinkRowsOK
  <2>11. CreatedOf(r)'
    BY <2>1, <2>4, <2>6 DEF CreatedOf
  <2> QED BY <2>1, <2>7, <2>9, <2>10, <2>11 DEF Keeps, WorksOf, HeldPCs
<1> QED BY <1>1, <1>2 DEF CreateSpace

\* A request that waits for its turn.
LEMMA TurnFacts ==
  ASSUME ApiInv, NEW r \in Requests, Turn(r)
  PROVE  /\ req[r] \in Request /\ req[r].pc = "waiting" /\ req[r].alias \in Aliases
         /\ req[r].kind = "createLink" => req[r].by = "token"
         /\ req[r].kind \in {"createLink", "restartLink", "deleteLink"} => req[r].name \in Names
<1>1. req[r] \in Request /\ req[r].pc = "waiting" /\ WaitsOf(r)
  BY DEF ApiInv, ApiTypeOK, Waits, Turn
<1> QED BY <1>1 DEF WaitsOf

\* The spaces that it may act in: a client's only its own.
LEMMA AuthorizedFacts ==
  ASSUME NEW r \in Requests, NEW s \in Authorized(r)
  PROVE  /\ s \in Spaces /\ spaces[s].row = "live"
         /\ req[r].by # "admin" => s = req[r].cred
BY DEF Authorized, FindSpaceByAlias

\* The space that its alias means, for a session of the dashboard its own.
LEMMA AliasFacts ==
  ASSUME ApiInv, NEW r \in Requests, Turn(r), NEW s \in FindSpaceByAlias(req[r].alias)
  PROVE  /\ s \in Spaces /\ spaces[s].row = "live"
         /\ req[r].by = "dashboard" => s = req[r].cred
<1>1. req[r].pc = "waiting" /\ WaitsOf(r)
  BY DEF ApiInv, ApiTypeOK, Waits, Turn
<1> QED BY <1>1, ApiAssumption DEF FindSpaceByAlias, WaitsOf, Bound, ApiInv, Rows, AliasesUnique

LEMMA CreateLinkKeeps ==
  ASSUME ApiInv, NEW r \in Requests, CreateLink(r)
  PROVE  Keeps(r)
<1>0. /\ req[r] \in Request /\ req[r].kind = "createLink" /\ req[r].name \in Names
      /\ req[r].by = "token"
  BY TurnFacts DEF CreateLink
<1>1. CASE Answer(r, "conflict") /\ UNCHANGED <<spaces, links, known>>
  <2>1. "conflict" \in Answers
    BY DEF Answers
  <2> QED BY <1>1, <2>1, UnchangedAges, AnsweredKeeps
<1>2. ASSUME NEW s \in Authorized(r), NEW l \in Links, links[l].row = "free",
             ~NameTaken(s, req[r].name),
             links' = [links EXCEPT ![l].row = "live", ![l].space = s, ![l].name = req[r].name],
             req' = [req EXCEPT ![r].pc = "start", ![r].space = s, ![r].link = l],
             UNCHANGED <<spaces, known>>
      PROVE  Keeps(r)
  <2>1. s \in Spaces /\ spaces[s].row = "live" /\ (req[r].by # "admin" => s = req[r].cred)
    BY AuthorizedFacts
  <2>2. /\ Served(r) /\ req'[r].pc = "start" /\ req'[r].space = s /\ req'[r].link = l
        /\ req'[r].by = req[r].by /\ req'[r].cred = req[r].cred /\ req'[r].name = req[r].name
        /\ req'[r].kind = "createLink"
    <3>1. req[r].audited \in BOOLEAN /\ "start" \in HeldPCs
      BY <1>0 DEF Request, HeldPCs
    <3>2. [req[r] EXCEPT !.pc = "start", !.space = s, !.link = l]
            = Moved(req[r], "start", s, l, req[r].audited)
      BY <1>0 DEF Moved, Request
    <3>3. Moves(r, "start", s, l, req[r].audited)
      BY <1>2, <3>2 DEF Moves
    <3>4. s \in Spaces \union {NoSpace} /\ l \in Links \union {NoLink} /\ ApiTypeOK
      BY <2>1 DEF ApiInv
    <3>5. Arrives(r, "start", s, l, req[r].audited)
      BY <3>1, <3>3, <3>4, MoveServes
    <3> QED BY <1>0, <3>5 DEF Arrives, Served
  <2> DEFINE y == [links[l] EXCEPT !.row = "live", !.space = s, !.name = req[r].name]
  <2>a. links[l] \in LinkRow /\ ~links[l].public
    BY <1>2 DEF LinkRow, ApiInv, ApiTypeOK, NothingInDeadSpace
  <2>3. y \in LinkRow /\ y.row = "live" /\ y.space = s /\ y.name = req[r].name /\ ~y.public
    BY <1>0, <2>1, <2>a DEF LinkRow, Row
  <2>4. links' = [links EXCEPT ![l] = y]
    BY <1>2
  <2> HIDE DEF y
  <2>5. /\ links' \in [Links -> LinkRow] /\ links'[l] = y
        /\ \A k \in Links \ {l} : links'[k] = links[k]
    BY <2>3, <2>4 DEF ApiInv, ApiTypeOK
  <2>6. RowTypes' /\ Grows
    BY <1>2, <2>5 DEF RowTypes, Grows, ApiInv, ApiTypeOK
  <2>7. NamesUnique'
    BY <1>2, <2>3, <2>5 DEF NamesUnique, NameTaken, Named, ApiInv, Rows
  <2>8. Rows'
    BY <1>2, <2>1, <2>3, <2>5, <2>7
       DEF Rows, AliasesUnique, SpaceRowsOK, LinkRowsOK, ApiInv
  <2>9. NothingInDeadSpace'
    BY <1>2, <2>1, <2>3, <2>5 DEF NothingInDeadSpace, ApiInv
  <2>10. WorksOf(r)'
    BY <1>0, <1>2, <2>1, <2>2, <2>3, <2>5 DEF WorksOf, HeldPCs, Reasoned
  <2>11. CreatedOf(r)'
    BY <2>2 DEF CreatedOf
  <2> QED BY <2>2, <2>6, <2>8, <2>9, <2>10, <2>11 DEF Keeps
<1> QED BY <1>1, <1>2 DEF CreateLink

\* Tables as they were, and a request that goes on with what it found.
LEMMA WorkingKeeps ==
  ASSUME ApiInv, NEW r \in Requests, UNCHANGED <<spaces, links, known>>, Served(r), WorksOf(r)',
         req[r].kind # "createSpace"
  PROVE  Keeps(r)
BY UnchangedAges DEF Keeps, CreatedOf, Served

LEMMA LookUpLinkKeeps ==
  ASSUME ApiInv, NEW r \in Requests, LookUpLink(r)
  PROVE  Keeps(r)
<1>0. /\ req[r] \in Request /\ req[r].pc = "waiting" /\ req[r].name \in Names
      /\ req[r].kind \in {"restartLink", "deleteLink"} /\ UNCHANGED <<spaces, links, known>>
  BY TurnFacts DEF LookUpLink
<1>1. ASSUME NEW s \in Authorized(r), AnswerIn(r, s, Missing(r, s))
      PROVE  Keeps(r)
  <2>1. s \in Spaces \union {NoSpace} /\ Missing(r, s) \in Answers
    BY AuthorizedFacts DEF Missing, Answers
  <2>2. Served(r) /\ req'[r].pc = "done"
    BY <1>1, <2>1, AnswerTyped DEF ApiInv, Served
  <2>3. WorksOf(r)'
    BY <2>2 DEF WorksOf, HeldPCs
  <2> QED BY <1>0, <2>2, <2>3, WorkingKeeps
<1>2. ASSUME NEW s \in Authorized(r), NEW l \in FindLink(s, req[r].name),
             req' = [req EXCEPT ![r].space = s, ![r].link = l,
                       ![r].pc = IF req[r].kind = "restartLink" /\ Expired(l) THEN "collect"
                                 ELSE IF Reasoned(r) THEN "audit" ELSE "destroy"]
      PROVE  Keeps(r)
  <2>1. s \in Spaces /\ spaces[s].row = "live" /\ (req[r].by # "admin" => s = req[r].cred)
    BY AuthorizedFacts
  <2>2. /\ l \in Links /\ links[l].row = "live" /\ links[l].space = s
        /\ links[l].name = req[r].name
    BY DEF FindLink, Named, ListLinks
  <2> DEFINE pc == IF req[r].kind = "restartLink" /\ Expired(l) THEN "collect"
                   ELSE IF Reasoned(r) THEN "audit" ELSE "destroy"
  <2>3. /\ pc \in {"collect", "audit", "destroy"}
        /\ pc = "collect" => req[r].kind = "restartLink" /\ Expired(l)
        /\ pc = "destroy" => ~Reasoned(r)
    OBVIOUS
  <2>4. req' = [req EXCEPT ![r].space = s, ![r].link = l, ![r].pc = pc]
    BY <1>2
  <2> HIDE DEF pc
  <2>5. [req[r] EXCEPT !.space = s, !.link = l, !.pc = pc] = Moved(req[r], pc, s, l, req[r].audited)
    BY <1>0 DEF Moved, Request
  <2>6. Moves(r, pc, s, l, req[r].audited)
    BY <2>4, <2>5 DEF Moves
  <2>7. /\ s \in Spaces \union {NoSpace} /\ l \in Links \union {NoLink} /\ ApiTypeOK
        /\ pc \in HeldPCs /\ req[r].audited \in BOOLEAN
    BY <1>0, <2>1, <2>2, <2>3 DEF ApiInv, HeldPCs, Request
  <2>8. Arrives(r, pc, s, l, req[r].audited)
    BY <2>6, <2>7, MoveServes
  <2>9. Expired(l)' = Expired(l)
    BY <1>0 DEF Expired
  <2>10. WorksOf(r)'
    BY <1>0, <2>1, <2>2, <2>3, <2>8, <2>9 DEF WorksOf, Arrives, Served, Reasoned
  <2> QED BY <1>0, <2>8, <2>10, WorkingKeeps DEF Arrives
<1> QED BY <1>1, <1>2 DEF LookUpLink

LEMMA LookUpSpaceKeeps ==
  ASSUME ApiInv, NEW r \in Requests, LookUpSpace(r)
  PROVE  Keeps(r)
<1>0. /\ req[r] \in Request /\ Turn(r) /\ req[r].kind = "deleteSpace"
      /\ UNCHANGED <<spaces, links, known>>
  BY TurnFacts DEF LookUpSpace
<1>1. CASE \E answer \in {"unauthorized", "notFound"} : Answer(r, answer)
  <2>1. {"unauthorized", "notFound"} \subseteq Answers
    BY DEF Answers
  <2> QED BY <1>0, <1>1, <2>1, UnchangedAges, AnsweredKeeps
<1>2. ASSUME NEW s \in FindSpaceByAlias(req[r].alias), Reasoned(r) \/ req[r].cred = s,
             req' = [req EXCEPT ![r].space = s,
                                ![r].pc = IF Reasoned(r) THEN "audit" ELSE "destroy"]
      PROVE  Keeps(r)
  <2>1. /\ s \in Spaces /\ spaces[s].row = "live"
        /\ req[r].by # "admin" => s = req[r].cred
    <3>1. /\ s \in Spaces /\ spaces[s].row = "live"
          /\ req[r].by = "dashboard" => s = req[r].cred
      BY <1>0, AliasFacts
    <3> QED BY <1>0, <1>2, <3>1 DEF Reasoned, Request, By
  <2> DEFINE pc == IF Reasoned(r) THEN "audit" ELSE "destroy"
  <2>3. pc \in {"audit", "destroy"} /\ (pc = "destroy" => ~Reasoned(r))
    OBVIOUS
  <2>4. req' = [req EXCEPT ![r].space = s, ![r].pc = pc]
    BY <1>2
  <2> HIDE DEF pc
  <2>5. [req[r] EXCEPT !.space = s, !.pc = pc] = Moved(req[r], pc, s, req[r].link, req[r].audited)
    BY <1>0 DEF Moved, Request
  <2>6. Moves(r, pc, s, req[r].link, req[r].audited)
    BY <2>4, <2>5 DEF Moves
  <2>7. /\ s \in Spaces \union {NoSpace} /\ req[r].link \in Links \union {NoLink} /\ ApiTypeOK
        /\ pc \in HeldPCs /\ req[r].audited \in BOOLEAN
    BY <1>0, <2>1, <2>3 DEF ApiInv, HeldPCs, Request
  <2>8. Arrives(r, pc, s, req[r].link, req[r].audited)
    BY <2>6, <2>7, MoveServes
  <2>10. WorksOf(r)'
    BY <1>0, <2>1, <2>3, <2>8 DEF WorksOf, Arrives, Served, Reasoned
  <2> QED BY <1>0, <2>8, <2>10, WorkingKeeps DEF Arrives
<1> QED BY <1>1, <1>2 DEF LookUpSpace
-----------------------------------------------------------------------------
\* The acts of the holder of the mutex.

\* What the holder has looked up.
LEMMA HolderFacts ==
  ASSUME ApiInv, NEW r \in Requests, req[r].pc \in HeldPCs
  PROVE  /\ req[r] \in Request /\ WorksOf(r)
         /\ req[r].space \in Spaces /\ spaces[req[r].space].row = "live"
         /\ req[r].kind # "deleteSpace" => /\ req[r].link \in Links
                                           /\ links[req[r].link].row = "live"
                                           /\ links[req[r].link].space = req[r].space
<1>1. req[r] \in Request /\ WorksOf(r)
  BY DEF ApiInv, ApiTypeOK, Works
<1> QED BY <1>1 DEF WorksOf

\* The act ends with an answer and has touched one live link, or none.
LEMMA OneLinkAnswered ==
  ASSUME ApiInv, NEW r \in Requests, NEW answer \in Answers, Answer(r, answer),
         UNCHANGED <<spaces, known>>, NEW l \in Links, links[l].row = "live",
         \/ links' = [links EXCEPT ![l] = Archived(@)]
         \/ links' = [links EXCEPT ![l] = Unrouted(@)]
         \/ links' = [links EXCEPT ![l].public = TRUE]
         \/ links' = links,
         req[r].pc \in HeldPCs
  PROVE  Keeps(r)
<1>1. req[r].kind # "createSpace"
  BY HolderFacts DEF WorksOf
<1> QED BY <1>1, OneLinkAges, AnsweredKeeps DEF ApiInv, ApiTypeOK, RowTypes

LEMMA AuditKeeps ==
  ASSUME ApiInv, NEW r \in Requests, Audit(r)
  PROVE  Keeps(r)
<1>0. /\ req[r].pc = "audit" /\ req[r].pc \in HeldPCs /\ UNCHANGED <<spaces, links, known>>
      /\ req' = [req EXCEPT ![r].pc = "destroy", ![r].audited = TRUE]
  BY DEF Audit, HeldPCs
<1>1. req[r] \in Request /\ WorksOf(r)
  BY <1>0, HolderFacts
<1>2. [req[r] EXCEPT !.pc = "destroy", !.audited = TRUE]
        = Moved(req[r], "destroy", req[r].space, req[r].link, TRUE)
  BY <1>1 DEF Moved, Request
<1>3. Moves(r, "destroy", req[r].space, req[r].link, TRUE)
  BY <1>0, <1>2 DEF Moves
<1>4. /\ req[r].space \in Spaces \union {NoSpace} /\ req[r].link \in Links \union {NoLink}
      /\ "destroy" \in HeldPCs /\ ApiTypeOK
  BY <1>1 DEF Request, HeldPCs, ApiInv
<1>5. Arrives(r, "destroy", req[r].space, req[r].link, TRUE)
  BY <1>3, <1>4, MoveServes
<1>6. req[r].kind \in {"deleteSpace", "restartLink", "deleteLink"}
  BY <1>0, <1>1 DEF WorksOf
<1>7. WorksOf(r)'
  BY <1>0, <1>1, <1>5, <1>6 DEF WorksOf, Arrives, Served
<1> QED BY <1>0, <1>5, <1>6, <1>7, WorkingKeeps DEF Arrives

LEMMA DestroyLinkKeeps ==
  ASSUME ApiInv, NEW r \in Requests, DestroyLink(r)
  PROVE  Keeps(r)
<1>1. req[r].pc \in HeldPCs /\ req[r].kind # "deleteSpace" /\ "ok" \in Answers
  BY DEF DestroyLink, HeldPCs, Answers
<1>2. req[r].link \in Links /\ links[req[r].link].row = "live"
  BY <1>1, HolderFacts
<1> QED BY <1>1, <1>2, OneLinkAnswered DEF DestroyLink

LEMMA DestroyFailsKeeps ==
  ASSUME ApiInv, NEW r \in Requests, DestroyFails(r)
  PROVE  Keeps(r)
<1>1. req[r].pc \in HeldPCs /\ "error" \in Answers
  BY DEF DestroyFails, HeldPCs, Answers
<1>2. PICK l \in IF req[r].kind = "deleteSpace" THEN ListLinks(req[r].space) ELSE {req[r].link} :
        links' \in {links, [links EXCEPT ![l] = Unrouted(@)]}
  BY DEF DestroyFails
<1>3. l \in Links /\ links[l].row = "live"
  BY <1>1, <1>2, HolderFacts DEF ListLinks
<1> QED BY <1>1, <1>2, <1>3, OneLinkAnswered DEF DestroyFails

LEMMA CollectKeeps ==
  ASSUME ApiInv, NEW r \in Requests, Collect(r)
  PROVE  Keeps(r)
<1>1. req[r].pc \in HeldPCs /\ req[r].pc = "collect" /\ "notFound" \in Answers
  BY DEF Collect, HeldPCs, Answers
<1>2. req[r].kind # "deleteSpace"
  BY <1>1, HolderFacts DEF WorksOf
<1>3. req[r].link \in Links /\ links[req[r].link].row = "live"
  BY <1>1, <1>2, HolderFacts
<1> QED BY <1>1, <1>3, OneLinkAnswered DEF Collect

LEMMA StartKeeps ==
  ASSUME ApiInv, NEW r \in Requests, Start(r)
  PROVE  Keeps(r)
<1>1. /\ req[r].pc \in HeldPCs /\ req[r].pc = "start"
      /\ "ok" \in Answers /\ "notFound" \in Answers /\ "error" \in Answers
  BY DEF Start, HeldPCs, Answers
<1>2. req[r].kind # "deleteSpace"
  BY <1>1, HolderFacts DEF WorksOf
<1>3. req[r].link \in Links /\ links[req[r].link].row = "live"
  BY <1>1, <1>2, HolderFacts
<1>4. \E answer \in {"ok", "notFound", "error"} : Answer(r, answer)
  BY DEF Start
<1>5. /\ UNCHANGED <<spaces, known>>
      /\ \/ links' = [links EXCEPT ![req[r].link] = Archived(@)]
         \/ links' = [links EXCEPT ![req[r].link].public = TRUE]
         \/ links' = links
  BY DEF Start
<1> QED BY <1>1, <1>3, <1>4, <1>5, OneLinkAnswered

LEMMA DestroyForRestartKeeps ==
  ASSUME ApiInv, NEW r \in Requests, DestroyForRestart(r)
  PROVE  Keeps(r)
<1>0. /\ req[r].pc = "destroy" /\ req[r].pc \in HeldPCs /\ UNCHANGED <<spaces, known>>
      /\ req[r].kind = "restartLink" /\ req' = [req EXCEPT ![r].pc = "start"]
      /\ links' = [links EXCEPT ![req[r].link] = Unrouted(@)]
  BY DEF DestroyForRestart, HeldPCs
<1>1. /\ req[r] \in Request /\ WorksOf(r)
      /\ req[r].link \in Links /\ links[req[r].link].row = "live"
  BY <1>0, HolderFacts
<1>2. [req[r] EXCEPT !.pc = "start"]
        = Moved(req[r], "start", req[r].space, req[r].link, req[r].audited)
  BY <1>1 DEF Moved, Request
<1>3. Moves(r, "start", req[r].space, req[r].link, req[r].audited)
  BY <1>0, <1>2 DEF Moves
<1>4. /\ req[r].space \in Spaces \union {NoSpace} /\ req[r].link \in Links \union {NoLink}
      /\ "start" \in HeldPCs /\ ApiTypeOK /\ req[r].audited \in BOOLEAN
  BY <1>1 DEF Request, HeldPCs, ApiInv
<1>5. Arrives(r, "start", req[r].space, req[r].link, req[r].audited)
  BY <1>3, <1>4, MoveServes
<1>6. Ages
  BY <1>0, <1>1, OneLinkAges DEF ApiInv, ApiTypeOK, RowTypes
<1>7. RowTypes' /\ Rows' /\ NothingInDeadSpace' /\ Grows
  BY <1>6, AgesKeepRows DEF ApiInv, ApiTypeOK, RowTypes
<1>8. /\ links'[req[r].link].row = "live"
      /\ links'[req[r].link].space = links[req[r].link].space
      /\ links'[req[r].link].name = links[req[r].link].name
  BY <1>0, <1>1 DEF Unrouted, ApiInv, ApiTypeOK, LinkRow
<1>9. WorksOf(r)'
  BY <1>0, <1>1, <1>5, <1>8 DEF WorksOf, Arrives, Served, Reasoned
<1>10. CreatedOf(r)'
  BY <1>0, <1>5 DEF CreatedOf, Arrives, Served
<1> QED BY <1>5, <1>7, <1>9, <1>10 DEF Keeps, Arrives

LEMMA DestroyNextKeeps ==
  ASSUME ApiInv, NEW r \in Requests, DestroyNext(r)
  PROVE  Keeps(r)
<1>0. /\ req[r].pc = "destroy" /\ req[r].pc \in HeldPCs /\ UNCHANGED <<spaces, known, req>>
      /\ req[r].kind = "deleteSpace"
  BY DEF DestroyNext, HeldPCs
<1>1. WorksOf(r)
  BY <1>0, HolderFacts
<1>2. PICK l \in ListLinks(req[r].space) : links' = [links EXCEPT ![l] = Archived(@)]
  BY DEF DestroyNext
<1>3. l \in Links /\ links[l].row = "live"
  BY DEF ListLinks
<1>4. Ages
  BY <1>0, <1>2, <1>3, OneLinkAges DEF ApiInv, ApiTypeOK, RowTypes
<1>5. RowTypes' /\ Rows' /\ NothingInDeadSpace' /\ Grows
  BY <1>4, AgesKeepRows DEF ApiInv, ApiTypeOK, RowTypes
<1>6. Served(r)
  BY <1>0 DEF Served, ApiInv, ApiTypeOK
<1>7. WorksOf(r)'
  BY <1>0, <1>1 DEF WorksOf, Reasoned
<1>8. CreatedOf(r)'
  BY <1>0 DEF CreatedOf
<1> QED BY <1>5, <1>6, <1>7, <1>8 DEF Keeps

LEMMA DropSpaceKeeps ==
  ASSUME ApiInv, NEW r \in Requests, DropSpace(r)
  PROVE  Keeps(r)
<1>0. /\ req[r].pc \in HeldPCs /\ "ok" \in Answers /\ Answer(r, "ok") /\ UNCHANGED <<links, known>>
      /\ spaces' = [spaces EXCEPT ![req[r].space].row = "archived"]
      /\ ListLinks(req[r].space) = {}
  BY DEF DropSpace, HeldPCs, Answers
<1> DEFINE s == req[r].space
           x == [spaces[s] EXCEPT !.row = "archived"]
<1>1. s \in Spaces /\ spaces[s].row = "live" /\ spaces[s] \in SpaceRow
  BY <1>0, HolderFacts DEF ApiInv, ApiTypeOK
<1>2. x \in SpaceRow /\ x.row = "archived" /\ x.alias = spaces[s].alias
  BY <1>1 DEF SpaceRow, Row
<1>3. spaces' = [spaces EXCEPT ![s] = x]
  BY <1>0
<1> HIDE DEF x
<1>4. /\ spaces' \in [Spaces -> SpaceRow] /\ spaces'[s] = x
      /\ \A t \in Spaces \ {s} : spaces'[t] = spaces[t]
  BY <1>1, <1>2, <1>3 DEF ApiInv, ApiTypeOK
<1>5. \A l \in Links : links'[l].row = "live" => spaces'[links'[l].space].row = "live"
  <2>1. \A l \in Links : links[l].row = "live" =>
          links[l].space # s /\ links[l].space \in Spaces /\ spaces[links[l].space].row = "live"
    BY <1>0 DEF ListLinks, ApiInv, NothingInDeadSpace, Rows, LinkRowsOK
  <2> QED BY <1>0, <1>4, <2>1
<1>6. links' \in [Links -> LinkRow]
  BY <1>0 DEF ApiInv, ApiTypeOK
<1>7. Ages
  BY <1>0, <1>1, <1>2, <1>4, <1>5, <1>6 DEF Ages
<1>8. req[r].kind # "createSpace"
  BY <1>0, HolderFacts DEF WorksOf
<1> QED BY <1>0, <1>7, <1>8, AnsweredKeeps
-----------------------------------------------------------------------------
\* The invariant.

LEMMA HandleKeeps ==
  ASSUME ApiInv, NEW r \in Requests, Handle(r)
  PROVE  ApiInv' /\ Keeps(r)
<1>1. Keeps(r)
  BY CreateSpaceKeeps, DenyKeeps, CreateLinkKeeps, LookUpLinkKeeps, LookUpSpaceKeeps, AuditKeeps,
     DestroyLinkKeeps, DestroyForRestartKeeps, DestroyNextKeeps, DropSpaceKeeps, DestroyFailsKeeps,
     CollectKeeps, StartKeeps, GiveUpKeeps DEF Handle, LookUp, Act
<1>2. /\ \A q \in Requests : WaitsOf(q)' /\ OneHolder'
      /\ \A q \in Requests \ {r} : WorksOf(q)' /\ CreatedOf(q)'
  BY <1>1, OthersKept DEF Keeps
<1>3. ApiTypeOK'
  BY <1>1, <1>2 DEF Keeps, Served, RowTypes, OneHolder, ApiTypeOK
<1>4. Works' /\ Waits' /\ Created'
  BY <1>1, <1>2 DEF Keeps, Works, Waits, Created
<1> QED BY <1>1, <1>3, <1>4 DEF ApiInv, Keeps

\* A request is sent: what WaitsOf says of it.
LEMMA SendKeeps ==
  ASSUME ApiInv, NEW r \in Requests, NEW kind \in Kinds, NEW by \in By,
         NEW cred \in Spaces \union {NoSpace}, NEW alias \in Aliases, NEW name \in Names \union {NoName},
         kind \in {"createLink", "restartLink", "deleteLink"} => name \in Names,
         kind = "createLink" => by = "token",
         by # "admin" => cred \in known,
         kind = "createSpace" => by = "admin",
         (by # "admin" /\ ~(by = "token" /\ kind = "deleteSpace")) => spaces[cred].alias = alias,
         Send(r, kind, by, cred, alias, name)
  PROVE  ApiInv'
<1> DEFINE x == [Idle EXCEPT !.pc = "waiting", !.kind = kind, !.by = by, !.cred = cred,
                             !.alias = alias, !.name = name]
<1>1. /\ x \in Request /\ x.pc = "waiting" /\ x.kind = kind /\ x.by = by /\ x.cred = cred
      /\ x.alias = alias /\ x.name = name
  BY DEF Idle, Request, PCs, Answers
<1>2. req' = [req EXCEPT ![r] = x] /\ UNCHANGED <<spaces, links, known>>
  BY DEF Send
<1> HIDE DEF x
<1>3. /\ req' \in [Requests -> Request] /\ req'[r] = x
      /\ \A q \in Requests \ {r} : req'[q] = req[q]
  BY <1>1, <1>2 DEF ApiInv, ApiTypeOK
<1>4. RowTypes' /\ Rows' /\ NothingInDeadSpace'
  BY <1>2, UnchangedAges
<1>5. OneHolder'
  BY <1>1, <1>3 DEF OneHolder, ApiInv, ApiTypeOK, HeldPCs
<1>6. Works'
  <2>1. WorksOf(r)'
    BY <1>1, <1>3 DEF WorksOf, HeldPCs
  <2>2. ASSUME NEW q \in Requests \ {r} PROVE WorksOf(q)'
    <3>1. WorksOf(q)
      BY DEF ApiInv, Works
    <3> QED BY <1>2, <1>3, <3>1 DEF WorksOf, Reasoned, Expired
  <2> QED BY <2>1, <2>2 DEF Works
<1>7. Waits'
  <2>1. by # "admin" => cred \in Spaces /\ spaces[cred].row # "free"
    BY DEF ApiInv, Rows
  <2>2. WaitsOf(r)'
    BY <1>1, <1>2, <1>3, <2>1 DEF WaitsOf, Bound
  <2>3. ASSUME NEW q \in Requests \ {r} PROVE WaitsOf(q)'
    <3>1. WaitsOf(q)
      BY DEF ApiInv, Waits
    <3> QED BY <1>2, <1>3, <3>1 DEF WaitsOf, Bound
  <2> QED BY <2>2, <2>3 DEF Waits
<1>8. ApiTypeOK'
  BY <1>3, <1>4, <1>5 DEF RowTypes, OneHolder, ApiTypeOK
<1>9. Created'
  BY <1>1, <1>2, <1>3 DEF Created, CreatedOf, ApiInv
<1> QED BY <1>4, <1>6, <1>7, <1>8, <1>9 DEF ApiInv

\* What an open space is.
LEMMA OpensFacts ==
  ASSUME ApiInv, NEW s \in known
  PROVE  s \in Spaces /\ spaces[s].alias \in Aliases
BY DEF ApiInv, Rows, SpaceRowsOK

LEMMA ArriveKeeps ==
  ASSUME ApiInv, NEW r \in Requests, Arrive(r)
  PROVE  ApiInv'
<1>1. ASSUME NEW s \in Spaces, NEW n \in Names, SendLink(r, s, n) PROVE ApiInv'
  <2>1. s \in known /\ spaces[s].alias \in Aliases
    BY <1>1, OpensFacts DEF SendLink
  <2>2. ASSUME NEW kind \in {"createLink", "restartLink", "deleteLink"},
               Send(r, kind, "token", s, spaces[s].alias, n)
        PROVE  ApiInv'
    BY <2>1, <2>2, SendKeeps DEF Kinds, By
  <2> QED BY <1>1, <2>2 DEF SendLink
<1>2. ASSUME NEW s \in Spaces, NEW n \in Names, SendFromDashboard(r, s, n) PROVE ApiInv'
  <2>1. s \in known /\ spaces[s].alias \in Aliases
    BY <1>2, OpensFacts DEF SendFromDashboard, Session
  <2>2. ASSUME NEW kind \in {"restartLink", "deleteLink"},
               Send(r, kind, "dashboard", s, spaces[s].alias, n)
        PROVE  ApiInv'
    BY <2>1, <2>2, SendKeeps DEF Kinds, By
  <2> QED BY <1>2, <2>2 DEF SendFromDashboard
<1>3. ASSUME NEW s \in Spaces, SendDropOwn(r, s) PROVE ApiInv'
  <2>1. s \in known /\ spaces[s].alias \in Aliases
    BY <1>3, OpensFacts DEF SendDropOwn, Session
  <2> QED BY <1>3, <2>1, SendKeeps DEF SendDropOwn, Kinds, By
<1>4. ASSUME NEW s \in Spaces, NEW a \in Aliases, SendDrop(r, s, a) PROVE ApiInv'
  BY <1>4, SendKeeps DEF SendDrop, Kinds, By
<1>5. ASSUME NEW a \in Aliases, SendCreate(r, a) \/ SendForcedDrop(r, a) PROVE ApiInv'
  BY <1>5, SendKeeps DEF SendCreate, SendForcedDrop, Kinds, By
<1>6. ASSUME NEW a \in Aliases, NEW n \in Names, SendAdminLink(r, a, n) PROVE ApiInv'
  <2>1. ASSUME NEW kind \in {"restartLink", "deleteLink"},
               Send(r, kind, "admin", NoSpace, a, n)
        PROVE  ApiInv'
    BY <2>1, SendKeeps DEF Kinds, By
  <2> QED BY <1>6, <2>1 DEF SendAdminLink
<1> QED BY <1>1, <1>2, <1>3, <1>4, <1>5, <1>6
        DEF Arrive, SpaceCommand, LinkCommand, AdminCommand, DashboardForm, AdminForm

LEMMA LeaveKeeps ==
  ASSUME ApiInv, NEW r \in Requests, Leave(r)
  PROVE  ApiInv'
<1> DEFINE x == [req[r] EXCEPT !.late = TRUE]
<1>1. req' = [req EXCEPT ![r] = x] /\ UNCHANGED <<spaces, links, known>> /\ req[r].pc # "done"
  BY DEF Leave, HeldPCs
<1>2. req[r] \in Request
  BY DEF ApiInv, ApiTypeOK
<1>3. /\ x \in Request /\ x.pc = req[r].pc /\ x.kind = req[r].kind /\ x.by = req[r].by
      /\ x.cred = req[r].cred /\ x.alias = req[r].alias /\ x.name = req[r].name
      /\ x.space = req[r].space /\ x.link = req[r].link /\ x.audited = req[r].audited
      /\ x.answer = req[r].answer
  BY <1>2 DEF Request
<1> HIDE DEF x
<1>4. req' \in [Requests -> Request] /\ \A q \in Requests : req'[q] = IF q = r THEN x ELSE req[q]
  BY <1>1, <1>3 DEF ApiInv, ApiTypeOK
<1>5. RowTypes' /\ Rows' /\ NothingInDeadSpace'
  BY <1>1, UnchangedAges
<1>6. \A q \in Requests : req'[q].pc = req[q].pc
  BY <1>3, <1>4
<1>7. ApiTypeOK'
  BY <1>4, <1>5, <1>6 DEF RowTypes, ApiTypeOK, ApiInv
<1>8. ASSUME NEW q \in Requests PROVE WaitsOf(q)' /\ WorksOf(q)' /\ CreatedOf(q)'
  <2>1. WaitsOf(q) /\ WorksOf(q) /\ CreatedOf(q)
    BY DEF ApiInv, Waits, Works, Created
  <2>2. WaitsOf(q)'
    BY <1>1, <1>3, <1>4, <2>1 DEF WaitsOf, Bound
  <2>3. WorksOf(q)'
    BY <1>1, <1>3, <1>4, <2>1 DEF WorksOf, Reasoned, Expired
  <2>4. CreatedOf(q)'
    BY <1>1, <1>3, <1>4, <2>1 DEF CreatedOf
  <2> QED BY <2>2, <2>3, <2>4
<1> QED BY <1>5, <1>7, <1>8 DEF ApiInv, Waits, Works, Created

LEMMA ReplyKeeps ==
  ASSUME ApiInv, NEW r \in Requests, Reply(r)
  PROVE  ApiInv'
<1>1. req' = [req EXCEPT ![r] = Idle] /\ UNCHANGED <<spaces, links>>
  BY DEF Reply
<1>2. Idle \in Request /\ Idle.pc = "idle"
  BY DEF Idle, Request, PCs, Kinds, By, Answers
<1>3. /\ req' \in [Requests -> Request] /\ req'[r] = Idle
      /\ \A q \in Requests \ {r} : req'[q] = req[q]
  BY <1>1, <1>2 DEF ApiInv, ApiTypeOK
<1>4. known' \subseteq {s \in Spaces : spaces[s].row # "free"}
  BY DEF Reply, ApiInv, Rows, Created, CreatedOf
<1>5. /\ RowTypes' /\ NothingInDeadSpace'
      /\ AliasesUnique' /\ NamesUnique' /\ SpaceRowsOK' /\ LinkRowsOK'
  BY <1>1, <1>4 DEF RowTypes, NothingInDeadSpace, AliasesUnique, NamesUnique, SpaceRowsOK, LinkRowsOK,
     ApiInv, ApiTypeOK, Rows
<1>6. Rows'
  BY <1>1, <1>4, <1>5 DEF Rows
<1>7. ApiTypeOK'
  BY <1>2, <1>3, <1>5 DEF RowTypes, ApiTypeOK, ApiInv, HeldPCs
<1>8. ASSUME NEW q \in Requests PROVE WaitsOf(q)' /\ WorksOf(q)' /\ CreatedOf(q)'
  <2>1. WaitsOf(q) /\ WorksOf(q) /\ CreatedOf(q)
    BY DEF ApiInv, Waits, Works, Created
  <2>2. WaitsOf(q)'
    BY <1>1, <1>2, <1>3, <2>1 DEF WaitsOf, Bound
  <2>3. WorksOf(q)'
    BY <1>1, <1>2, <1>3, <2>1 DEF WorksOf, Reasoned, Expired, HeldPCs
  <2>4. CreatedOf(q)'
    BY <1>1, <1>2, <1>3, <2>1 DEF CreatedOf
  <2> QED BY <2>2, <2>3, <2>4
<1> QED BY <1>5, <1>6, <1>7, <1>8 DEF ApiInv, Waits, Works, Created

\* Time passes, and no row is archived.
Lasts ==
  /\ \A l \in Links :
       /\ links'[l].row = links[l].row
       /\ links'[l].space = links[l].space /\ links'[l].name = links[l].name
       /\ links[l].expired => links'[l].expired
  /\ \A s \in Spaces :
       /\ spaces'[s].row = spaces[s].row
       /\ spaces[s].expired => spaces'[s].expired

\* The tables age while no request has the mutex, or only time passes.
LEMMA AgingKeeps ==
  ASSUME ApiInv, Ages, UNCHANGED req,
         MutexFree \/ Lasts
  PROVE  ApiInv'
<1>1. RowTypes' /\ Rows' /\ NothingInDeadSpace' /\ Grows
  BY AgesKeepRows DEF ApiInv, ApiTypeOK, RowTypes
<1>2. ApiTypeOK'
  BY <1>1 DEF RowTypes, ApiTypeOK, ApiInv
<1>3. ASSUME NEW q \in Requests PROVE WaitsOf(q)' /\ WorksOf(q)' /\ CreatedOf(q)'
  <2>1. WaitsOf(q) /\ WorksOf(q) /\ CreatedOf(q)
    BY DEF ApiInv, Waits, Works, Created
  <2>2. WaitsOf(q)'
    BY <1>1, <2>1 DEF WaitsOf, Bound, Grows
  <2>3. WorksOf(q)'
    <3>1. CASE MutexFree
      BY <3>1 DEF MutexFree, WorksOf
    <3>2. CASE Lasts /\ req[q].pc \in HeldPCs
      <4>1. spaces'[req[q].space].row = "live"
        BY <2>1, <3>2 DEF WorksOf, Lasts
      <4>2. req[q].kind # "deleteSpace" =>
              /\ links'[req[q].link].row = "live"
              /\ links'[req[q].link].space = req[q].space
              /\ links'[req[q].link].name = req[q].name
              /\ Expired(req[q].link) => Expired(req[q].link)'
        BY <2>1, <3>2 DEF WorksOf, Lasts, Expired
      <4> QED BY <2>1, <3>2, <4>1, <4>2 DEF WorksOf, Reasoned
    <3>3. CASE req[q].pc \notin HeldPCs
      BY <3>3 DEF WorksOf
    <3> QED BY <3>1, <3>2, <3>3
  <2>4. CreatedOf(q)'
    BY <1>1, <2>1 DEF CreatedOf, Grows
  <2> QED BY <2>2, <2>3, <2>4
<1> QED BY <1>1, <1>2, <1>3 DEF ApiInv, Waits, Works, Created

LEMMA ExpireKeeps ==
  ASSUME ApiInv, Expire
  PROVE  ApiInv'
<1>1. CASE \E s \in Spaces : /\ spaces[s].row = "live" /\ ~spaces[s].expired
                             /\ spaces' = [spaces EXCEPT ![s].expired = TRUE]
                             /\ UNCHANGED <<links, known, req>>
  <2>1. PICK s \in Spaces : /\ spaces[s].row = "live"
                            /\ spaces' = [spaces EXCEPT ![s].expired = TRUE]
                            /\ UNCHANGED <<links, known, req>>
    BY <1>1
  <2> DEFINE x == [spaces[s] EXCEPT !.expired = TRUE]
  <2>2. x \in SpaceRow /\ x.row = "live" /\ x.alias = spaces[s].alias /\ x.expired
    BY <2>1 DEF SpaceRow, ApiInv, ApiTypeOK
  <2>3. spaces' = [spaces EXCEPT ![s] = x]
    BY <2>1
  <2> HIDE DEF x
  <2>4. spaces' \in [Spaces -> SpaceRow] /\ \A t \in Spaces : spaces'[t] = IF t = s THEN x ELSE spaces[t]
    BY <2>2, <2>3 DEF ApiInv, ApiTypeOK
  <2>5. \A l \in Links : links[l].row = "live" =>
          links[l].space \in Spaces /\ spaces[links[l].space].row = "live"
    BY DEF ApiInv, NothingInDeadSpace, Rows, LinkRowsOK
  <2>6. Ages
    BY <2>1, <2>2, <2>4, <2>5 DEF Ages, ApiInv, ApiTypeOK
  <2>7. Lasts
    BY <2>1, <2>2, <2>4 DEF Lasts
  <2> QED BY <2>1, <2>6, <2>7, AgingKeeps
<1>2. CASE \E l \in Links : /\ links[l].row = "live" /\ ~links[l].expired
                            /\ links' = [links EXCEPT ![l].expired = TRUE]
                            /\ UNCHANGED <<spaces, known, req>>
  <2>1. PICK l \in Links : /\ links[l].row = "live"
                           /\ links' = [links EXCEPT ![l].expired = TRUE]
                           /\ UNCHANGED <<spaces, known, req>>
    BY <1>2
  <2> DEFINE x == [links[l] EXCEPT !.expired = TRUE]
  <2>2. /\ x \in LinkRow /\ x.row = "live" /\ x.space = links[l].space
        /\ x.name = links[l].name /\ x.expired
    BY <2>1 DEF LinkRow, ApiInv, ApiTypeOK
  <2>3. links' = [links EXCEPT ![l] = x]
    BY <2>1
  <2> HIDE DEF x
  <2>4. links' \in [Links -> LinkRow] /\ \A k \in Links : links'[k] = IF k = l THEN x ELSE links[k]
    BY <2>2, <2>3 DEF ApiInv, ApiTypeOK
  <2>6. Ages
    BY <2>1, <2>2, <2>4 DEF Ages, ApiInv, ApiTypeOK, NothingInDeadSpace
  <2>7. Lasts
    BY <2>1, <2>2, <2>4 DEF Lasts
  <2> QED BY <2>1, <2>6, <2>7, AgingKeeps
<1> QED BY <1>1, <1>2 DEF Expire

\* What a pass leaves of one link's row, or of a space's.
LEMMA PassedRows ==
  /\ \A x \in LinkRow : /\ Archived(x) \in LinkRow /\ Archived(x).row = "archived"
                        /\ Archived(x).public = FALSE
                        /\ Archived(x).space = x.space /\ Archived(x).name = x.name
  /\ \A x \in LinkRow : LET y == [x EXCEPT !.public = TRUE] IN
        y \in LinkRow /\ y.row = x.row /\ y.space = x.space /\ y.name = x.name
  /\ \A x \in SpaceRow : LET y == [x EXCEPT !.row = "archived"] IN
        y \in SpaceRow /\ y.row = "archived" /\ y.alias = x.alias
BY DEF Archived, LinkRow, SpaceRow, Row

LEMMA PassStopsKeeps ==
  ASSUME ApiInv, PassStops
  PROVE  ApiInv'
<1>1. PICK gone \in SUBSET LiveLinks, drop \in SUBSET Spaces :
        drop \subseteq Droppable(gone) /\ Collected(gone, drop)
  BY DEF PassStops, Droppable
<1>2. MutexFree /\ UNCHANGED <<known, req>>
  BY DEF PassStops
<1>3. /\ links' \in [Links -> LinkRow]
      /\ \A l \in Links : links'[l] = IF l \in gone THEN Archived(links[l]) ELSE links[l]
  BY <1>1, PassedRows DEF Collected, ApiInv, ApiTypeOK
<1>4. \A l \in gone : /\ links[l].row = "live" /\ links'[l].row = "archived" /\ ~links'[l].public
                     /\ links'[l].space = links[l].space /\ links'[l].name = links[l].name
  BY <1>3, PassedRows DEF LiveLinks, ApiInv, ApiTypeOK
<1>5. /\ spaces' \in [Spaces -> SpaceRow]
      /\ \A s \in Spaces : IF s \in drop
                           THEN spaces'[s].row = "archived" /\ spaces'[s].alias = spaces[s].alias
                           ELSE spaces'[s] = spaces[s]
  BY <1>1, PassedRows DEF Collected, ApiInv, ApiTypeOK
<1>6. \A s \in drop : spaces[s].row = "live" /\ ListLinks(s) \subseteq gone
  BY <1>1 DEF Droppable
<1>7. \A l \in Links \ gone : links[l].row = "live" =>
        /\ links[l].space \in Spaces \ drop /\ spaces[links[l].space].row = "live"
  BY <1>6 DEF ListLinks, ApiInv, NothingInDeadSpace, Rows, LinkRowsOK
<1>8. Ages
  BY <1>2, <1>3, <1>4, <1>5, <1>6, <1>7 DEF Ages
<1> QED BY <1>2, <1>8, AgingKeeps

LEMMA PassFailsKeeps ==
  ASSUME ApiInv, PassFails
  PROVE  ApiInv'
<1>1. PICK l \in LiveLinks : links' = [links EXCEPT ![l] = Unrouted(@)]
  BY DEF PassFails
<1>2. l \in Links /\ links[l].row = "live"
  BY DEF LiveLinks
<1>3. Ages
  BY <1>1, <1>2, OneLinkAges DEF PassFails, ApiInv, ApiTypeOK, RowTypes
<1> QED BY <1>3, AgingKeeps DEF PassFails

LEMMA PassRepairsKeeps ==
  ASSUME ApiInv, PassRepairs
  PROVE  ApiInv'
<1>1. /\ links' \in [Links -> LinkRow]
      /\ \A l \in Links : links'[l] = IF l \in LiveLinks THEN [links[l] EXCEPT !.public = TRUE]
                                      ELSE links[l]
  <2>1. links \in [Links -> LinkRow]
    BY DEF ApiInv, ApiTypeOK
  <2>2. \A l \in Links : [links[l] EXCEPT !.public = TRUE] \in LinkRow
    BY <2>1, PassedRows
  <2>3. links' = [l \in Links |-> IF l \in LiveLinks THEN [links[l] EXCEPT !.public = TRUE]
                                  ELSE links[l]]
    BY DEF PassRepairs
  <2> QED BY <2>1, <2>2, <2>3
<1>2. \A l \in LiveLinks : /\ links[l].row = "live" /\ links'[l].row = "live"
                          /\ links'[l].space = links[l].space /\ links'[l].name = links[l].name
  <2> SUFFICES ASSUME NEW l \in LiveLinks
               PROVE  /\ links[l].row = "live" /\ links'[l].row = "live"
                      /\ links'[l].space = links[l].space /\ links'[l].name = links[l].name
    OBVIOUS
  <2>1. l \in Links /\ links[l].row = "live" /\ links[l] \in LinkRow
    BY DEF LiveLinks, ApiInv, ApiTypeOK
  <2>2. links'[l] = [links[l] EXCEPT !.public = TRUE]
    BY <1>1, <2>1
  <2> QED BY <2>1, <2>2, PassedRows
<1>3. Ages
  <2>1. spaces' = spaces /\ known' = known /\ spaces \in [Spaces -> SpaceRow]
    BY DEF PassRepairs, ApiInv, ApiTypeOK
  <2>2. ASSUME NEW l \in Links
        PROVE  links'[l] = links[l] \/ l \in LiveLinks
    BY <1>1
  <2>3. ASSUME NEW l \in Links, links'[l].row = "live"
        PROVE  spaces[links'[l].space].row = "live"
    <3>1. links[l].row = "live" /\ links'[l].space = links[l].space
      BY <1>2, <2>2, <2>3
    <3> QED BY <3>1 DEF ApiInv, NothingInDeadSpace
  <2> QED BY <1>1, <1>2, <2>1, <2>2, <2>3 DEF Ages
<1> QED BY <1>3, AgingKeeps DEF PassRepairs

LEMMA InitKeeps == ASSUME Init PROVE ApiInv
<1>1. Idle \in Request /\ Idle.pc = "idle"
  BY DEF Idle, Request, PCs, Kinds, By, Answers
<1>2. ApiTypeOK
  BY <1>1 DEF Init, ApiTypeOK, SpaceRow, LinkRow, Row, HeldPCs
<1>3. NothingInDeadSpace /\ Rows
  BY DEF Init, NothingInDeadSpace, Rows, AliasesUnique, NamesUnique, SpaceRowsOK, LinkRowsOK
<1>4. Waits /\ Works /\ Created
  BY <1>1 DEF Init, Waits, WaitsOf, Works, WorksOf, Created, CreatedOf, HeldPCs
<1> QED BY <1>2, <1>3, <1>4 DEF ApiInv

LEMMA NextKeeps == ASSUME ApiInv, [Next]_vars PROVE ApiInv'
<1>1. CASE UNCHANGED vars
  BY <1>1 DEF vars, ApiInv, ApiTypeOK, NothingInDeadSpace, Rows, AliasesUnique, NamesUnique, SpaceRowsOK,
     LinkRowsOK, Waits, WaitsOf, Bound, Works, WorksOf, Reasoned, Expired, Created, CreatedOf
<1>2. CASE Next
  BY <1>2, ArriveKeeps, LeaveKeeps, HandleKeeps, ReplyKeeps, ExpireKeeps, PassStopsKeeps,
     PassFailsKeeps, PassRepairsKeeps DEF Next
<1> QED BY <1>1, <1>2

\* The invariant of the requests and the tables.
THEOREM ApiInvAlways == Spec => []ApiInv
BY InitKeeps, NextKeeps, PTL DEF Spec

\* Every variable keeps its type and Service.mu has one holder, however many
\* requests of whatever kinds compete for it.
THEOREM ApiTypeCorrect == Spec => []ApiTypeOK
<1>1. ApiInv => ApiTypeOK
  BY DEF ApiInv
<1> QED BY <1>1, ApiInvAlways, PTL

\* No live link in an archived space, and no public one that is not live.
THEOREM NothingInDeadSpaceAlways == Spec => []NothingInDeadSpace
<1>1. ApiInv => NothingInDeadSpace
  BY DEF ApiInv
<1> QED BY <1>1, ApiInvAlways, PTL
-----------------------------------------------------------------------------
\* What a request may touch.

Untouched == /\ TouchedLinks = {} /\ TouchedSpaces = {}
             /\ \A l \in Links : links'[l].row = links[l].row
             /\ \A s \in Spaces : spaces'[s].row = spaces[s].row

\* Only one link is touched, which stays in its space; by a request whose client
\* has left its row is not.
OnlyLink(r, l) == /\ spaces' = spaces /\ l \in Links
                  /\ \A k \in Links \ {l} : links'[k] = links[k]
                  /\ links'[l].space = req[r].space
                  /\ req[r].late => links'[l].row = links[l].row

Touches(r) ==
  \/ UNCHANGED <<spaces, links>>
  \/ req[r].pc = "waiting" /\ req[r].kind = "createSpace" /\ req[r].by = "admin" /\ ~req[r].late
  \/ /\ req[r].pc = "waiting" /\ req[r].kind = "createLink" /\ req[r].by = "token" /\ ~req[r].late
     /\ spaces' = spaces
     /\ \E l \in Links : /\ \A k \in Links \ {l} : links'[k] = links[k]
                        /\ links'[l].space = req[r].cred
  \/ req[r].pc \in {"destroy", "start", "collect"} /\ req[r].kind # "deleteSpace" /\ OnlyLink(r, req[r].link)
  \/ /\ req[r].pc = "destroy" /\ req[r].kind = "deleteSpace"
     /\ \E l \in ListLinks(req[r].space) : OnlyLink(r, l)
  \/ /\ req[r].pc = "destroy" /\ req[r].kind = "deleteSpace" /\ ~req[r].late /\ links' = links
     /\ \A s \in Spaces \ {req[r].space} : spaces'[s] = spaces[s]

\* The steps that touch one live link of the request's space.
LEMMA OneLinkTouched ==
  ASSUME ApiInv, NEW r \in Requests, req[r].pc \in HeldPCs, UNCHANGED spaces,
         NEW l \in Links, links[l].row = "live", links[l].space = req[r].space,
         \/ links' = [links EXCEPT ![l] = Archived(@)] /\ ~req[r].late
         \/ links' = [links EXCEPT ![l] = Unrouted(@)]
         \/ links' = [links EXCEPT ![l].public = TRUE]
         \/ links' = links
  PROVE  OnlyLink(r, l)
<1>1. links[l] \in LinkRow /\ links \in [Links -> LinkRow]
  BY DEF ApiInv, ApiTypeOK
<1>2. CASE links' = [links EXCEPT ![l] = Archived(@)] /\ ~req[r].late
  BY <1>1, <1>2, PassedRows DEF OnlyLink
<1>3. CASE links' = [links EXCEPT ![l] = Unrouted(@)]
  BY <1>1, <1>3 DEF OnlyLink, Unrouted, LinkRow
<1>4. CASE links' = [links EXCEPT ![l].public = TRUE]
  BY <1>1, <1>4 DEF OnlyLink, LinkRow
<1>5. CASE links' = links
  BY <1>5 DEF OnlyLink
<1> QED BY <1>2, <1>3, <1>4, <1>5

LEMMA HandleTouches ==
  ASSUME ApiInv, NEW r \in Requests, Handle(r)
  PROVE  Touches(r)
<1>1. CASE GiveUp(r) \/ Deny(r) \/ LookUpLink(r) \/ LookUpSpace(r) \/ Audit(r)
  BY <1>1 DEF GiveUp, Deny, LookUpLink, LookUpSpace, Audit, Touches
<1>2. CASE CreateSpace(r)
  <2>1. WaitsOf(r)
    BY DEF ApiInv, Waits
  <2> QED BY <1>2, <2>1 DEF CreateSpace, Turn, WaitsOf, Touches
<1>3. CASE CreateLink(r)
  <2>1. CASE links' = links /\ spaces' = spaces
    BY <2>1 DEF Touches
  <2>2. ASSUME NEW s \in Authorized(r), NEW l \in Links,
               links' = [links EXCEPT ![l].row = "live", ![l].space = s, ![l].name = req[r].name]
        PROVE  Touches(r)
    <3>1. req[r].by = "token" /\ s = req[r].cred
      BY <1>3, TurnFacts, AuthorizedFacts DEF CreateLink
    <3>2. links[l] \in LinkRow /\ links \in [Links -> LinkRow]
      BY DEF ApiInv, ApiTypeOK
    <3>3. links'[l].space = s /\ \A k \in Links \ {l} : links'[k] = links[k]
      BY <2>2, <3>2 DEF LinkRow
    <3> QED BY <1>3, <3>1, <3>3 DEF Touches, CreateLink, Turn
  <2> QED BY <1>3, <2>1, <2>2 DEF CreateLink
<1>4. CASE DestroyLink(r) \/ DestroyForRestart(r) \/ Collect(r) \/ Start(r)
           \/ (DestroyFails(r) /\ req[r].kind # "deleteSpace")
  <2>1. req[r].pc \in {"destroy", "start", "collect"} /\ req[r].pc \in HeldPCs
    BY <1>4 DEF DestroyLink, DestroyForRestart, Collect, Start, DestroyFails, HeldPCs
  <2>2. req[r].kind # "deleteSpace"
    BY <1>4, <2>1, HolderFacts DEF DestroyLink, DestroyForRestart, Collect, Start, WorksOf
  <2>3. /\ req[r].link \in Links /\ links[req[r].link].row = "live"
        /\ links[req[r].link].space = req[r].space
    BY <2>1, <2>2, HolderFacts
  <2>4. /\ spaces' = spaces
        /\ \/ links' = [links EXCEPT ![req[r].link] = Archived(@)] /\ ~req[r].late
           \/ links' = [links EXCEPT ![req[r].link] = Unrouted(@)]
           \/ links' = [links EXCEPT ![req[r].link].public = TRUE]
           \/ links' = links
    BY <1>4 DEF DestroyLink, DestroyForRestart, Collect, Start, DestroyFails
  <2> QED BY <2>1, <2>2, <2>3, <2>4, OneLinkTouched DEF Touches
<1>5. CASE DestroyNext(r) \/ (DestroyFails(r) /\ req[r].kind = "deleteSpace")
  <2>1. req[r].pc = "destroy" /\ req[r].pc \in HeldPCs /\ req[r].kind = "deleteSpace" /\ spaces' = spaces
    BY <1>5 DEF DestroyNext, DestroyFails, HeldPCs
  <2>2. PICK l \in ListLinks(req[r].space) :
          \/ links' = [links EXCEPT ![l] = Archived(@)] /\ ~req[r].late
          \/ links' = [links EXCEPT ![l] = Unrouted(@)]
          \/ links' = links
    BY <1>5 DEF DestroyNext, DestroyFails
  <2>3. l \in Links /\ links[l].row = "live" /\ links[l].space = req[r].space
    BY DEF ListLinks
  <2>4. OnlyLink(r, l)
    BY <2>1, <2>2, <2>3, OneLinkTouched
  <2> QED BY <2>1, <2>4 DEF Touches
<1>6. CASE DropSpace(r)
  BY <1>6 DEF DropSpace, Touches, ApiInv, ApiTypeOK
<1> QED BY <1>1, <1>2, <1>3, <1>4, <1>5, <1>6 DEF Handle, LookUp, Act

\* Only the request that is served touches anything; otherwise time may pass.
LEMMA WhoServes ==
  ASSUME ApiInv, Next, NEW r \in Requests, Serving(r)
  PROVE  Handle(r) \/ Untouched
<1>1. ASSUME NEW q \in Requests, Arrive(q) \/ Leave(q) \/ Reply(q) PROVE Untouched
  BY <1>1 DEF Arrive, SpaceCommand, LinkCommand, AdminCommand, DashboardForm, AdminForm, SendCreate,
              SendDrop, SendForcedDrop, SendLink, SendAdminLink, SendFromDashboard, SendDropOwn,
              Send, Leave, Reply, Untouched,
     TouchedLinks, TouchedSpaces
<1>2. ASSUME NEW q \in Requests \ {r}, Handle(q) PROVE FALSE
  <2>1. req'[r] = req[r]
    BY <1>2, HandleKeeps DEF Keeps, Served
  <2>2. req[r].pc \notin HeldPCs
    BY <1>2, Alone DEF ApiInv
  <2> QED BY <2>1, <2>2 DEF Serving
<1>3. CASE Expire
  <2>1. CASE \E s \in Spaces : spaces' = [spaces EXCEPT ![s].expired = TRUE] /\ links' = links
    <3>1. PICK s \in Spaces : spaces' = [spaces EXCEPT ![s].expired = TRUE] /\ links' = links
      BY <2>1
    <3>2. \A t \in Spaces : /\ spaces'[t] = spaces[t] \/ spaces'[t] = [spaces[t] EXCEPT !.expired = TRUE]
                           /\ spaces'[t].row = spaces[t].row
      BY <3>1 DEF ApiInv, ApiTypeOK, SpaceRow
    <3> QED BY <3>1, <3>2 DEF Untouched, TouchedLinks, TouchedSpaces
  <2>2. CASE \E l \in Links : links' = [links EXCEPT ![l].expired = TRUE] /\ spaces' = spaces
    <3>1. PICK l \in Links : links' = [links EXCEPT ![l].expired = TRUE] /\ spaces' = spaces
      BY <2>2
    <3>2. \A k \in Links : /\ links'[k] = links[k] \/ links'[k] = [links[k] EXCEPT !.expired = TRUE]
                          /\ links'[k].row = links[k].row
      BY <3>1 DEF ApiInv, ApiTypeOK, LinkRow
    <3> QED BY <3>1, <3>2 DEF Untouched, TouchedLinks, TouchedSpaces
  <2> QED BY <1>3, <2>1, <2>2 DEF Expire
<1>4. CASE PassStops \/ PassFails \/ PassRepairs
  <2>1. MutexFree /\ req' = req
    BY <1>4 DEF PassStops, PassFails, PassRepairs
  <2> QED BY <2>1 DEF MutexFree, Serving
<1> QED BY <1>1, <1>2, <1>3, <1>4 DEF Next

\* No step of any request that came with a space's token, in whatever order the
\* requests are served, touches another space or a link of one.
THEOREM OwnSpaceOnlyAlways == Spec => OwnSpaceOnly
<1> DEFINE Stays == \A r \in Requests : StaysInOwnSpace(r)
<1>1. ASSUME ApiInv, ApiInv', [Next]_vars PROVE [Stays]_vars
  <2> SUFFICES ASSUME Next, NEW r \in Requests, Serving(r), req[r].by # "admin"
               PROVE  /\ \A l \in TouchedLinks : links'[l].space = req[r].cred
                      /\ TouchedSpaces \subseteq {req[r].cred}
    BY <1>1 DEF StaysInOwnSpace
  <2>1. CASE Untouched
    BY <2>1 DEF Untouched
  <2>2. CASE Handle(r)
    <3>1. Touches(r)
      BY <1>1, <2>2, HandleTouches
    <3>2. req[r].pc \in HeldPCs => req[r].space = req[r].cred
      BY <1>1, HolderFacts DEF WorksOf
    <3>3. \A l : OnlyLink(r, l) => TouchedSpaces = {} /\ TouchedLinks \subseteq {l} /\ links'[l].space = req[r].space
      BY DEF OnlyLink, TouchedLinks, TouchedSpaces
    <3>4. {"destroy", "start", "collect"} \subseteq HeldPCs
      BY DEF HeldPCs
    <3> QED BY <3>1, <3>2, <3>3, <3>4 DEF Touches, TouchedLinks, TouchedSpaces
  <2> QED BY <1>1, <2>1, <2>2, WhoServes
<1> QED BY <1>1, ApiInvAlways, PTL DEF Spec, OwnSpaceOnly

\* No operator's request takes anything down before its audit event is stored,
\* and none takes down what the event does not name.
THEOREM ForcedIsAuditedAlways == Spec => ForcedIsAudited
<1> DEFINE Named1 == \A r \in Requests : TakesWhatItNamed(r)
<1>1. ASSUME ApiInv, ApiInv', [Next]_vars PROVE [Named1]_vars
  <2> SUFFICES ASSUME Next, NEW r \in Requests, Serving(r), Reasoned(r),
                      TouchedLinks # {} \/ TouchedSpaces # {}
               PROVE  /\ req[r].audited \/ \A l \in TouchedLinks : Expired(l)
                      /\ \/ req[r].kind = "deleteSpace" /\ TouchedSpaces \subseteq {req[r].space}
                            /\ \A l \in TouchedLinks : links[l].space = req[r].space
                         \/ TouchedSpaces = {} /\ TouchedLinks = {req[r].link}
    BY <1>1 DEF TakesWhatItNamed
  <2>1. Touches(r)
    BY <1>1, WhoServes, HandleTouches DEF Untouched
  <2>2. \A l : OnlyLink(r, l) => TouchedSpaces = {} /\ TouchedLinks \subseteq {l}
    BY DEF OnlyLink, TouchedLinks, TouchedSpaces
  <2>3. /\ {"destroy", "start", "collect"} \subseteq HeldPCs
        /\ req[r].pc \in HeldPCs => WorksOf(r)
    BY <1>1, HolderFacts DEF HeldPCs
  <2>4. CASE UNCHANGED <<spaces, links>>
    BY <2>4 DEF TouchedLinks, TouchedSpaces
  <2>5. CASE /\ req[r].pc \in {"destroy", "start", "collect"} /\ req[r].kind # "deleteSpace"
             /\ OnlyLink(r, req[r].link)
    BY <2>2, <2>3, <2>5 DEF WorksOf
  <2>6. CASE /\ req[r].pc = "destroy" /\ req[r].kind = "deleteSpace"
             /\ \E l \in ListLinks(req[r].space) : OnlyLink(r, l)
    BY <2>2, <2>3, <2>6 DEF WorksOf, ListLinks
  <2>7. CASE /\ req[r].pc = "destroy" /\ req[r].kind = "deleteSpace" /\ links' = links
             /\ \A s \in Spaces \ {req[r].space} : spaces'[s] = spaces[s]
    BY <2>3, <2>7 DEF WorksOf, TouchedLinks, TouchedSpaces
  <2> QED BY <2>1, <2>4, <2>5, <2>6, <2>7 DEF Touches, Reasoned
<1> QED BY <1>1, ApiInvAlways, PTL DEF Spec, ForcedIsAudited

\* Wherever its client leaves, a request creates and archives nothing from then on.
THEOREM AbandonedInertAlways == Spec => AbandonedInert
<1> DEFINE Inert == \A r \in Requests : StoresNothing(r)
<1>1. ASSUME ApiInv, ApiInv', [Next]_vars PROVE [Inert]_vars
  <2> SUFFICES ASSUME Next, NEW r \in Requests, Serving(r), req[r].late
               PROVE  /\ \A l \in Links : links'[l].row = links[l].row
                      /\ \A s \in Spaces : spaces'[s].row = spaces[s].row
    BY <1>1 DEF StoresNothing
  <2>1. CASE Untouched
    BY <2>1 DEF Untouched
  <2>2. CASE Handle(r)
    <3>1. Touches(r)
      BY <1>1, <2>2, HandleTouches
    <3> QED BY <3>1 DEF Touches, OnlyLink
  <2> QED BY <1>1, <2>1, <2>2, WhoServes
<1> QED BY <1>1, ApiInvAlways, PTL DEF Spec, AbandonedInert

\* A delete that answers "ok" leaves no live link of the name.  One that answers
\* "not found" met a space without a link of the name, archived or not, or no
\* space: archived already or, for its token, expired.  None finds the token
\* that opened the space to be a wrong one.
THEOREM DeleteAnswersAlways == Spec => DeleteAnswers
<1> DEFINE Truth == \A r \in Requests : TellsTheTruth(r)
<1>1. ASSUME ApiInv, ApiInv', [Next]_vars PROVE [Truth]_vars
  <2> SUFFICES ASSUME Next, NEW r \in Requests, req[r].pc # "done", req'[r].pc = "done",
                      req[r].kind = "deleteLink"
               PROVE  /\ req'[r].answer = "ok" =>
                           /\ Named(req'[r].space, req[r].name) # {}
                           /\ \A l \in Named(req'[r].space, req[r].name) : links'[l].row = "archived"
                      /\ req'[r].answer = "notFound" =>
                           \A s \in Spaces : spaces[s].alias = req[r].alias =>
                             \/ Named(s, req[r].name) = {}
                             \/ spaces[s].row = "archived"
                             \/ spaces[s].expired /\ req[r].by # "admin"
                      /\ req'[r].answer # "unauthorized"
    BY <1>1 DEF TellsTheTruth
  <2>1. Handle(r)
    <3>1. ASSUME NEW q \in Requests \ {r}, Handle(q) PROVE FALSE
      BY <1>1, <3>1, HandleKeeps DEF Keeps, Served
    <3>2. ASSUME NEW q \in Requests, Arrive(q) \/ Leave(q) \/ Reply(q) PROVE FALSE
      <4>1. \E x : req' = [req EXCEPT ![q] = x] /\ (x.pc = "done" => x.pc = req[q].pc)
        <5>1. CASE Arrive(q)
          <6>1. PICK kind, by, cred, alias, name : Send(q, kind, by, cred, alias, name)
            BY <5>1 DEF Arrive, SpaceCommand, LinkCommand, AdminCommand, DashboardForm, AdminForm,
                        SendCreate, SendDrop, SendForcedDrop, SendLink, SendAdminLink,
                        SendFromDashboard, SendDropOwn
          <6> DEFINE y == [Idle EXCEPT !.pc = "waiting", !.kind = kind, !.by = by,
                                       !.cred = cred, !.alias = alias, !.name = name]
          <6>2. y.pc = "waiting" /\ req' = [req EXCEPT ![q] = y]
            BY <6>1 DEF Send, Idle
          <6> HIDE DEF y
          <6> QED BY <6>2
        <5>2. CASE Leave(q)
          <6>1. req[q] \in Request
            BY <1>1 DEF ApiInv, ApiTypeOK
          <6> DEFINE y == [req[q] EXCEPT !.late = TRUE]
          <6>2. y.pc = req[q].pc /\ req' = [req EXCEPT ![q] = y]
            BY <5>2, <6>1 DEF Leave, Request
          <6> HIDE DEF y
          <6> QED BY <6>2
        <5>3. CASE Reply(q)
          <6>1. Idle.pc = "idle" /\ req' = [req EXCEPT ![q] = Idle]
            BY <5>3 DEF Reply, Idle
          <6> QED BY <6>1
        <5> QED BY <3>2, <5>1, <5>2, <5>3
      <4> QED BY <1>1, <4>1 DEF ApiInv, ApiTypeOK
    <3>3. ASSUME Expire \/ PassStops \/ PassFails \/ PassRepairs PROVE FALSE
      BY <3>3 DEF Expire, PassStops, PassFails, PassRepairs
    <3> QED BY <3>1, <3>2, <3>3 DEF Next
  <2>2. CASE GiveUp(r) \/ DestroyFails(r)
    <3>1. Answer(r, "error") /\ "error" \in Answers
      BY <2>2 DEF GiveUp, DestroyFails, Answers
    <3> QED BY <1>1, <3>1, AnswerServes DEF ApiInv
  <2>3. CASE Deny(r)
    <3>1. Answer(r, Denied(r)) /\ Denied(r) \in Answers /\ Denied(r) # "ok" /\ Authorized(r) = {}
      BY <2>3 DEF Deny, Denied, Answers
    <3>2. req[r].pc = "waiting" /\ req[r].alias \in Aliases
      BY <1>1, <2>3 DEF Deny, Turn, ApiInv, Waits, WaitsOf
    <3>3. ASSUME NEW s \in Spaces, spaces[s].alias = req[r].alias
          PROVE  \/ spaces[s].row = "archived"
                 \/ spaces[s].expired /\ req[r].by # "admin"
      <4>1. spaces[s].row \in {"live", "archived"}
        BY <1>1, <3>2, <3>3, ApiAssumption DEF ApiInv, ApiTypeOK, SpaceRow, Row, Rows, SpaceRowsOK
      <4>2. CASE spaces[s].row = "live"
        <5>1. s \in FindSpaceByAlias(req[r].alias)
          BY <3>3, <4>2 DEF FindSpaceByAlias
        <5>2. req[r].by # "admin" /\ (spaces[s].expired \/ req[r].cred # s)
          BY <3>1, <5>1 DEF Authorized
        <5>3. req[r].cred = s
          <6>1. /\ req[r].cred \in Spaces /\ spaces[req[r].cred].alias = req[r].alias
            BY <1>1, <3>2, <5>2 DEF ApiInv, Waits, WaitsOf, Bound
          <6> QED BY <1>1, <3>2, <3>3, <6>1, ApiAssumption DEF ApiInv, Rows, AliasesUnique
        <5> QED BY <5>2, <5>3
      <4> QED BY <4>1, <4>2
    <3>4. Denied(r) # "unauthorized"
      <4>1. ASSUME NEW s \in FindSpaceByAlias(req[r].alias), ~spaces[s].expired
            PROVE  FALSE
        BY <3>3, <4>1 DEF FindSpaceByAlias
      <4> QED BY <4>1 DEF Denied
    <3> QED BY <1>1, <3>1, <3>3, <3>4, AnswerServes DEF ApiInv
  <2>4. CASE LookUpLink(r)
    <3>0. req[r].name \in Names /\ links' = links
      BY <1>1, <2>4, TurnFacts DEF LookUpLink
    <3>1. PICK s \in Authorized(r) : FindLink(s, req[r].name) = {} /\ AnswerIn(r, s, Missing(r, s))
      <4>1. ASSUME NEW s \in Authorized(r), NEW l \in FindLink(s, req[r].name),
                   req' = [req EXCEPT ![r].space = s, ![r].link = l,
                             ![r].pc = IF req[r].kind = "restartLink" /\ Expired(l) THEN "collect"
                                       ELSE IF Reasoned(r) THEN "audit" ELSE "destroy"]
            PROVE  FALSE
        BY <1>1, <4>1 DEF ApiInv, ApiTypeOK, Request
      <4> QED BY <2>4, <4>1 DEF LookUpLink
    <3>2. s \in Spaces /\ Missing(r, s) \in Answers
      BY <3>1, AuthorizedFacts DEF Missing, Answers
    <3>3. req'[r].space = s /\ req'[r].answer = Missing(r, s)
      BY <1>1, <3>1, <3>2, AnswerTyped DEF ApiInv
    <3>4. \A l \in Named(s, req[r].name) : links[l].row = "archived"
      BY <1>1, <3>0, <3>1, ApiAssumption
         DEF Named, FindLink, ListLinks, ApiInv, ApiTypeOK, LinkRow, Row, Rows, LinkRowsOK
    <3>5. Missing(r, s) = "ok" => Named(s, req[r].name) # {}
      BY DEF Missing, NameTaken
    <3>6. Missing(r, s) = "notFound" => Named(s, req[r].name) = {}
      BY DEF Missing, NameTaken
    <3>7. \A t \in Spaces : spaces[t].alias = req[r].alias => t = s
      <4>1. spaces[s].alias = req[r].alias /\ spaces[s].row = "live"
        BY <3>1 DEF Authorized, FindSpaceByAlias
      <4>2. spaces[s].alias # NoAlias
        BY <1>1, <3>2, <4>1, ApiAssumption DEF ApiInv, Rows, SpaceRowsOK
      <4> QED BY <1>1, <3>2, <4>1, <4>2 DEF ApiInv, Rows, AliasesUnique
    <3>8. Missing(r, s) # "unauthorized"
      BY DEF Missing
    <3> QED BY <3>0, <3>3, <3>4, <3>5, <3>6, <3>7, <3>8
  <2>5. CASE DestroyLink(r)
    <3>1. Answer(r, "ok") /\ "ok" \in Answers /\ req[r].pc \in HeldPCs
      BY <2>5 DEF DestroyLink, Answers, HeldPCs
    <3>2. req'[r].space = req[r].space /\ req'[r].answer = "ok"
      BY <1>1, <3>1, AnswerServes DEF ApiInv
    <3>3. /\ req[r].link \in Links /\ links[req[r].link].row = "live"
          /\ links[req[r].link].space = req[r].space /\ links[req[r].link].name = req[r].name
      BY <1>1, <3>1, HolderFacts DEF WorksOf
    <3>4. links'[req[r].link].row = "archived"
      BY <1>1, <2>5, <3>3, PassedRows DEF DestroyLink, ApiInv, ApiTypeOK
    <3>5. \A l \in Named(req[r].space, req[r].name) : links[l].row # "free" => l = req[r].link
      BY <1>1, <3>3 DEF Named, ApiInv, Rows, NamesUnique
    <3>6. \A l \in Named(req[r].space, req[r].name) : links[l].row # "free"
      BY <1>1, <3>3, ApiAssumption DEF Named, ApiInv, Rows, LinkRowsOK
    <3> QED BY <3>2, <3>3, <3>4, <3>5, <3>6 DEF Named
  <2>6. ~CreateSpace(r) /\ ~CreateLink(r) /\ ~LookUpSpace(r) /\ ~DestroyForRestart(r)
        /\ ~DestroyNext(r) /\ ~DropSpace(r)
    BY DEF CreateSpace, CreateLink, LookUpSpace, DestroyForRestart, DestroyNext, DropSpace
  <2>7. ~Audit(r) /\ ~Collect(r) /\ ~Start(r)
    <3>1. Audit(r) => req'[r].pc = "destroy"
      BY <1>1 DEF Audit, ApiInv, ApiTypeOK, Request
    <3>2. ~Collect(r) /\ ~Start(r)
      BY <1>1, HolderFacts DEF Collect, Start, WorksOf, HeldPCs
    <3> QED BY <3>1, <3>2
  <2> QED BY <2>1, <2>2, <2>3, <2>4, <2>5, <2>6, <2>7 DEF Handle, LookUp, Act
<1> QED BY <1>1, ApiInvAlways, PTL DEF Spec, DeleteAnswers
=============================================================================
