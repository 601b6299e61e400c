-------------------------- MODULE LifecycleProofs --------------------------
(* Theorems about Lifecycle, for every value of its constants. *)
EXTENDS Lifecycle, TLAPS

Thens == {"fail", "destroy", "restart"}

----------------------------------------------------------------------------
(* The frames that the helpers build are operations *)

\* The initial and the fresh frames are operations.
LEMMA FreshTypes ==
  ASSUME NEW t \in Nat
  PROVE  Idle \in Operation /\ Request \in Operation /\ FreeLink \in LinkRow
BY DEF Idle, Request, Operation, FreeLink, LinkRow, Slot, Status, Kinds, PCs, LoopPCs,
       StartPCs, CompensationPCs, AfterPCs

\* Compensation starts from any frame.
LEMMA CompensateType ==
  ASSUME NEW o \in Operation, NEW t \in Thens
  PROVE  Compensate(o, t) \in Operation
BY DEF Compensate, Operation, Thens, PCs, CompensationPCs

\* destroy takes over a frame for a link of the table.
LEMMA DestroyType ==
  ASSUME StoreTypeOK, NEW o \in Operation, NEW k \in Links, NEW term \in Status,
         NEW ret \in {"idle"} \union LoopPCs
  PROVE  Destroy(o, k, term, ret) \in Operation
<1>1. [o EXCEPT !.id = k, !.l = rows[k], !.term = term, !.ret = ret] \in Operation
  BY DEF Operation, StoreTypeOK
<1> QED BY <1>1, CompensateType DEF Destroy, Thens

\* The loop's frame after a destroy.
LEMMA ReturnedType ==
  ASSUME NEW o \in Operation
  PROVE  Returned(o) \in Operation
<1>1. Idle \in Operation /\ FreeLink \in LinkRow
  BY FreshTypes
<1>2. CASE o.ret = "idle"
  BY <1>1, <1>2 DEF Returned
<1>3. CASE o.ret # "idle"
  <2>1. o.ret \in LoopPCs /\ o.ret \in PCs
    BY <1>3 DEF Operation, PCs
  <2>2. Returned(o) = [o EXCEPT !.pc = o.ret, !.id = NoLink, !.l = FreeLink, !.compErr = FALSE]
    BY <1>3 DEF Returned
  <2>3. QED BY <1>1, <2>1, <2>2 DEF Operation
<1>4. QED BY <1>2, <1>3

\* The frame after compensation.
LEMMA CompensatedType ==
  ASSUME NEW o \in Operation
  PROVE  Compensated(o) \in Operation
<1>1. o.l \in LinkRow /\ o.term \in Status /\ o.then \in Thens
  BY DEF Operation, Thens
<1>2. \A s \in Status : [o.l EXCEPT !.status = s] \in LinkRow
                        /\ [o.l EXCEPT !.status = s, !.port = NoPort, !.proc = NoProc] \in LinkRow
  BY <1>1 DEF LinkRow
<1> DEFINE saved(pc, s) == [o EXCEPT !.pc = pc, !.l.status = s]
           cleared(pc, s) == [saved(pc, s) EXCEPT !.l.port = NoPort, !.l.proc = NoProc]
<1>3. ASSUME NEW pc \in PCs, NEW s \in Status
      PROVE  saved(pc, s) \in Operation /\ cleared(pc, s) \in Operation
  <2>1. saved(pc, s) = [o EXCEPT !.pc = pc, !.l = [o.l EXCEPT !.status = s]]
    BY DEF Operation
  <2>2. cleared(pc, s)
          = [o EXCEPT !.pc = pc, !.l = [o.l EXCEPT !.status = s, !.port = NoPort, !.proc = NoProc]]
    BY DEF Operation
  <2>3. \A m \in LinkRow : [o EXCEPT !.pc = pc, !.l = m] \in Operation
    BY DEF Operation
  <2> HIDE DEF saved, cleared
  <2>4. QED BY <1>2, <2>1, <2>2, <2>3
<1>4. /\ {"failed", "creating"} \subseteq Status
      /\ {"saveFailed", "saveTerminal", "saveCreating"} \subseteq PCs
  BY DEF Status, PCs, AfterPCs
<1>5. Compensated(o) \in {saved("saveFailed", "failed"), cleared("saveFailed", "failed"),
                         cleared("saveTerminal", o.term), cleared("saveCreating", "creating")}
  BY <1>1 DEF Compensated, Thens
<1> HIDE DEF saved, cleared
<1> QED BY <1>1, <1>3, <1>4, <1>5

\* The frame of a new pass.
LEMMA PassType ==
  ASSUME now \in Nat, NEW todo \in SUBSET Links, NEW pc \in PCs, NEW kind \in Kinds
  PROVE  [Idle EXCEPT !.kind = kind, !.pc = pc, !.asOf = now, !.todo = todo] \in Operation
BY FreshTypes DEF Operation

----------------------------------------------------------------------------
(* Statements and outcomes keep the types *)

Spent == [faults: Nat, cancels: Nat, crashes: Nat, stops: Nat]

ProcsTypeOK == procs \in [Procs -> {"unused", "alive", "dead"}]

\* An archived row is a row.
LEMMA ArchivedType ==
  ASSUME NEW l \in LinkRow
  PROVE  ArchivedRow(l) \in LinkRow
BY DEF ArchivedRow, LinkRow, Slot, Status

\* The statements on one link keep the types of the tables.
LEMMA StatementTypes ==
  ASSUME StoreTypeOK, NEW k, NEW l \in LinkRow,
         SaveLink(k, l) \/ DeleteLink(k) \/ InsertLink(k, l) \/ UNCHANGED store
  PROVE  StoreTypeOK'
<1>1. CASE SaveLink(k, l)
  BY <1>1 DEF SaveLink, StoreTypeOK
<1>2. CASE DeleteLink(k)
  BY <1>2, ArchivedType DEF DeleteLink, StoreTypeOK
<1>3. CASE InsertLink(k, l)
  BY <1>3 DEF InsertLink, StoreTypeOK
<1>4. CASE UNCHANGED store
  BY <1>4 DEF store, StoreTypeOK
<1> QED BY <1>1, <1>2, <1>3, <1>4

\* Inserting and archiving a space keep the types of the tables.
LEMMA SpaceTypes ==
  ASSUME StoreTypeOK, NEW s,
         DeleteSpace(s) \/ (\E exp \in Nat : InsertSpace(s, exp))
  PROVE  StoreTypeOK'
<1>1. CASE DeleteSpace(s)
  <2>1. \A k \in Links : ArchivedRow(rows[k]) \in LinkRow
    BY ArchivedType DEF StoreTypeOK
  <2> QED BY <1>1, <2>1 DEF DeleteSpace, StoreTypeOK, SpaceRow, Slot
<1>2. CASE \E exp \in Nat : InsertSpace(s, exp)
  <2>1. \A exp \in Nat : [slot |-> "live", exp |-> exp] \in SpaceRow
    BY DEF SpaceRow, Slot
  <2> QED BY <1>2, <2>1 DEF InsertSpace, StoreTypeOK
<1> QED BY <1>1, <1>2

\* A failing call is counted, a call that succeeds is not.
LEMMA OutcomeTypes ==
  ASSUME spent \in Spent, CallOk \/ CallFails \/ UNCHANGED spent
  PROVE  spent' \in Spent
BY DEF Spent, CallOk, CallFails

\* A process that ends is still a process.
LEMMA KilledTypes ==
  ASSUME ProcsTypeOK, NEW q
  PROVE  Killed(q) \in [Procs -> {"unused", "alive", "dead"}]
BY DEF Killed, ProcsTypeOK

\* Giving up keeps the types.
LEMMA ReturnTypes ==
  ASSUME op \in Operation, mode \in Modes, Abort \/ ReturnError
  PROVE  op' \in Operation /\ mode' \in Modes
<1>1. Returned(op) \in Operation /\ Idle \in Operation
  BY ReturnedType, FreshTypes
<1>2. [Returned(op) EXCEPT !.err = TRUE] \in Operation
  BY <1>1 DEF Operation
<1> QED BY <1>1, <1>2 DEF ReturnError, Abort, Modes

----------------------------------------------------------------------------
(* Type correctness *)

\* The parts of the type invariant, named for the proofs.
LEMMA TypeParts ==
  TypeOK <=> /\ StoreTypeOK /\ now \in Nat /\ ProcsTypeOK /\ reserved \subseteq Ports
             /\ routes \in [Links -> Ports \union {NoPort}]
             /\ mode \in Modes /\ op \in Operation /\ spent \in Spent
BY DEF TypeOK, ProcsTypeOK, Spent

\* Frames that differ from op in the program counter alone.
LEMMA GotoType ==
  ASSUME op \in Operation, NEW pc \in PCs
  PROVE  /\ [op EXCEPT !.pc = pc] \in Operation
         /\ [op EXCEPT !.pc = pc, !.compErr = TRUE] \in Operation
BY DEF Operation

\* Frames that carry another copy of the link.
LEMMA CopyType ==
  ASSUME op \in Operation, NEW pc \in PCs, NEW l \in LinkRow
  PROVE  [op EXCEPT !.pc = pc, !.l = l] \in Operation
BY DEF Operation

\* Frames whose copy has another status.
LEMMA StatusType ==
  ASSUME op \in Operation, NEW pc \in PCs, NEW st \in Status
  PROVE  [op EXCEPT !.pc = pc, !.l.status = st] \in Operation
<1>1. op.l \in LinkRow
  BY DEF Operation
<1>2. [op.l EXCEPT !.status = st] \in LinkRow
  BY <1>1 DEF LinkRow
<1>3. [op EXCEPT !.pc = pc, !.l.status = st] = [op EXCEPT !.pc = pc, !.l = [op.l EXCEPT !.status = st]]
  BY DEF Operation
<1>4. QED BY <1>2, <1>3, CopyType

\* The calls of compensation and of its callers keep the types.
LEMMA CompensationTypes ==
  ASSUME TypeOK, Compensation
  PROVE  TypeOK'
<1>0. /\ StoreTypeOK /\ now \in Nat /\ ProcsTypeOK /\ reserved \subseteq Ports
      /\ routes \in [Links -> Ports \union {NoPort}]
      /\ mode \in Modes /\ op \in Operation /\ spent \in Spent
  BY TypeParts
<1>g. /\ op.l \in LinkRow /\ Idle \in Operation
      /\ Returned(op) \in Operation /\ Compensated(op) \in Operation
      /\ "stopProcess" \in PCs /\ "returnPort" \in PCs /\ "deleteRow" \in PCs /\ "allocate" \in PCs
  BY <1>0, FreshTypes, ReturnedType, CompensatedType
     DEF Operation, PCs, CompensationPCs, AfterPCs, StartPCs
<1>1. CASE RemoveRoute
  <2>1. /\ UNCHANGED <<store, now, procs, reserved, mode>>
        /\ CallOk \/ CallFails
        /\ routes' \in {routes, [routes EXCEPT ![op.id] = NoPort]}
        /\ op' \in {[op EXCEPT !.pc = "stopProcess"], [op EXCEPT !.pc = "stopProcess", !.compErr = TRUE]}
    BY <1>1 DEF RemoveRoute, RemoveOk, RemoveFails, Goto
  <2>2. op' \in Operation /\ spent' \in Spent
    BY <1>0, <1>g, <2>1, GotoType, OutcomeTypes
  <2>3. routes' \in [Links -> Ports \union {NoPort}]
    BY <1>0, <2>1
  <2> QED BY <1>0, <1>g, <2>1, <2>2, <2>3, StatementTypes DEF TypeOK, ProcsTypeOK, Spent
<1>2. CASE StopProcess
  <2>1. /\ UNCHANGED <<store, now, reserved, routes, mode>>
        /\ UNCHANGED spent \/ CallFails
        /\ procs' \in {procs, Killed(op.l.proc)}
        /\ op' \in {[op EXCEPT !.pc = "returnPort"], [op EXCEPT !.pc = "returnPort", !.compErr = TRUE]}
    BY <1>2 DEF StopProcess, Goto
  <2>2. op' \in Operation /\ spent' \in Spent
    BY <1>0, <1>g, <2>1, GotoType, OutcomeTypes
  <2>3. ProcsTypeOK'
    BY <1>0, <2>1, KilledTypes DEF ProcsTypeOK
  <2> QED BY <1>0, <1>g, <2>1, <2>2, <2>3, StatementTypes DEF TypeOK, ProcsTypeOK, Spent
<1>3. CASE ReturnPort
  <2>1. [op EXCEPT !.compErr = TRUE] \in Operation
    BY <1>0 DEF Operation
  <2>2. Compensated([op EXCEPT !.compErr = TRUE]) \in Operation
    BY <2>1, CompensatedType
  <2>3. /\ UNCHANGED <<store, now, procs, routes, mode>>
        /\ UNCHANGED spent \/ CallOk \/ CallFails
        /\ reserved' \in {reserved, reserved \ {op.l.port}}
        /\ op' \in {Compensated(op), Compensated([op EXCEPT !.compErr = TRUE])}
    BY <1>3 DEF ReturnPort
  <2>4. op' \in Operation /\ spent' \in Spent
    BY <1>0, <1>g, <2>2, <2>3, OutcomeTypes
  <2>5. reserved' \subseteq Ports
    BY <1>0, <2>3
  <2> QED BY <1>0, <1>g, <2>3, <2>4, <2>5, StatementTypes DEF TypeOK, ProcsTypeOK, Spent
<1>4. CASE SaveFailed \/ SaveTerminal \/ DeleteRow \/ SaveCreating
  <2>1. /\ UNCHANGED world
        /\ SaveLink(op.id, op.l) \/ DeleteLink(op.id) \/ UNCHANGED store
        /\ CallOk \/ CallFails
    BY <1>4 DEF SaveFailed, SaveTerminal, DeleteRow, SaveCreating, SaveOk, SaveFails
  <2>2. op' \in Operation /\ mode' \in Modes
    <3>1. \/ ReturnError
          \/ /\ op' \in {[op EXCEPT !.pc = "deleteRow"], [op EXCEPT !.pc = "allocate"], Idle, Returned(op)}
             /\ UNCHANGED mode
      BY <1>4 DEF SaveFailed, SaveTerminal, DeleteRow, SaveCreating, SaveOk, SaveFails
    <3> QED BY <1>0, <1>g, <3>1, ReturnTypes, GotoType
  <2>3. spent' \in Spent /\ StoreTypeOK'
    BY <1>0, <1>g, <2>1, OutcomeTypes, StatementTypes
  <2> QED BY <1>0, <2>1, <2>2, <2>3 DEF TypeOK, ProcsTypeOK, Spent, world
<1> QED BY <1>1, <1>2, <1>3, <1>4 DEF Compensation

\* The calls of start keep the types.
LEMMA StartTypes ==
  ASSUME TypeOK, Start
  PROVE  TypeOK'
<1>0. /\ StoreTypeOK /\ now \in Nat /\ ProcsTypeOK /\ reserved \subseteq Ports
      /\ routes \in [Links -> Ports \union {NoPort}]
      /\ mode \in Modes /\ op \in Operation /\ spent \in Spent
  BY TypeParts
<1>g. /\ op.l \in LinkRow /\ Idle \in Operation /\ Compensate(op, "fail") \in Operation
      /\ op.l.port \in Ports \union {NoPort}
      /\ \A pc \in StartPCs : pc \in PCs
  BY <1>0, FreshTypes, CompensateType DEF Operation, Thens, LinkRow, PCs
<1>1. CASE StartExpired
  <2>1. /\ UNCHANGED world /\ UNCHANGED mode /\ op' = Idle
        /\ DeleteLink(op.id) \/ UNCHANGED store
        /\ CallOk \/ CallFails
    BY <1>1 DEF StartExpired
  <2>2. spent' \in Spent /\ StoreTypeOK'
    BY <1>0, <1>g, <2>1, OutcomeTypes, StatementTypes
  <2> QED BY <1>0, <1>g, <2>1, <2>2 DEF TypeOK, ProcsTypeOK, Spent, world
<1>2. CASE Allocate
  <2>1. /\ UNCHANGED <<store, now, procs, routes, mode>>
        /\ CallOk \/ CallFails \/ UNCHANGED spent
        /\ \/ UNCHANGED reserved /\ op' = Compensate(op, "fail")
           \/ \E p \in FreePorts :
                /\ reserved' = reserved \union {p}
                /\ op' = [op EXCEPT !.pc = "saveStarting", !.l.port = p, !.l.status = "starting"]
    BY <1>2 DEF Allocate, FailStart
  <2>2. ASSUME NEW p \in Ports
        PROVE  [op EXCEPT !.pc = "saveStarting", !.l.port = p, !.l.status = "starting"] \in Operation
    <3>1. [op.l EXCEPT !.port = p, !.status = "starting"] \in LinkRow
      BY <1>g DEF LinkRow, Status
    <3> QED BY <1>0, <3>1 DEF Operation, PCs, StartPCs
  <2>3. op' \in Operation /\ reserved' \subseteq Ports
    BY <1>0, <1>g, <2>1, <2>2 DEF FreePorts
  <2>4. spent' \in Spent
    BY <1>0, <2>1, OutcomeTypes
  <2> QED BY <1>0, <1>g, <2>1, <2>3, <2>4, StatementTypes DEF TypeOK, ProcsTypeOK, Spent
<1>3. CASE SaveStarting \/ SaveHealthy \/ SaveActive
  <2>1. /\ UNCHANGED world /\ UNCHANGED mode
        /\ SaveLink(op.id, op.l) \/ UNCHANGED store
        /\ CallOk \/ CallFails
        /\ op' \in {[op EXCEPT !.pc = "releasePort"], [op EXCEPT !.pc = "addRoute"],
                    [op EXCEPT !.pc = "unroute"], Idle, Compensate(op, "fail")}
    BY <1>3 DEF SaveStarting, SaveHealthy, SaveActive, SaveOk, Goto, FailStart
  <2>2. spent' \in Spent /\ StoreTypeOK'
    BY <1>0, <1>g, <2>1, OutcomeTypes, StatementTypes
  <2>3. op' \in Operation
    BY <1>0, <1>g, <2>1, GotoType DEF StartPCs
  <2> QED BY <1>0, <2>1, <2>2, <2>3 DEF TypeOK, ProcsTypeOK, Spent, world
<1>4. CASE ReleasePort
  <2>1. /\ UNCHANGED <<store, now, procs, routes, mode>>
        /\ CallOk \/ CallFails
        /\ reserved' \in {reserved, reserved \ {op.l.port}}
        /\ op' \in {[op EXCEPT !.pc = "spawn"], Compensate(op, "fail")}
    BY <1>4 DEF ReleasePort, Goto, FailStart
  <2>2. op' \in Operation /\ reserved' \subseteq Ports
    BY <1>0, <1>g, <2>1, GotoType DEF StartPCs
  <2>3. spent' \in Spent
    BY <1>0, <2>1, OutcomeTypes
  <2> QED BY <1>0, <1>g, <2>1, <2>2, <2>3, StatementTypes DEF TypeOK, ProcsTypeOK, Spent
<1>5. CASE Spawn
  <2>1. /\ UNCHANGED <<store, now, reserved, routes, mode, spent>>
        /\ \/ UNCHANGED procs /\ op' = Compensate(op, "fail")
           \/ \E q \in Procs :
                /\ procs' = [procs EXCEPT ![q] = "alive"]
                /\ op' = [op EXCEPT !.pc = "saveSpawned", !.l.proc = q]
    BY <1>5 DEF Spawn, UnusedProcs, CallOk, FailStart
  <2>2. ASSUME NEW q \in Procs
        PROVE  [op EXCEPT !.pc = "saveSpawned", !.l.proc = q] \in Operation
    <3>1. [op.l EXCEPT !.proc = q] \in LinkRow
      BY <1>g DEF LinkRow
    <3> QED BY <1>0, <3>1 DEF Operation, PCs, StartPCs
  <2>3. op' \in Operation
    BY <1>g, <2>1, <2>2
  <2>4. ProcsTypeOK'
    BY <1>0, <2>1 DEF ProcsTypeOK
  <2> QED BY <1>0, <1>g, <2>1, <2>3, <2>4, StatementTypes DEF TypeOK, ProcsTypeOK, Spent
<1>6. CASE SaveSpawned
  <2>1. /\ UNCHANGED world /\ UNCHANGED mode
        /\ SaveLink(op.id, op.l) \/ UNCHANGED store
        /\ CallOk \/ CallFails
        /\ op' \in {[op EXCEPT !.pc = "checkHealth", !.l = Substituted(op.l)], Compensate(op, "fail")}
    BY <1>6 DEF SaveSpawned, SaveOk, FailStart
  <2>2. Substituted(op.l) \in LinkRow
    BY <1>g DEF Substituted, LinkRow
  <2>3. [op EXCEPT !.pc = "checkHealth", !.l = Substituted(op.l)] \in Operation
    BY <1>0, <1>g, <2>2, CopyType DEF StartPCs
  <2>5. op' \in Operation
    BY <1>g, <2>1, <2>3
  <2>4. spent' \in Spent /\ StoreTypeOK'
    BY <1>0, <1>g, <2>1, OutcomeTypes, StatementTypes
  <2> QED BY <1>0, <2>1, <2>4, <2>5 DEF TypeOK, ProcsTypeOK, Spent, world
<1>7. CASE CheckHealth
  <2>1. /\ UNCHANGED <<store, world, mode, spent>>
        /\ op' \in {[op EXCEPT !.pc = "saveHealthy", !.l.status = "healthy"], Compensate(op, "fail")}
    BY <1>7 DEF CheckHealth, CallOk, FailStart
  <2>2. [op EXCEPT !.pc = "saveHealthy", !.l.status = "healthy"] \in Operation
    BY <1>0, <1>g, StatusType DEF StartPCs, Status
  <2>3. op' \in Operation
    BY <1>g, <2>1, <2>2
  <2>4. StoreTypeOK'
    BY <1>0, <1>g, <2>1, StatementTypes
  <2> QED BY <1>0, <2>1, <2>3, <2>4 DEF TypeOK, ProcsTypeOK, Spent, world
<1>8. CASE AddRoute
  <2>1. /\ UNCHANGED <<store, now, procs, reserved, mode>>
        /\ CallOk \/ CallFails
        /\ routes' \in {routes, [routes EXCEPT ![op.id] = op.l.port]}
        /\ op' \in {[op EXCEPT !.pc = "saveActive", !.l.status = "active"], Compensate(op, "fail")}
    BY <1>8 DEF AddRoute, FailStart
  <2>2. [op EXCEPT !.pc = "saveActive", !.l.status = "active"] \in Operation
    BY <1>0, <1>g, StatusType DEF StartPCs, Status
  <2>3. op' \in Operation
    BY <1>g, <2>1, <2>2
  <2>4. routes' \in [Links -> Ports \union {NoPort}]
    BY <1>0, <1>g, <2>1
  <2>5. spent' \in Spent
    BY <1>0, <2>1, OutcomeTypes
  <2> QED BY <1>0, <1>g, <2>1, <2>3, <2>4, <2>5, StatementTypes DEF TypeOK, ProcsTypeOK, Spent
<1>9. CASE Unroute
  <2>1. /\ UNCHANGED <<store, now, procs, reserved, mode>>
        /\ CallOk \/ CallFails
        /\ routes' \in {routes, [routes EXCEPT ![op.id] = NoPort]}
        /\ op' = Compensate(op, "fail")
    BY <1>9 DEF Unroute, RemoveOk, RemoveFails, FailStart
  <2>2. spent' \in Spent /\ routes' \in [Links -> Ports \union {NoPort}]
    BY <1>0, <2>1, OutcomeTypes
  <2> QED BY <1>0, <1>g, <2>1, <2>2, StatementTypes DEF TypeOK, ProcsTypeOK, Spent
<1> QED BY <1>1, <1>2, <1>3, <1>4, <1>5, <1>6, <1>7, <1>8, <1>9 DEF Start

\* The requests keep the types.
LEMMA RequestTypes ==
  ASSUME TypeOK, Requests
  PROVE  TypeOK'
<1>0. /\ StoreTypeOK /\ now \in Nat /\ ProcsTypeOK /\ reserved \subseteq Ports
      /\ routes \in [Links -> Ports \union {NoPort}]
      /\ mode \in Modes /\ op \in Operation /\ spent \in Spent
  BY TypeParts
<1>g. Request \in Operation /\ "idle" \in {"idle"} \union LoopPCs
  BY FreshTypes
<1>1. ASSUME NEW s \in Spaces, CreateSpace(s)
      PROVE  TypeOK'
  <2>1. UNCHANGED <<world, mode, op, spent>>
    BY <1>1 DEF CreateSpace
  <2>2. \E exp \in Nat : InsertSpace(s, exp)
    BY <1>0, <1>1, LifecycleAssumption DEF CreateSpace
  <2>3. StoreTypeOK'
    BY <1>0, <2>2, SpaceTypes
  <2> QED BY <1>0, <2>1, <2>3 DEF TypeOK, ProcsTypeOK, Spent, world
<1>2. ASSUME NEW s \in Spaces, RequestDrop(s)
      PROVE  TypeOK'
  <2>1. /\ UNCHANGED <<store, world, mode, spent>>
        /\ op' = [Request EXCEPT !.pc = "drop", !.space = s, !.todo = ListLinks(s)]
    BY <1>2 DEF RequestDrop
  <2>2. op' \in Operation
    BY <1>g, <2>1 DEF Operation, PCs, LoopPCs, ListLinks
  <2> QED BY <1>0, <2>1, <2>2 DEF TypeOK, StoreTypeOK, ProcsTypeOK, Spent, world, store
<1>3. ASSUME NEW k \in Links, NEW s \in Spaces, CreateLink(k, s)
      PROVE  TypeOK'
  <2>1. /\ UNCHANGED <<world, mode, spent>>
        /\ \E ttl \in TTLs, url \in URLs :
             LET l == [FreeLink EXCEPT !.slot = "live", !.space = s, !.probe = url,
                                       !.exp = Earlier(now + ttl, spaces[s].exp)] IN
             InsertLink(k, l) /\ op' = [Request EXCEPT !.pc = "allocate", !.id = k, !.l = l]
    BY <1>3 DEF CreateLink
  <2>2. ASSUME NEW ttl \in TTLs, NEW url \in URLs
        PROVE  [FreeLink EXCEPT !.slot = "live", !.space = s, !.probe = url,
                                !.exp = Earlier(now + ttl, spaces[s].exp)] \in LinkRow
    <3>1. Earlier(now + ttl, spaces[s].exp) \in Nat
      BY <1>0, LifecycleAssumption DEF Earlier, StoreTypeOK, SpaceRow
    <3> QED BY <3>1, FreshTypes, LifecycleAssumption DEF LinkRow, Slot
  <2>3. PICK l \in LinkRow : InsertLink(k, l) /\ op' = [Request EXCEPT !.pc = "allocate", !.id = k, !.l = l]
    BY <2>1, <2>2
  <2>4. op' \in Operation
    BY <1>g, <2>3 DEF Operation, PCs, StartPCs
  <2>5. StoreTypeOK'
    BY <1>0, <2>3, StatementTypes
  <2> QED BY <1>0, <2>1, <2>4, <2>5 DEF TypeOK, ProcsTypeOK, Spent, world
<1>4. ASSUME NEW k \in Links, RequestDelete(k) \/ RequestRestart(k)
      PROVE  TypeOK'
  <2>1. /\ UNCHANGED <<store, world, mode, spent>>
        /\ op' \in {Destroy(Request, k, "deleted", "idle"), Destroy(Request, k, "expired", "idle"),
                    Compensate([Request EXCEPT !.id = k, !.l = rows[k]], "restart")}
    BY <1>4 DEF RequestDelete, RequestRestart
  <2>2. [Request EXCEPT !.id = k, !.l = rows[k]] \in Operation
    BY <1>0, <1>g DEF Operation, StoreTypeOK
  <2>3. op' \in Operation
    BY <1>0, <1>g, <2>1, <2>2, CompensateType, DestroyType DEF Status, Thens
  <2> QED BY <1>0, <2>1, <2>3 DEF TypeOK, StoreTypeOK, ProcsTypeOK, Spent, world, store
<1> QED BY <1>1, <1>2, <1>3, <1>4 DEF Requests

\* Visiting a link of the snapshot keeps the frame's type.
LEMMA VisitType ==
  ASSUME StoreTypeOK, op \in Operation, NEW k \in op.todo, NEW term \in Status,
         NEW ret \in {"idle"} \union LoopPCs
  PROVE  /\ Destroy(Visiting(k), k, term, ret) \in Operation
         /\ [Visiting(k) EXCEPT !.desired = @ \union {k}] \in Operation
<1>1. Visiting(k) \in Operation /\ k \in Links
  BY DEF Visiting, Operation
<1> QED BY <1>1, DestroyType DEF Operation

\* The loops of a pass, of a forced deletion and of Shutdown keep the types.
LEMMA LoopTypes ==
  ASSUME TypeOK, DropSpace \/ Reconcile \/ Shutdown
  PROVE  TypeOK'
<1>0. /\ StoreTypeOK /\ now \in Nat /\ ProcsTypeOK /\ reserved \subseteq Ports
      /\ routes \in [Links -> Ports \union {NoPort}]
      /\ mode \in Modes /\ op \in Operation /\ spent \in Spent
  BY TypeParts
<1>g. /\ Idle \in Operation
      /\ LoopPCs \subseteq PCs /\ LoopPCs \subseteq {"idle"} \union LoopPCs
  BY FreshTypes DEF PCs
<1>a. ASSUME Abort
      PROVE  op' \in Operation /\ mode' \in Modes
  BY <1>0, <1>a, ReturnTypes
<1>1. ASSUME NEW pc \in LoopPCs, NEW term \in Status, NEW after \in Operation,
             DestroyLinks(pc, term, after)
      PROVE  TypeOK'
  <2>1. /\ UNCHANGED world
        /\ \/ /\ \E k \in op.todo : op' = Destroy(Visiting(k), k, term, pc)
              /\ UNCHANGED <<store, mode, spent>>
           \/ CallOk /\ DeleteSpace(op.space) /\ op' = after /\ UNCHANGED mode
           \/ CallFails /\ Abort /\ UNCHANGED store
    BY <1>1 DEF DestroyLinks, QueryFails
  <2>2. op' \in Operation /\ mode' \in Modes
    BY <1>0, <1>g, <1>a, <1>1, <2>1, VisitType
  <2>3. StoreTypeOK'
    BY <1>0, <2>1, SpaceTypes DEF store, StoreTypeOK
  <2>4. spent' \in Spent
    BY <1>0, <2>1, OutcomeTypes
  <2> QED BY <1>0, <2>1, <2>2, <2>3, <2>4 DEF TypeOK, ProcsTypeOK, Spent, world
<1>2. CASE DropSpace
  BY <1>1, <1>2, <1>g DEF DropSpace, LoopPCs, Status
<1>3. CASE PurgeSpace
  <2>1. [op EXCEPT !.pc = "spaces", !.space = NoSpace] \in Operation
    BY <1>0 DEF Operation, PCs, LoopPCs
  <2> QED BY <1>1, <1>3, <1>g, <2>1 DEF PurgeSpace, LoopPCs, Status
<1>4. CASE SweepLinks
  <2>1. /\ UNCHANGED <<store, world>>
        /\ CallOk \/ CallFails \/ UNCHANGED spent
        /\ \/ Abort
           \/ /\ UNCHANGED mode
              /\ \/ \E k \in op.todo : op' = Destroy(Visiting(k), k, "expired", "expired")
                 \/ op' = [op EXCEPT !.pc = "spaces"]
    BY <1>4 DEF SweepLinks, QueryFails, Goto
  <2>2. op' \in Operation /\ mode' \in Modes
    BY <1>0, <1>g, <1>a, <2>1, VisitType, GotoType DEF LoopPCs, Status
  <2>3. spent' \in Spent
    BY <1>0, <2>1, OutcomeTypes
  <2> QED BY <1>0, <2>1, <2>2, <2>3 DEF TypeOK, StoreTypeOK, ProcsTypeOK, Spent, world, store
<1>5. CASE SweepSpaces
  <2>1. /\ UNCHANGED <<store, world>>
        /\ CallOk \/ CallFails
        /\ \/ Abort
           \/ /\ UNCHANGED mode
              /\ \/ \E s \in Spaces :
                      op' = [op EXCEPT !.pc = "purge", !.space = s, !.todo = ListLinks(s)]
                 \/ op' = [op EXCEPT !.pc = "inspect", !.asOf = now, !.ended = EndedProcs,
                              !.todo = ReconciliationLinks(now)]
    BY <1>5 DEF SweepSpaces, QueryFails, ExpiredSpaces
  <2>2. \A s \in Spaces : [op EXCEPT !.pc = "purge", !.space = s, !.todo = ListLinks(s)] \in Operation
    BY <1>0 DEF Operation, PCs, LoopPCs, ListLinks
  <2>3. [op EXCEPT !.pc = "inspect", !.asOf = now, !.ended = EndedProcs,
            !.todo = ReconciliationLinks(now)] \in Operation
    BY <1>0 DEF Operation, PCs, LoopPCs, ReconciliationLinks, EndedProcs
  <2>4. op' \in Operation /\ mode' \in Modes
    BY <1>0, <1>a, <2>1, <2>2, <2>3
  <2>5. spent' \in Spent
    BY <1>0, <2>1, OutcomeTypes
  <2> QED BY <1>0, <2>1, <2>4, <2>5 DEF TypeOK, StoreTypeOK, ProcsTypeOK, Spent, world, store
<1>6. CASE Inspect
  <2>1. /\ UNCHANGED <<store, world, mode>>
        /\ CallOk \/ CallFails \/ UNCHANGED spent
        /\ \E k \in op.todo :
             op' \in {[Visiting(k) EXCEPT !.desired = @ \union {k}],
                      Destroy(Visiting(k), k, "failed", "inspect"),
                      Destroy(Visiting(k), k, "expired", "inspect")}
    BY <1>6 DEF Inspect
  <2>2. op' \in Operation
    BY <1>0, <1>g, <2>1, VisitType DEF LoopPCs, Status
  <2>3. spent' \in Spent
    BY <1>0, <2>1, OutcomeTypes
  <2> QED BY <1>0, <2>1, <2>2, <2>3 DEF TypeOK, StoreTypeOK, ProcsTypeOK, Spent, world, store
<1>7. CASE ApplyRoutes
  <2>1. /\ UNCHANGED <<store, now, procs, reserved>>
        /\ CallOk \/ CallFails
        /\ \/ routes' = Desired(op.desired) /\ op' = Idle /\ mode' \in {"ready", mode}
           \/ Abort /\ routes' \in Between(routes, Desired(op.desired))
    BY <1>7 DEF ApplyRoutes, QueryFails
  <2>2. op' \in Operation /\ mode' \in Modes
    BY <1>0, <1>g, <1>a, <2>1 DEF Modes
  <2>3. routes' \in [Links -> Ports \union {NoPort}]
    <3>1. Desired(op.desired) \in [Links -> Ports \union {NoPort}]
      BY <1>0 DEF Desired, StoreTypeOK, LinkRow
    <3> QED BY <2>1, <3>1 DEF Between
  <2>4. spent' \in Spent
    BY <1>0, <2>1, OutcomeTypes
  <2> QED BY <1>0, <2>1, <2>2, <2>3, <2>4 DEF TypeOK, StoreTypeOK, ProcsTypeOK, Spent, store
<1>8. CASE Shutdown
  <2>1. /\ UNCHANGED <<store, now, procs>>
        /\ CallOk \/ CallFails \/ UNCHANGED spent
        /\ \/ /\ \E k \in op.todo : op' = Destroy(Visiting(k), k, "deleted", "shut")
              /\ UNCHANGED <<reserved, routes, mode>>
           \/ /\ op' = Idle /\ reserved' = {} /\ mode' \in {"down", "stopped"}
              /\ routes' = Unrouted \/ routes' \in Between(routes, Unrouted)
    BY <1>8 DEF Shutdown
  <2>2. op' \in Operation /\ mode' \in Modes /\ reserved' \subseteq Ports
    BY <1>0, <1>g, <2>1, VisitType DEF Modes, LoopPCs, Status
  <2>3. routes' \in [Links -> Ports \union {NoPort}]
    BY <1>0, <2>1 DEF Between, Unrouted
  <2>4. spent' \in Spent
    BY <1>0, <2>1, OutcomeTypes
  <2> QED BY <1>0, <2>1, <2>2, <2>3, <2>4 DEF TypeOK, StoreTypeOK, ProcsTypeOK, Spent, store
<1> QED BY <1>2, <1>3, <1>4, <1>5, <1>6, <1>7, <1>8 DEF Reconcile

\* The ticker, start-up, shutdown, crashes and the world keep the types.
LEMMA WorldTypes ==
  ASSUME TypeOK,
         \/ Ticker \/ StopSignal \/ BeginShutdown \/ Crash \/ Startup
         \/ Tick \/ (\E q \in Procs : Exit(q)) \/ Cancel
  PROVE  TypeOK'
<1>0. /\ StoreTypeOK /\ now \in Nat /\ ProcsTypeOK /\ reserved \subseteq Ports
      /\ routes \in [Links -> Ports \union {NoPort}]
      /\ mode \in Modes /\ op \in Operation /\ spent \in Spent
  BY TypeParts
<1>g. Idle \in Operation /\ BeginReconcile \in Operation
  <2>1. Idle \in Operation
    BY FreshTypes
  <2>2. ExpiredLinks(now) \subseteq Links /\ "reconcile" \in Kinds /\ "expired" \in PCs
    BY DEF ExpiredLinks, Kinds, PCs, LoopPCs
  <2> QED BY <1>0, <2>1, <2>2 DEF BeginReconcile, Operation
<1>1. CASE Ticker
  <2>1. UNCHANGED <<spaces, rows, now, procs, reserved, routes, mode, spent>> /\ op' \in Operation
    BY <1>1, <1>g DEF Ticker, store, world
  <2> QED BY <1>0, <2>1 DEF TypeOK, StoreTypeOK, ProcsTypeOK, Spent
<1>2. CASE StopSignal
  <2>1. spent' \in Spent
    BY <1>0, <1>2 DEF StopSignal, Spent
  <2> QED BY <1>0, <1>2, <2>1 DEF StopSignal, TypeOK, StoreTypeOK, ProcsTypeOK, Spent, Modes, store, world
<1>3. CASE BeginShutdown
  <2>1. op' \in Operation
    <3>1. "shutdown" \in Kinds /\ "shut" \in PCs /\ ReconciliationLinks(now) \in SUBSET Links
      BY DEF Kinds, PCs, LoopPCs, ReconciliationLinks
    <3>2. op' = [Idle EXCEPT !.kind = "shutdown", !.pc = "shut", !.asOf = now,
                             !.todo = ReconciliationLinks(now)]
      BY <1>3 DEF BeginShutdown
    <3> QED BY <1>0, <1>g, <3>1, <3>2 DEF Operation
  <2>2. UNCHANGED <<spaces, rows, now, procs, reserved, routes, spent>> /\ mode' \in Modes
    BY <1>3 DEF BeginShutdown, Modes, store, world
  <2> QED BY <1>0, <2>1, <2>2 DEF TypeOK, StoreTypeOK, ProcsTypeOK, Spent
<1>4. CASE Crash
  <2>1. spent' \in Spent
    BY <1>0, <1>4 DEF Crash, Spent
  <2> QED BY <1>0, <1>4, <1>g, <2>1 DEF Crash, TypeOK, StoreTypeOK, ProcsTypeOK, Spent, Modes, store
<1>5. CASE Startup
  <2>1. routes' \in [Links -> Ports \union {NoPort}]
    BY <1>0, <1>5 DEF Startup, Unrouted
  <2> QED BY <1>0, <1>5, <1>g, <2>1 DEF Startup, TypeOK, StoreTypeOK, ProcsTypeOK, Spent, Modes, store
<1>6. CASE Tick
  BY <1>0, <1>6 DEF Tick, TypeOK, StoreTypeOK, ProcsTypeOK, Spent, store
<1>7. CASE \E q \in Procs : Exit(q)
  <2>1. ProcsTypeOK'
    BY <1>0, <1>7, KilledTypes DEF Exit, ProcsTypeOK
  <2> QED BY <1>0, <1>7, <2>1 DEF Exit, TypeOK, StoreTypeOK, ProcsTypeOK, Spent, store
<1>8. CASE Cancel
  <2>1. spent' \in Spent
    BY <1>0, <1>8 DEF Cancel, Spent
  <2>2. op' \in Operation
    BY <1>0, <1>8 DEF Cancel, Operation
  <2> QED BY <1>0, <1>8, <2>1, <2>2 DEF Cancel, TypeOK, StoreTypeOK, ProcsTypeOK, Spent, store, world
<1> QED BY <1>1, <1>2, <1>3, <1>4, <1>5, <1>6, <1>7, <1>8

\* Every variable keeps its type.
THEOREM TypeCorrect == Spec => []TypeOK
<1>1. Init => TypeOK
  BY FreshTypes, LifecycleAssumption
     DEF Init, StoreInit, TypeOK, StoreTypeOK, FreeSpace, SpaceRow, Slot, Modes
<1>2. TypeOK /\ [Next]_vars => TypeOK'
  <2> SUFFICES ASSUME TypeOK, [Next]_vars PROVE TypeOK'
    OBVIOUS
  <2>1. CASE UNCHANGED vars
    BY <2>1 DEF TypeOK, StoreTypeOK, vars
  <2>2. CASE Next
    BY <2>2, CompensationTypes, StartTypes, RequestTypes, LoopTypes, WorldTypes DEF Next, Operate
  <2> QED BY <2>1, <2>2
<1> QED BY <1>1, <1>2, PTL DEF Spec
=============================================================================
