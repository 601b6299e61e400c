-------------------------- MODULE LifecycleSafety --------------------------
(***************************************************************************)
(* The inductive invariant of Lifecycle and the safety theorems that       *)
(* follow from it.                                                         *)
(***************************************************************************)
EXTENDS LifecycleProofs, FiniteSetTheorems

\* A row that was never used names no process; no row names a process group
\* that does not exist yet.
RowInv == \A k \in Links : /\ rows[k].slot = "free" => rows[k].proc = NoProc
                           /\ rows[k].proc \notin UnusedProcs

\* The link in hand has a live row in the same space.
FrameInv ==
  InHand => /\ op.id \in Links /\ LiveLink(op.id)
            /\ op.l.slot = "live" /\ op.l.space = rows[op.id].space

\* While the link in hand has a route, the copy names what the row names; only
\* a failed removal lets compensation go on with the route still there.
RouteInv ==
  InHand /\ routes[op.id] # NoPort =>
    /\ op.pc \in {"addRoute", "saveActive", "unroute", "removeRoute", "stopProcess",
                  "returnPort", "saveFailed"}
    /\ op.pc \in {"stopProcess", "returnPort"} => op.compErr
    /\ op.l.port = rows[op.id].port /\ op.l.proc = rows[op.id].proc

\* What start has established when it publishes, and the status it saves.
PublishInv ==
  /\ op.pc \in {"saveSpawned", "checkHealth", "saveHealthy", "addRoute", "saveActive", "unroute"}
     => op.l.proc # NoProc
  /\ op.pc = "saveHealthy" => op.l.status = "healthy"
  /\ op.pc = "saveActive"  => op.l.status = "active"
  /\ op.pc = "saveFailed"  => op.l.status = "failed"
  /\ op.pc \in {"addRoute", "saveActive", "unroute"} =>
       /\ rows[op.id].status \in {"healthy", "active"}
       /\ rows[op.id].port = op.l.port /\ rows[op.id].proc = op.l.proc

\* The copy and the row name different processes only when one of them names
\* none and the process of the row is dead.
HandleInv ==
  /\ op.l.proc \notin UnusedProcs
  /\ InHand /\ op.l.proc # rows[op.id].proc =>
       /\ ~Alive(rows[op.id].proc)
       /\ op.l.proc = NoProc \/ rows[op.id].proc = NoProc
  /\ op.pc \in {"allocate", "saveStarting", "releasePort", "spawn", "saveSpawned", "deleteRow"}
     => rows[op.id].proc = NoProc
  /\ op.pc \in {"allocate", "saveStarting", "releasePort", "spawn", "saveTerminal",
                "saveCreating", "deleteRow"}
     => op.l.proc = NoProc
  /\ op.pc = "returnPort" /\ ~op.compErr => ~Alive(op.l.proc)

\* A loop's snapshot is of live links; what it keeps stays active and apart
\* from what it destroys; a space is archived after its last link.
LoopInv ==
  /\ op.todo \subseteq {k \in Links : LiveLink(k)}
  /\ op.desired \subseteq {k \in Links : LiveLink(k) /\ Recorded(k)}
  /\ op.todo \intersect op.desired = {}
  /\ InHand => op.id \notin op.todo \union op.desired
  /\ op.desired # {} => Loop = "inspect"
  /\ Loop \in {"drop", "purge"} =>
       \A k \in ListLinks(op.space) : k \in op.todo \/ (InHand /\ k = op.id)

\* What an operation may rely on, and the inductive invariant.
HandInv == FrameInv /\ RouteInv /\ PublishInv /\ HandleInv
Safe    == RouteRecoverable /\ RowInv /\ HandInv /\ LoopInv
IInv    == TypeOK /\ Safe

----------------------------------------------------------------------------
(* What the building blocks do *)

\* The statements touch one row; SaveLink on a live link stores the copy.
LEMMA SaveEffect ==
  ASSUME StoreTypeOK, NEW id \in Links, LiveLink(id), NEW l, SaveLink(id, l)
  PROVE  rows'[id] = l /\ \A k \in Links \ {id} : rows'[k] = rows[k]
BY DEF SaveLink, StoreTypeOK, LiveLink

\* DeleteLink archives the row and keeps its process.
LEMMA DeleteEffect ==
  ASSUME StoreTypeOK, NEW id \in Links, LiveLink(id), DeleteLink(id)
  PROVE  /\ rows'[id].slot = "archived" /\ rows'[id].proc = rows[id].proc
         /\ \A k \in Links \ {id} : rows'[k] = rows[k]
<1>1. rows[id] \in LinkRow
  BY DEF StoreTypeOK
<1>2. rows'[id] = ArchivedRow(rows[id]) /\ \A k \in Links \ {id} : rows'[k] = rows[k]
  BY DEF DeleteLink, StoreTypeOK, LiveLink
<1> QED BY <1>1, <1>2 DEF ArchivedRow, LinkRow

\* The part of a frame that the calls on one link leave alone.
SameTask(o) == /\ o.id = op.id /\ o.ret = op.ret /\ o.space = op.space
               /\ o.todo = op.todo /\ o.desired = op.desired

\* Going on to another call changes the program counter alone.
LEMMA GotoEffect ==
  ASSUME op \in Operation, NEW pc, op' = [op EXCEPT !.pc = pc]
  PROVE  SameTask(op') /\ op'.pc = pc /\ op'.l = op.l /\ op'.compErr = op.compErr
BY DEF Operation, SameTask

\* Going on after a failed step of compensation remembers the failure.
LEMMA GotoErrorEffect ==
  ASSUME op \in Operation, NEW pc, op' = [op EXCEPT !.pc = pc, !.compErr = TRUE]
  PROVE  SameTask(op') /\ op'.pc = pc /\ op'.l = op.l /\ op'.compErr
BY DEF Operation, SameTask

\* A failed start begins with the removal of its route.
LEMMA FailEffect ==
  ASSUME op \in Operation
  PROVE  /\ SameTask(Compensate(op, "fail")) /\ Compensate(op, "fail").pc = "removeRoute"
         /\ Compensate(op, "fail").l = op.l
BY DEF Operation, SameTask, Compensate

\* After a failed compensation the copy keeps process and port; after a
\* complete one it names neither.
LEMMA CompensatedEffect ==
  ASSUME op \in Operation, NEW o, o \in {op, [op EXCEPT !.compErr = TRUE]}
  PROVE  /\ SameTask(Compensated(o))
         /\ Compensated(o).l.slot = op.l.slot /\ Compensated(o).l.space = op.l.space
         /\ Compensated(o).pc \in {"saveFailed", "saveTerminal", "saveCreating"}
         /\ Compensated(o).pc = "saveFailed" => Compensated(o).l.status = "failed"
         /\ o.compErr => /\ Compensated(o).pc = "saveFailed"
                         /\ Compensated(o).l.proc = op.l.proc
                         /\ Compensated(o).l.port = op.l.port
         /\ ~o.compErr => Compensated(o).l.proc = NoProc
<1>1. o \in Operation /\ SameTask(o) /\ o.l = op.l
  BY DEF Operation, SameTask
<1>2. o.l \in LinkRow /\ o.then \in {"fail", "destroy", "restart"} /\ o.compErr \in BOOLEAN
  BY <1>1 DEF Operation
<1>3. CASE o.compErr
  <2>1. Compensated(o) = [o EXCEPT !.pc = "saveFailed", !.l.status = "failed"]
    BY <1>3 DEF Compensated
  <2> QED BY <1>1, <1>2, <1>3, <2>1 DEF Operation, SameTask, LinkRow
<1>4. CASE ~o.compErr
  <2> DEFINE cleared(pc, st) ==
        [[o EXCEPT !.pc = pc, !.l.status = st] EXCEPT !.l.port = NoPort, !.l.proc = NoProc]
  <2>1. /\ o.then = "fail" => Compensated(o) = cleared("saveFailed", "failed")
        /\ o.then = "destroy" => Compensated(o) = cleared("saveTerminal", o.term)
        /\ o.then = "restart" => Compensated(o) = cleared("saveCreating", "creating")
    BY <1>4 DEF Compensated
  <2>2. ASSUME NEW pc, NEW st
        PROVE  /\ SameTask(cleared(pc, st)) /\ cleared(pc, st).pc = pc
               /\ cleared(pc, st).l.slot = op.l.slot /\ cleared(pc, st).l.space = op.l.space
               /\ cleared(pc, st).l.status = st /\ cleared(pc, st).l.proc = NoProc
    <3> DEFINE m == [o EXCEPT !.pc = pc, !.l.status = st]
    <3>1. /\ m.id = o.id /\ m.ret = o.ret /\ m.space = o.space /\ m.todo = o.todo
          /\ m.desired = o.desired /\ m.pc = pc /\ m.l = [o.l EXCEPT !.status = st]
          /\ DOMAIN m = DOMAIN o /\ m = [x \in DOMAIN m |-> m[x]]
      BY <1>1 DEF Operation
    <3>2. /\ cleared(pc, st).id = m.id /\ cleared(pc, st).ret = m.ret
          /\ cleared(pc, st).space = m.space /\ cleared(pc, st).todo = m.todo
          /\ cleared(pc, st).desired = m.desired /\ cleared(pc, st).pc = m.pc
          /\ cleared(pc, st).l = [m.l EXCEPT !.port = NoPort, !.proc = NoProc]
      BY <1>1, <3>1 DEF Operation
    <3>3. /\ cleared(pc, st).l.slot = o.l.slot /\ cleared(pc, st).l.space = o.l.space
          /\ cleared(pc, st).l.status = st /\ cleared(pc, st).l.proc = NoProc
      <4>1. /\ m.l.slot = o.l.slot /\ m.l.space = o.l.space /\ m.l.status = st
            /\ DOMAIN m.l = DOMAIN o.l
        BY <1>2, <3>1 DEF LinkRow
      <4>2. {"slot", "space", "status", "proc"} \subseteq DOMAIN o.l
        BY <1>2 DEF LinkRow
      <4> HIDE DEF m, cleared
      <4> QED BY <3>2, <4>1, <4>2
    <3>4. SameTask(cleared(pc, st))
      BY <1>1, <3>1, <3>2 DEF SameTask
    <3> HIDE DEF m, cleared
    <3> QED BY <1>1, <3>1, <3>2, <3>3, <3>4
  <2> HIDE DEF cleared
  <2> QED BY <1>2, <1>4, <2>1, <2>2
<1> QED BY <1>2, <1>3, <1>4

----------------------------------------------------------------------------
(* Moves that several actions share *)

\* A call on the link in hand leaves the loop as it was.
LEMMA LoopKept ==
  ASSUME LoopInv, InHand, InHand', SameTask(op'),
         \A k \in Links \ {op.id} : rows'[k] = rows[k],
         op.id \in Links
  PROVE  LoopInv'
BY DEF LoopInv, SameTask, Loop, LiveLink, Recorded, ListLinks

\* The loop goes on once the link in hand is archived; Shutdown goes on anyhow.
LEMMA LoopResumed ==
  ASSUME LoopInv, InHand, op.ret \in LoopPCs, op' \in {Returned(op), [Returned(op) EXCEPT !.err = TRUE]},
         op \in Operation, op.id \in Links,
         \A k \in Links \ {op.id} : rows'[k] = rows[k],
         op.ret = "shut" \/ rows'[op.id].slot = "archived"
  PROVE  LoopInv'
<1>1. /\ op'.pc = op.ret /\ op'.todo = op.todo /\ op'.desired = op.desired /\ op'.space = op.space
  BY DEF Returned, Operation, LoopPCs
<1>2. ~InHand' /\ Loop' = op.ret /\ Loop = op.ret
  BY <1>1 DEF InHand, Loop, LoopPCs, StartPCs, CompensationPCs, AfterPCs
<1> QED BY <1>1, <1>2 DEF LoopInv, LiveLink, Recorded, ListLinks

\* Between two links nothing is in hand.
LEMMA EmptyHand ==
  ASSUME op'.pc \in LoopPCs \union {"idle"}, op'.l.proc \notin UnusedProcs'
  PROVE  ~InHand' /\ HandInv'
BY DEF InHand, HandInv, FrameInv, RouteInv, PublishInv, HandleInv,
       LoopPCs, StartPCs, CompensationPCs, AfterPCs

\* The operation is over.
LEMMA IdleAgain ==
  ASSUME op' = Idle
  PROVE  ~InHand' /\ HandInv' /\ LoopInv'
<1>1. op'.pc = "idle" /\ op'.l.proc = NoProc /\ op'.todo = {} /\ op'.desired = {}
  BY DEF Idle, FreeLink
<1>2. ~InHand' /\ HandInv'
  BY <1>1, EmptyHand, StoreAssumption DEF UnusedProcs
<1> QED BY <1>1, <1>2 DEF LoopInv, Loop

\* A save or a deletion of the link in hand keeps the other routes recoverable.
LEMMA RoutesKept ==
  ASSUME RouteRecoverable, op.id \in Links,
         \A k \in Links \ {op.id} : rows'[k] = rows[k] /\ routes'[k] = routes[k],
         routes'[op.id] # NoPort =>
           /\ rows'[op.id].slot = "live" /\ rows'[op.id].status \in {"healthy", "active", "failed"}
           /\ rows'[op.id].port = routes'[op.id] /\ rows'[op.id].proc # NoProc
  PROVE  RouteRecoverable'
BY DEF RouteRecoverable, LiveLink

\* Rows that stay, with no new unused process, keep the row invariant.
LEMMA RowsKept ==
  ASSUME RowInv, UnusedProcs' \subseteq UnusedProcs, op.id \in Links,
         \A k \in Links \ {op.id} : rows'[k] = rows[k],
         \/ rows'[op.id] = rows[op.id]
         \/ rows'[op.id].slot # "free" /\ rows'[op.id].proc \notin UnusedProcs'
  PROVE  RowInv'
BY DEF RowInv

\* A link is taken in hand for its destruction or restart.
LEMMA TakenInHand ==
  ASSUME TypeOK, RouteRecoverable, RowInv, NEW k \in Links, LiveLink(k),
         UNCHANGED <<rows, procs, routes>>,
         op'.pc = "removeRoute", op'.id = k, op'.l = rows[k]
  PROVE  RouteRecoverable' /\ RowInv' /\ InHand' /\ HandInv'
<1>1. RouteRecoverable' /\ RowInv'
  BY DEF RouteRecoverable, RowInv, LiveLink, UnusedProcs
<1>2. InHand'
  BY DEF InHand, CompensationPCs
<1> QED BY <1>1, <1>2 DEF HandInv, FrameInv, RouteInv, PublishInv, HandleInv, RowInv, LiveLink, UnusedProcs

\* What destroy puts into a frame.
LEMMA DestroyEffect ==
  ASSUME NEW o \in Operation, NEW k, NEW term, NEW ret
  PROVE  /\ Destroy(o, k, term, ret).pc = "removeRoute" /\ Destroy(o, k, term, ret).id = k
         /\ Destroy(o, k, term, ret).l = rows[k] /\ Destroy(o, k, term, ret).ret = ret
         /\ Destroy(o, k, term, ret).todo = o.todo /\ Destroy(o, k, term, ret).desired = o.desired
         /\ Destroy(o, k, term, ret).space = o.space
BY DEF Destroy, Compensate, Operation

----------------------------------------------------------------------------
(* Compensation *)

\* Compensation and its callers keep the invariant.
LEMMA CompensationSafe ==
  ASSUME IInv, Compensation
  PROVE  Safe'
<1>0. /\ TypeOK /\ RouteRecoverable /\ RowInv /\ LoopInv
      /\ FrameInv /\ RouteInv /\ PublishInv /\ HandleInv
      /\ StoreTypeOK /\ op \in Operation /\ op.l \in LinkRow
  BY DEF IInv, Safe, HandInv, TypeOK, Operation
<1>h. /\ op.pc \in CompensationPCs \union AfterPCs
      /\ InHand
  BY DEF Compensation, RemoveRoute, StopProcess, ReturnPort, SaveFailed, SaveTerminal,
         DeleteRow, SaveCreating, InHand, CompensationPCs, AfterPCs
<1>i. /\ op.id \in Links /\ LiveLink(op.id) /\ rows[op.id] \in LinkRow
      /\ op.l.slot = "live" /\ op.l.space = rows[op.id].space
  BY <1>0, <1>h DEF FrameInv, StoreTypeOK
<1>1. CASE RemoveRoute
  <2>1. /\ op.pc = "removeRoute" /\ UNCHANGED <<rows, procs>>
        /\ op'.pc = "stopProcess" /\ SameTask(op') /\ op'.l = op.l
        /\ op'.compErr \/ routes'[op.id] = NoPort
        /\ \A k \in Links : routes'[k] \in {routes[k], NoPort}
        /\ \A k \in Links \ {op.id} : routes'[k] = routes[k]
    <3>1. /\ op.pc = "removeRoute" /\ UNCHANGED <<rows, procs>>
          /\ \/ op' = [op EXCEPT !.pc = "stopProcess"] /\ routes' = [routes EXCEPT ![op.id] = NoPort]
             \/ /\ op' = [op EXCEPT !.pc = "stopProcess", !.compErr = TRUE]
                /\ routes' \in {routes, [routes EXCEPT ![op.id] = NoPort]}
      BY <1>1 DEF RemoveRoute, RemoveOk, RemoveFails, Goto, store
    <3>2. /\ op'.pc = "stopProcess" /\ SameTask(op') /\ op'.l = op.l
          /\ op'.compErr \/ routes' = [routes EXCEPT ![op.id] = NoPort]
      BY <1>0, <3>1, GotoEffect, GotoErrorEffect
    <3>3. routes \in [Links -> Ports \union {NoPort}]
      BY <1>0 DEF TypeOK
    <3> QED BY <1>i, <3>1, <3>2, <3>3
  <2>2. InHand' /\ op'.id = op.id
    BY <2>1 DEF InHand, CompensationPCs, SameTask
  <2>3. RouteRecoverable' /\ RowInv' /\ LoopInv'
    BY <1>0, <1>h, <1>i, <2>1, <2>2, LoopKept, RowsKept
       DEF RouteRecoverable, LiveLink, UnusedProcs
  <2>4. FrameInv' /\ RouteInv' /\ PublishInv' /\ HandleInv'
    BY <1>0, <1>h, <1>i, <2>1, <2>2
       DEF FrameInv, RouteInv, PublishInv, HandleInv, LiveLink, UnusedProcs, Alive
  <2> QED BY <2>3, <2>4 DEF Safe, HandInv
<1>2. CASE StopProcess
  <2>1. /\ op.pc = "stopProcess" /\ UNCHANGED <<rows, routes>>
        /\ op'.pc = "returnPort" /\ SameTask(op') /\ op'.l = op.l
        /\ op.compErr => op'.compErr
        /\ op'.compErr \/ ~Alive(op.l.proc)'
        /\ \A q \in Procs : procs'[q] \in {procs[q], "dead"}
    <3>1. /\ UNCHANGED <<rows, routes>> /\ op.pc = "stopProcess"
          /\ procs' \in {procs, Killed(op.l.proc)}
          /\ \/ /\ op' = [op EXCEPT !.pc = "returnPort"]
                /\ (~Alive(op.l.proc) /\ procs' = procs) \/ procs' = Killed(op.l.proc)
             \/ op' = [op EXCEPT !.pc = "returnPort", !.compErr = TRUE]
      BY <1>2 DEF StopProcess, Goto, store
    <3>2. \A q \in Procs : Killed(op.l.proc)[q] \in {procs[q], "dead"}
      BY <1>0 DEF Killed, TypeOK
    <3>3. op.l.proc \in Procs => Killed(op.l.proc)[op.l.proc] = "dead"
      BY <1>0 DEF Killed, TypeOK
    <3>g. /\ op'.pc = "returnPort" /\ SameTask(op') /\ op'.l = op.l
          /\ op.compErr => op'.compErr
          /\ \/ op'.compErr
             \/ (~Alive(op.l.proc) /\ procs' = procs) \/ procs' = Killed(op.l.proc)
      BY <1>0, <3>1, GotoEffect, GotoErrorEffect
    <3>4. op'.compErr \/ ~Alive(op.l.proc)'
      BY <1>0, <3>1, <3>3, <3>g DEF Alive
    <3> QED BY <1>0, <3>1, <3>2, <3>4, <3>g
  <2>2. InHand' /\ op'.id = op.id
    BY <2>1 DEF InHand, CompensationPCs, SameTask
  <2>3. UnusedProcs' \subseteq UnusedProcs /\ \A q : Alive(q)' => Alive(q)
    BY <2>1 DEF UnusedProcs, Alive
  <2>4. RouteRecoverable' /\ RowInv' /\ LoopInv'
    BY <1>0, <1>h, <1>i, <2>1, <2>2, <2>3, LoopKept, RowsKept DEF RouteRecoverable, LiveLink
  <2>5. FrameInv' /\ RouteInv' /\ PublishInv'
    BY <1>0, <1>h, <1>i, <2>1, <2>2 DEF FrameInv, RouteInv, PublishInv, LiveLink
  <2>6. HandleInv'
    BY <1>0, <1>h, <1>i, <2>1, <2>2, <2>3 DEF HandleInv
  <2> QED BY <2>4, <2>5, <2>6 DEF Safe, HandInv
<1>3. CASE ReturnPort
  <2>1. PICK o \in {op, [op EXCEPT !.compErr = TRUE]} :
          /\ op.pc = "returnPort" /\ UNCHANGED <<rows, routes, procs>>
          /\ op' = Compensated(o)
    BY <1>3 DEF ReturnPort, store
  <2>2. /\ ~o.compErr => ~op.compErr
        /\ SameTask(op') /\ op'.l.slot = "live" /\ op'.l.space = rows[op.id].space
        /\ op'.pc \in {"saveFailed", "saveTerminal", "saveCreating"}
        /\ op'.pc = "saveFailed" => op'.l.status = "failed"
        /\ o.compErr => op'.pc = "saveFailed" /\ op'.l.proc = op.l.proc /\ op'.l.port = op.l.port
        /\ ~o.compErr => op'.l.proc = NoProc
    BY <1>0, <1>i, <2>1, CompensatedEffect DEF Operation
  <2>3. InHand' /\ op'.id = op.id
    BY <2>2 DEF InHand, AfterPCs, SameTask
  <2>4. RouteRecoverable' /\ RowInv' /\ LoopInv'
    BY <1>0, <1>h, <1>i, <2>1, <2>2, <2>3, LoopKept, RowsKept DEF RouteRecoverable, LiveLink, UnusedProcs
  <2>5. FrameInv' /\ PublishInv'
    BY <1>0, <1>h, <1>i, <2>1, <2>2, <2>3 DEF FrameInv, PublishInv, LiveLink
  <2>6. RouteInv'
    BY <1>0, <1>h, <1>i, <2>1, <2>2, <2>3 DEF RouteInv
  <2>7. HandleInv'
    BY <1>0, <1>h, <1>i, <2>1, <2>2, <2>3, StoreAssumption DEF HandleInv, UnusedProcs, Alive
  <2> QED BY <2>4, <2>5, <2>6, <2>7 DEF Safe, HandInv
<1>4. CASE SaveFailed
  <2>1. /\ op.pc = "saveFailed" /\ UNCHANGED <<routes, procs>>
        /\ SaveLink(op.id, op.l) \/ UNCHANGED store
        /\ \/ op' = Idle
           \/ op.ret = "shut" /\ op' = [Returned(op) EXCEPT !.err = TRUE]
    BY <1>4 DEF SaveFailed, ReturnError, Abort, world
  <2>2. /\ \A k \in Links \ {op.id} : rows'[k] = rows[k]
        /\ rows'[op.id] \in {rows[op.id], op.l}
    BY <1>0, <1>i, <2>1, SaveEffect DEF store
  <2>3. routes[op.id] # NoPort => /\ op.l.port = rows[op.id].port /\ op.l.proc = rows[op.id].proc
                                  /\ op.l.status = "failed"
    BY <1>0, <1>h, <2>1 DEF RouteInv, PublishInv
  <2>4. RouteRecoverable'
    BY <1>0, <1>i, <2>1, <2>2, <2>3, RoutesKept DEF RouteRecoverable, LiveLink
  <2>5. RowInv'
    BY <1>0, <1>i, <2>1, <2>2, RowsKept DEF HandleInv, UnusedProcs
  <2>6. HandInv' /\ LoopInv'
    <3>1. CASE op' = Idle
      BY <3>1, IdleAgain
    <3>2. CASE op.ret = "shut" /\ op' = [Returned(op) EXCEPT !.err = TRUE]
      <4>1. op'.pc = "shut" /\ op'.l = FreeLink
        BY <1>0, <3>2 DEF Returned, Operation
      <4>2. HandInv'
        BY <4>1, EmptyHand, StoreAssumption DEF LoopPCs, FreeLink, UnusedProcs
      <4> QED BY <1>0, <1>h, <1>i, <2>2, <3>2, <4>2, LoopResumed DEF LoopPCs
    <3> QED BY <2>1, <3>1, <3>2
  <2> QED BY <2>4, <2>5, <2>6 DEF Safe
<1>5. CASE SaveTerminal
  <2>1. /\ op.pc = "saveTerminal" /\ UNCHANGED <<routes, procs>>
        /\ \/ SaveLink(op.id, op.l) /\ op' = [op EXCEPT !.pc = "deleteRow"]
           \/ /\ UNCHANGED rows
              /\ \/ op' = Idle
                 \/ op.ret = "shut" /\ op' = [Returned(op) EXCEPT !.err = TRUE]
    BY <1>5 DEF SaveTerminal, SaveOk, ReturnError, Abort, world, store
  <2>2. /\ \A k \in Links \ {op.id} : rows'[k] = rows[k]
        /\ rows'[op.id] \in {rows[op.id], op.l}
    BY <1>0, <1>i, <2>1, SaveEffect DEF store
  <2>3. routes[op.id] = NoPort /\ op.l.proc = NoProc
    BY <1>0, <1>h, <2>1 DEF RouteInv, HandleInv
  <2>4. RouteRecoverable' /\ RowInv'
    BY <1>0, <1>i, <2>1, <2>2, <2>3, RoutesKept, RowsKept, StoreAssumption DEF UnusedProcs
  <2>5. HandInv' /\ LoopInv'
    <3>1. CASE op' = Idle
      BY <3>1, IdleAgain
    <3>2. CASE op.ret = "shut" /\ op' = [Returned(op) EXCEPT !.err = TRUE]
      <4>1. op'.pc = "shut" /\ op'.l = FreeLink
        BY <1>0, <3>2 DEF Returned, Operation
      <4>2. HandInv'
        BY <4>1, EmptyHand, StoreAssumption DEF LoopPCs, FreeLink, UnusedProcs
      <4> QED BY <1>0, <1>h, <1>i, <2>2, <3>2, <4>2, LoopResumed DEF LoopPCs
    <3>3. CASE SaveLink(op.id, op.l) /\ op' = [op EXCEPT !.pc = "deleteRow"]
      <4>1. op'.pc = "deleteRow" /\ SameTask(op') /\ op'.l = op.l /\ rows'[op.id] = op.l
        BY <1>0, <1>i, <3>3, GotoEffect, SaveEffect
      <4>2. InHand' /\ op'.id = op.id
        BY <4>1 DEF InHand, AfterPCs, SameTask
      <4>3. LoopInv'
        BY <1>0, <1>h, <1>i, <2>2, <4>1, <4>2, LoopKept
      <4>4. HandInv'
        BY <1>i, <2>1, <2>3, <4>1, <4>2, StoreAssumption
           DEF HandInv, FrameInv, RouteInv, PublishInv, HandleInv, LiveLink, UnusedProcs
      <4> QED BY <4>3, <4>4
    <3> QED BY <2>1, <3>1, <3>2, <3>3
  <2> QED BY <2>4, <2>5 DEF Safe
<1>6. CASE DeleteRow
  <2>1. /\ op.pc = "deleteRow" /\ UNCHANGED <<routes, procs>>
        /\ \/ DeleteLink(op.id) /\ op' = Returned(op)
           \/ /\ UNCHANGED rows
              /\ \/ op' = Idle
                 \/ op.ret = "shut" /\ op' = [Returned(op) EXCEPT !.err = TRUE]
    BY <1>6 DEF DeleteRow, ReturnError, Abort, world, store
  <2>2. /\ \A k \in Links \ {op.id} : rows'[k] = rows[k]
        /\ rows'[op.id].proc = rows[op.id].proc
        /\ rows'[op.id] = rows[op.id] \/ (rows'[op.id].slot = "archived" /\ op' = Returned(op))
    BY <1>0, <1>i, <2>1, DeleteEffect
  <2>3. routes[op.id] = NoPort /\ rows[op.id].proc = NoProc
    BY <1>0, <1>h, <2>1 DEF RouteInv, HandleInv
  <2>4. RouteRecoverable' /\ RowInv'
    BY <1>0, <1>i, <2>1, <2>2, <2>3, RoutesKept, RowsKept, StoreAssumption DEF UnusedProcs
  <2>5. HandInv' /\ LoopInv'
    <3>1. CASE op' = Idle
      BY <3>1, IdleAgain
    <3>2. CASE op.ret # "idle" /\ op' \in {Returned(op), [Returned(op) EXCEPT !.err = TRUE]}
      <4>1. op'.pc = op.ret /\ op'.l = FreeLink /\ op.ret \in LoopPCs
        BY <1>0, <3>2 DEF Returned, Operation
      <4>2. HandInv'
        BY <4>1, EmptyHand, StoreAssumption DEF FreeLink, UnusedProcs
      <4>3. op.ret = "shut" \/ rows'[op.id].slot = "archived"
        <5>1. CASE op.ret # "shut"
          <6>1. op' # Idle
            BY <4>1 DEF Idle, LoopPCs
          <6>2. DeleteLink(op.id)
            BY <2>1, <5>1, <6>1
          <6> QED BY <1>0, <1>i, <6>2, DeleteEffect
        <5> QED BY <5>1
      <4> QED BY <1>0, <1>h, <1>i, <2>2, <3>2, <4>1, <4>2, <4>3, LoopResumed
    <3> QED BY <2>1, <3>1, <3>2 DEF Returned
  <2> QED BY <2>4, <2>5 DEF Safe
<1>7. CASE SaveCreating
  <2>1. /\ op.pc = "saveCreating" /\ UNCHANGED <<routes, procs>>
        /\ \/ SaveLink(op.id, op.l) /\ op' = [op EXCEPT !.pc = "allocate"]
           \/ UNCHANGED rows /\ op' = Idle
    BY <1>7 DEF SaveCreating, SaveOk, SaveFails, world, store
  <2>2. /\ \A k \in Links \ {op.id} : rows'[k] = rows[k]
        /\ rows'[op.id] \in {rows[op.id], op.l}
    BY <1>0, <1>i, <2>1, SaveEffect
  <2>3. routes[op.id] = NoPort /\ op.l.proc = NoProc
    BY <1>0, <1>h, <2>1 DEF RouteInv, HandleInv
  <2>4. RouteRecoverable' /\ RowInv'
    BY <1>0, <1>i, <2>1, <2>2, <2>3, RoutesKept, RowsKept, StoreAssumption DEF UnusedProcs
  <2>5. HandInv' /\ LoopInv'
    <3>1. CASE op' = Idle
      BY <3>1, IdleAgain
    <3>2. CASE SaveLink(op.id, op.l) /\ op' = [op EXCEPT !.pc = "allocate"]
      <4>1. op'.pc = "allocate" /\ SameTask(op') /\ op'.l = op.l /\ rows'[op.id] = op.l
        BY <1>0, <1>i, <3>2, GotoEffect, SaveEffect
      <4>2. InHand' /\ op'.id = op.id
        BY <4>1 DEF InHand, StartPCs, SameTask
      <4>3. LoopInv'
        BY <1>0, <1>h, <1>i, <2>2, <4>1, <4>2, LoopKept
      <4>4. HandInv'
        BY <1>i, <2>1, <2>3, <4>1, <4>2, StoreAssumption
           DEF HandInv, FrameInv, RouteInv, PublishInv, HandleInv, LiveLink, UnusedProcs
      <4> QED BY <4>3, <4>4
    <3> QED BY <2>1, <3>1, <3>2
  <2> QED BY <2>4, <2>5 DEF Safe
<1> QED BY <1>1, <1>2, <1>3, <1>4, <1>5, <1>6, <1>7 DEF Compensation

----------------------------------------------------------------------------
(* Start *)

\* A start that fails hands its frame to compensation.
LEMMA FailStartSafe ==
  ASSUME IInv, InHand, UNCHANGED <<rows, procs>>, op' = Compensate(op, "fail"),
         \A k \in Links \ {op.id} : routes'[k] = routes[k],
         routes'[op.id] # NoPort =>
           /\ rows[op.id].status \in {"healthy", "active", "failed"}
           /\ rows[op.id].port = routes'[op.id] /\ rows[op.id].proc # NoProc
           /\ op.l.port = rows[op.id].port /\ op.l.proc = rows[op.id].proc
  PROVE  Safe'
<1>0. /\ op \in Operation /\ LoopInv /\ FrameInv /\ HandleInv /\ RowInv /\ RouteRecoverable
      /\ op.id \in Links /\ LiveLink(op.id)
  BY DEF IInv, Safe, HandInv, FrameInv, TypeOK
<1>1. op'.pc = "removeRoute" /\ SameTask(op') /\ op'.l = op.l
  BY <1>0, FailEffect
<1>2. InHand' /\ op'.id = op.id
  BY <1>1 DEF InHand, CompensationPCs, SameTask
<1>3. UnusedProcs' = UnusedProcs /\ \A q : Alive(q)' = Alive(q)
  BY DEF UnusedProcs, Alive
<1>4. LoopInv'
  BY <1>0, <1>1, <1>2, LoopKept
<1>5. RouteRecoverable' /\ RowInv'
  BY <1>0, <1>3, RoutesKept, RowsKept DEF LiveLink
<1>6. FrameInv' /\ RouteInv' /\ PublishInv'
  BY <1>0, <1>1, <1>2 DEF FrameInv, RouteInv, PublishInv, LiveLink
<1>7. HandleInv'
  BY <1>0, <1>1, <1>2, <1>3 DEF HandleInv
<1> QED BY <1>4, <1>5, <1>6, <1>7 DEF Safe, HandInv

\* The calls of start that do not touch the proxy keep the invariant.
LEMMA StartQuietSafe ==
  ASSUME IInv,
         StartExpired \/ Allocate \/ SaveStarting \/ ReleasePort \/ Spawn
         \/ SaveSpawned \/ CheckHealth \/ SaveHealthy
  PROVE  Safe'
<1>0. /\ TypeOK /\ RouteRecoverable /\ RowInv /\ LoopInv
      /\ FrameInv /\ RouteInv /\ PublishInv /\ HandleInv
      /\ StoreTypeOK /\ op \in Operation /\ op.l \in LinkRow
  BY DEF IInv, Safe, HandInv, TypeOK, Operation
<1>h. /\ op.pc \in {"allocate", "saveStarting", "releasePort", "spawn", "saveSpawned",
                    "checkHealth", "saveHealthy"}
      /\ InHand
  BY DEF StartExpired, Allocate, SaveStarting, ReleasePort, Spawn, SaveSpawned, CheckHealth,
         SaveHealthy, InHand, StartPCs
<1>i. /\ op.id \in Links /\ LiveLink(op.id) /\ rows[op.id] \in LinkRow
      /\ op.l.slot = "live" /\ op.l.space = rows[op.id].space
      /\ routes[op.id] = NoPort /\ NoProc \notin UnusedProcs /\ ~Alive(NoProc)
  BY <1>0, <1>h, StoreAssumption DEF FrameInv, RouteInv, StoreTypeOK, UnusedProcs, Alive
<1>f. ASSUME op' = Compensate(op, "fail"), UNCHANGED <<rows, routes, procs>>
      PROVE  Safe'
  BY <1>h, <1>i, <1>f, FailStartSafe
\* A call that goes on with the link in hand: what is left to show of it.
<1>n. ASSUME UNCHANGED routes, UnusedProcs' \subseteq UnusedProcs,
             \A q : Alive(q)' => Alive(q) \/ (q \in UnusedProcs /\ op.pc = "spawn"),
             \A k \in Links \ {op.id} : rows'[k] = rows[k],
             rows'[op.id] \in {rows[op.id], op'.l},
             SameTask(op'), op'.pc \in StartPCs \ {"allocate", "saveActive", "unroute"},
             op'.l.slot = "live", op'.l.space = op.l.space, op'.l.proc \notin UnusedProcs',
             PublishInv',
             op'.l.proc # rows'[op.id].proc => op'.l.proc = NoProc \/ rows'[op.id].proc = NoProc,
             op'.l.proc # rows'[op.id].proc => \A q : q = rows'[op.id].proc => ~Alive(q)',
             op'.pc \in {"saveStarting", "releasePort", "spawn"}
               => op'.l.proc = NoProc /\ rows'[op.id].proc = NoProc,
             op'.pc = "saveSpawned" => rows'[op.id].proc = NoProc
      PROVE  Safe'
  <2>1. InHand' /\ op'.id = op.id
    BY <1>n DEF InHand, SameTask
  <2>2. RouteRecoverable'
    BY <1>0, <1>i, <1>n, RoutesKept
  <2>3. RowInv'
    BY <1>0, <1>i, <1>n, RowsKept
  <2>4. LoopInv'
    BY <1>0, <1>h, <1>i, <1>n, <2>1, LoopKept
  <2>5. FrameInv' /\ RouteInv'
    BY <1>i, <1>n, <2>1 DEF FrameInv, RouteInv, LiveLink
  <2>6. HandleInv'
    BY <1>n, <2>1 DEF HandleInv, StartPCs
  <2> QED BY <1>n, <2>2, <2>3, <2>4, <2>5, <2>6 DEF Safe, HandInv
<1>1. CASE StartExpired
  <2>1. /\ op.pc = "allocate" /\ UNCHANGED <<routes, procs>> /\ op' = Idle
        /\ DeleteLink(op.id) \/ UNCHANGED rows
    BY <1>1 DEF StartExpired, world, store
  <2>2. /\ \A k \in Links \ {op.id} : rows'[k] = rows[k]
        /\ rows'[op.id] = rows[op.id] \/ (rows'[op.id].slot = "archived" /\ rows'[op.id].proc = NoProc)
    BY <1>0, <1>i, <2>1, DeleteEffect DEF HandleInv
  <2>3. RouteRecoverable' /\ RowInv'
    BY <1>0, <1>i, <2>1, <2>2, RoutesKept, RowsKept DEF UnusedProcs
  <2> QED BY <2>1, <2>3, IdleAgain DEF Safe
<1>2. CASE Allocate
  <2>1. /\ op.pc = "allocate" /\ UNCHANGED <<rows, routes, procs>>
        /\ \/ op' = Compensate(op, "fail")
           \/ \E p : op' = [op EXCEPT !.pc = "saveStarting", !.l.port = p, !.l.status = "starting"]
    BY <1>2 DEF Allocate, FailStart, store
  <2>2. ASSUME NEW p, op' = [op EXCEPT !.pc = "saveStarting", !.l.port = p, !.l.status = "starting"]
        PROVE  /\ op'.pc = "saveStarting" /\ SameTask(op') /\ op'.l.slot = op.l.slot
               /\ op'.l.space = op.l.space /\ op'.l.proc = op.l.proc
    BY <1>0, <2>2 DEF Operation, SameTask, LinkRow
  <2>3. CASE \E p : op' = [op EXCEPT !.pc = "saveStarting", !.l.port = p, !.l.status = "starting"]
    <3>1. /\ op'.pc = "saveStarting" /\ SameTask(op') /\ op'.l.slot = op.l.slot
          /\ op'.l.space = op.l.space /\ op'.l.proc = op.l.proc
      BY <2>2, <2>3
    <3>2. PublishInv' /\ op.l.proc = NoProc /\ rows[op.id].proc = NoProc
      BY <1>0, <2>1, <3>1 DEF PublishInv, HandleInv
    <3>3. UnusedProcs' = UnusedProcs /\ \A q : Alive(q)' = Alive(q)
      BY <2>1 DEF UnusedProcs, Alive
    <3> QED BY <1>i, <1>n, <2>1, <3>1, <3>2, <3>3 DEF StartPCs
  <2> QED BY <1>f, <2>1, <2>3
<1>3. CASE SaveStarting \/ SaveHealthy
  <2>1. /\ UNCHANGED <<routes, procs>>
        /\ \/ UNCHANGED rows /\ op' = Compensate(op, "fail")
           \/ /\ SaveLink(op.id, op.l)
              /\ \/ op.pc = "saveStarting" /\ op' = [op EXCEPT !.pc = "releasePort"]
                 \/ op.pc = "saveHealthy" /\ op' = [op EXCEPT !.pc = "addRoute"]
    BY <1>3 DEF SaveStarting, SaveHealthy, SaveOk, FailStart, world, store
  <2>2. CASE SaveLink(op.id, op.l) /\ op'.l = op.l /\ SameTask(op')
             /\ (\/ op.pc = "saveStarting" /\ op'.pc = "releasePort"
                 \/ op.pc = "saveHealthy" /\ op'.pc = "addRoute")
    <3>1. rows'[op.id] = op.l /\ \A k \in Links \ {op.id} : rows'[k] = rows[k]
      BY <1>0, <1>i, <2>2, SaveEffect
    <3>2. PublishInv'
      BY <1>0, <2>2, <3>1 DEF PublishInv, SameTask
    <3>3. UnusedProcs' = UnusedProcs /\ \A q : Alive(q)' = Alive(q)
      BY <2>1 DEF UnusedProcs, Alive
    <3>4. op.l.proc \notin UnusedProcs /\ (op.pc = "saveStarting" => op.l.proc = NoProc)
      BY <1>0 DEF HandleInv
    <3> QED BY <1>i, <1>n, <2>1, <2>2, <3>1, <3>2, <3>3, <3>4 DEF StartPCs
  <2> QED BY <1>0, <1>f, <2>1, <2>2, GotoEffect
<1>4. CASE ReleasePort
  <2>1. /\ op.pc = "releasePort" /\ UNCHANGED <<rows, routes, procs>>
        /\ \/ op' = Compensate(op, "fail")
           \/ op' = [op EXCEPT !.pc = "spawn"]
    BY <1>4 DEF ReleasePort, FailStart, Goto, store
  <2>2. CASE op' = [op EXCEPT !.pc = "spawn"]
    <3>1. op'.pc = "spawn" /\ SameTask(op') /\ op'.l = op.l
      BY <1>0, <2>2, GotoEffect
    <3>2. PublishInv' /\ op.l.proc = NoProc /\ rows[op.id].proc = NoProc
      BY <1>0, <2>1, <3>1 DEF PublishInv, HandleInv
    <3>3. UnusedProcs' = UnusedProcs /\ \A q : Alive(q)' = Alive(q)
      BY <2>1 DEF UnusedProcs, Alive
    <3> QED BY <1>i, <1>n, <2>1, <3>1, <3>2, <3>3 DEF StartPCs
  <2> QED BY <1>f, <2>1, <2>2
<1>5. CASE Spawn
  <2>1. /\ op.pc = "spawn" /\ UNCHANGED <<rows, routes>>
        /\ \/ UNCHANGED procs /\ op' = Compensate(op, "fail")
           \/ \E q \in UnusedProcs :
                /\ procs' = [procs EXCEPT ![q] = "alive"]
                /\ op' = [op EXCEPT !.pc = "saveSpawned", !.l.proc = q]
    BY <1>5 DEF Spawn, FailStart, store
  <2>2. ASSUME NEW q \in UnusedProcs,
               procs' = [procs EXCEPT ![q] = "alive"],
               op' = [op EXCEPT !.pc = "saveSpawned", !.l.proc = q]
        PROVE  Safe'
    <3>1. /\ op'.pc = "saveSpawned" /\ SameTask(op') /\ op'.l.slot = op.l.slot
          /\ op'.l.space = op.l.space /\ op'.l.proc = q
      BY <1>0, <2>2 DEF Operation, SameTask, LinkRow
    <3>2. procs \in [Procs -> {"unused", "alive", "dead"}]
      BY <1>0 DEF TypeOK
    <3>3. /\ q \in Procs /\ procs'[q] = "alive"
          /\ \A r \in Procs \ {q} : procs'[r] = procs[r]
      BY <2>2, <3>2 DEF UnusedProcs
    <3>4. /\ UnusedProcs' \subseteq UnusedProcs \ {q}
          /\ \A r : Alive(r)' => Alive(r) \/ r \in UnusedProcs
      BY <2>2, <3>2, <3>3 DEF UnusedProcs, Alive
    <3>5. q # NoProc /\ rows[op.id].proc = NoProc
      BY <1>0, <2>1, <3>3, StoreAssumption DEF HandleInv
    <3>6. PublishInv'
      BY <3>1, <3>5 DEF PublishInv
    <3>7. \A r : r = rows'[op.id].proc => ~Alive(r)'
      BY <2>1, <3>5, StoreAssumption DEF Alive
    <3> QED BY <1>i, <1>n, <2>1, <3>1, <3>4, <3>5, <3>6, <3>7 DEF StartPCs
  <2> QED BY <1>f, <2>1, <2>2
<1>6. CASE SaveSpawned
  <2>1. /\ op.pc = "saveSpawned" /\ UNCHANGED <<routes, procs>>
        /\ \/ UNCHANGED rows /\ op' = Compensate(op, "fail")
           \/ SaveLink(op.id, op.l) /\ op' = [op EXCEPT !.pc = "checkHealth", !.l = Substituted(op.l)]
    BY <1>6 DEF SaveSpawned, SaveOk, FailStart, world, store
  <2>2. CASE SaveLink(op.id, op.l) /\ op' = [op EXCEPT !.pc = "checkHealth", !.l = Substituted(op.l)]
    <3>1. op'.pc = "checkHealth" /\ SameTask(op') /\ op'.l = Substituted(op.l)
      BY <1>0, <2>2 DEF Operation, SameTask
    <3>2. /\ op'.l.slot = op.l.slot /\ op'.l.space = op.l.space /\ op'.l.proc = op.l.proc
      BY <1>0, <3>1 DEF Substituted, LinkRow
    <3>3. rows'[op.id] = op.l /\ \A k \in Links \ {op.id} : rows'[k] = rows[k]
      BY <1>0, <1>i, <2>2, SaveEffect
    <3>4. PublishInv' /\ op.l.proc \notin UnusedProcs
      BY <1>0, <2>1, <3>1, <3>2 DEF PublishInv, HandleInv
    <3>5. UnusedProcs' = UnusedProcs /\ \A q : Alive(q)' = Alive(q)
      BY <2>1 DEF UnusedProcs, Alive
    <3>6. RouteRecoverable' /\ RowInv'
      BY <1>0, <1>i, <2>1, <3>3, <3>4, <3>5, RoutesKept, RowsKept
    <3>7. InHand' /\ op'.id = op.id
      BY <3>1 DEF InHand, StartPCs, SameTask
    <3>8. LoopInv'
      BY <1>0, <1>h, <1>i, <3>1, <3>3, <3>7, LoopKept
    <3>9. FrameInv' /\ RouteInv' /\ HandleInv'
      BY <1>i, <2>1, <3>1, <3>2, <3>3, <3>4, <3>5, <3>7 DEF FrameInv, RouteInv, HandleInv, LiveLink
    <3> QED BY <3>4, <3>6, <3>8, <3>9 DEF Safe, HandInv
  <2> QED BY <1>f, <2>1, <2>2
<1>7. CASE CheckHealth
  <2>1. /\ op.pc = "checkHealth" /\ UNCHANGED <<rows, routes, procs>>
        /\ \/ op' = Compensate(op, "fail")
           \/ op' = [op EXCEPT !.pc = "saveHealthy", !.l.status = "healthy"]
    BY <1>7 DEF CheckHealth, FailStart, world, store
  <2>2. CASE op' = [op EXCEPT !.pc = "saveHealthy", !.l.status = "healthy"]
    <3>1. /\ op'.pc = "saveHealthy" /\ SameTask(op') /\ op'.l.slot = op.l.slot
          /\ op'.l.space = op.l.space /\ op'.l.proc = op.l.proc /\ op'.l.status = "healthy"
      BY <1>0, <2>2 DEF Operation, SameTask, LinkRow
    <3>2. /\ PublishInv' /\ op.l.proc \notin UnusedProcs
          /\ op.l.proc # rows[op.id].proc => /\ ~Alive(rows[op.id].proc)
                                             /\ op.l.proc = NoProc \/ rows[op.id].proc = NoProc
      BY <1>0, <1>h, <2>1, <3>1 DEF PublishInv, HandleInv
    <3>3. UnusedProcs' = UnusedProcs /\ \A q : Alive(q)' = Alive(q)
      BY <2>1 DEF UnusedProcs, Alive
    <3> QED BY <1>i, <1>n, <2>1, <3>1, <3>2, <3>3 DEF StartPCs
  <2> QED BY <1>f, <2>1, <2>2
<1> QED BY <1>1, <1>2, <1>3, <1>4, <1>5, <1>6, <1>7

\* The calls of start that publish keep the invariant.
LEMMA PublishSafe ==
  ASSUME IInv, AddRoute \/ SaveActive \/ Unroute
  PROVE  Safe'
<1>0. /\ TypeOK /\ RouteRecoverable /\ RowInv /\ LoopInv
      /\ FrameInv /\ RouteInv /\ PublishInv /\ HandleInv
      /\ StoreTypeOK /\ op \in Operation /\ op.l \in LinkRow
  BY DEF IInv, Safe, HandInv, TypeOK, Operation
<1>h. op.pc \in {"addRoute", "saveActive", "unroute"} /\ InHand
  BY DEF AddRoute, SaveActive, Unroute, InHand, StartPCs
<1>i. /\ op.id \in Links /\ LiveLink(op.id)
      /\ op.l.slot = "live" /\ op.l.space = rows[op.id].space
      /\ op.l.proc # NoProc /\ op.l.proc \notin UnusedProcs
      /\ rows[op.id].status \in {"healthy", "active"}
      /\ rows[op.id].port = op.l.port /\ rows[op.id].proc = op.l.proc
      /\ routes \in [Links -> Ports \union {NoPort}]
  BY <1>0, <1>h DEF FrameInv, PublishInv, HandleInv, TypeOK
<1>f. ASSUME op' = Compensate(op, "fail"), UNCHANGED <<rows, procs>>,
             routes' \in {routes, [routes EXCEPT ![op.id] = op.l.port], [routes EXCEPT ![op.id] = NoPort]}
      PROVE  Safe'
  <2>1. \A k \in Links \ {op.id} : routes'[k] = routes[k]
    BY <1>i, <1>f
  <2>2. routes'[op.id] \in {routes[op.id], op.l.port, NoPort}
    BY <1>i, <1>f
  <2> QED BY <1>0, <1>h, <1>i, <1>f, <2>1, <2>2, FailStartSafe DEF RouteRecoverable
<1>1. CASE AddRoute
  <2>1. /\ UNCHANGED <<rows, procs>>
        /\ \/ op' = Compensate(op, "fail") /\ routes' \in {routes, [routes EXCEPT ![op.id] = op.l.port]}
           \/ /\ op' = [op EXCEPT !.pc = "saveActive", !.l.status = "active"]
              /\ routes' = [routes EXCEPT ![op.id] = op.l.port]
    BY <1>1 DEF AddRoute, FailStart, store
  <2>2. CASE /\ op' = [op EXCEPT !.pc = "saveActive", !.l.status = "active"]
             /\ routes' = [routes EXCEPT ![op.id] = op.l.port]
    <3>1. /\ op'.pc = "saveActive" /\ SameTask(op') /\ op'.l.slot = op.l.slot
          /\ op'.l.space = op.l.space /\ op'.l.proc = op.l.proc /\ op'.l.port = op.l.port
          /\ op'.l.status = "active"
      BY <1>0, <2>2 DEF Operation, SameTask, LinkRow
    <3>2. InHand' /\ op'.id = op.id
      BY <3>1 DEF InHand, StartPCs, SameTask
    <3>3. RouteRecoverable' /\ RowInv' /\ LoopInv'
      <4>1. /\ \A k \in Links \ {op.id} : rows'[k] = rows[k] /\ routes'[k] = routes[k]
            /\ routes'[op.id] = op.l.port
        BY <1>i, <2>1, <2>2
      <4>2. RouteRecoverable'
        BY <1>0, <1>i, <2>1, <4>1, RoutesKept DEF LiveLink
      <4>3. RowInv'
        BY <1>0, <2>1 DEF RowInv, UnusedProcs
      <4> QED BY <1>0, <1>h, <1>i, <3>1, <3>2, <4>1, <4>2, <4>3, LoopKept
    <3>4. FrameInv' /\ RouteInv' /\ PublishInv' /\ HandleInv'
      BY <1>i, <2>1, <3>1, <3>2 DEF FrameInv, RouteInv, PublishInv, HandleInv, LiveLink, UnusedProcs
    <3> QED BY <3>3, <3>4 DEF Safe, HandInv
  <2> QED BY <1>f, <2>1, <2>2
<1>2. CASE SaveActive
  <2>1. /\ op.pc = "saveActive" /\ UNCHANGED <<routes, procs>>
        /\ SaveLink(op.id, op.l) \/ UNCHANGED rows
        /\ op' \in {Idle, [op EXCEPT !.pc = "unroute"]}
    BY <1>2 DEF SaveActive, SaveOk, Goto, world, store
  <2>2. /\ \A k \in Links \ {op.id} : rows'[k] = rows[k]
        /\ rows'[op.id] \in {rows[op.id], op.l} /\ op.l.status = "active"
    BY <1>0, <1>i, <2>1, SaveEffect DEF PublishInv
  <2>3. RouteRecoverable' /\ RowInv'
    <3>1. routes'[op.id] # NoPort => routes'[op.id] = op.l.port
      BY <1>0, <1>h, <1>i, <2>1 DEF RouteInv, RouteRecoverable
    <3>2. RouteRecoverable'
      BY <1>0, <1>i, <2>1, <2>2, <3>1, RoutesKept DEF LiveLink
    <3> QED BY <1>0, <1>i, <2>1, <2>2, <3>2, RowsKept DEF UnusedProcs
  <2>4. CASE op' = [op EXCEPT !.pc = "unroute"]
    <3>1. op'.pc = "unroute" /\ SameTask(op') /\ op'.l = op.l
      BY <1>0, <2>4, GotoEffect
    <3>2. InHand' /\ op'.id = op.id
      BY <3>1 DEF InHand, StartPCs, SameTask
    <3>3. LoopInv'
      BY <1>0, <1>h, <1>i, <2>2, <3>1, <3>2, LoopKept
    <3>4. FrameInv' /\ RouteInv' /\ PublishInv' /\ HandleInv'
      BY <1>i, <2>1, <2>2, <3>1, <3>2 DEF FrameInv, RouteInv, PublishInv, HandleInv, LiveLink, UnusedProcs
    <3> QED BY <2>3, <3>3, <3>4 DEF Safe, HandInv
  <2> QED BY <2>1, <2>3, <2>4, IdleAgain DEF Safe
<1>3. CASE Unroute
  <2>1. /\ UNCHANGED <<rows, procs>> /\ op' = Compensate(op, "fail")
        /\ routes' \in {routes, [routes EXCEPT ![op.id] = NoPort]}
    BY <1>3 DEF Unroute, RemoveOk, RemoveFails, FailStart, store
  <2> QED BY <1>f, <2>1
<1> QED BY <1>1, <1>2, <1>3

----------------------------------------------------------------------------
(* Requests, loops and the world *)

\* A loop takes a link of its snapshot in hand and leaves the others.
LEMMA VisitSafe ==
  ASSUME IInv, NEW k \in op.todo, NEW term, NEW ret \in LoopPCs, op.pc = ret,
         op' = Destroy(Visiting(k), k, term, ret), UNCHANGED <<rows, procs, routes>>
  PROVE  Safe'
<1>0. /\ TypeOK /\ RouteRecoverable /\ RowInv /\ LoopInv /\ op \in Operation
      /\ k \in Links /\ LiveLink(k)
  BY DEF IInv, Safe, TypeOK, LoopInv
<1>1. /\ Visiting(k) \in Operation /\ Visiting(k).todo = op.todo \ {k}
      /\ Visiting(k).desired = op.desired /\ Visiting(k).space = op.space
  BY <1>0 DEF Visiting, Operation
<1>2. /\ op'.pc = "removeRoute" /\ op'.id = k /\ op'.l = rows[k] /\ op'.ret = ret
      /\ op'.todo = op.todo \ {k} /\ op'.desired = op.desired /\ op'.space = op.space
  BY <1>1, DestroyEffect
<1>3. RouteRecoverable' /\ RowInv' /\ InHand' /\ HandInv'
  BY <1>0, <1>2, TakenInHand
<1>4. Loop' = ret /\ Loop = ret /\ ~InHand
  BY <1>2, <1>3 DEF Loop, InHand, LoopPCs, StartPCs, CompensationPCs, AfterPCs
<1>5. LoopInv'
  BY <1>0, <1>2, <1>3, <1>4 DEF LoopInv, LiveLink, Recorded, ListLinks
<1> QED BY <1>3, <1>5 DEF Safe

\* The requests keep the invariant.
LEMMA RequestSafe ==
  ASSUME IInv, Requests
  PROVE  Safe'
<1>0. /\ TypeOK /\ RouteRecoverable /\ RowInv /\ HandInv /\ LoopInv
      /\ FrameInv /\ RouteInv /\ PublishInv /\ HandleInv
      /\ StoreTypeOK /\ op \in Operation /\ Request \in Operation
  BY FreshTypes DEF IInv, Safe, HandInv, TypeOK
<1>r. Request.todo = {} /\ Request.desired = {} /\ Request.space = NoSpace /\ Request.ret = "idle"
      /\ Request.l = FreeLink
  BY DEF Request, Idle
<1>t. ASSUME NEW k \in Links, LiveLink(k), UNCHANGED <<rows, procs, routes>>,
             op'.pc = "removeRoute", op'.id = k, op'.l = rows[k], op'.ret = "idle",
             op'.todo = {}, op'.desired = {}
      PROVE  Safe'
  <2>1. RouteRecoverable' /\ RowInv' /\ InHand' /\ HandInv'
    BY <1>0, <1>t, TakenInHand
  <2>2. LoopInv'
    BY <1>t, <2>1 DEF LoopInv, Loop
  <2> QED BY <2>1, <2>2 DEF Safe
<1>1. ASSUME NEW s \in Spaces, CreateSpace(s)
      PROVE  Safe'
  <2>1. UNCHANGED <<rows, procs, routes, op>>
    BY <1>1 DEF CreateSpace, InsertSpace, world
  <2> QED BY <1>0, <2>1 DEF Safe, HandInv, RouteRecoverable, RowInv, FrameInv, RouteInv, PublishInv,
          HandleInv, LoopInv, LiveLink, Recorded, UnusedProcs, Alive, InHand, Loop, ListLinks
<1>2. ASSUME NEW s \in Spaces, RequestDrop(s)
      PROVE  Safe'
  <2>1. /\ UNCHANGED <<rows, procs, routes>>
        /\ op' = [Request EXCEPT !.pc = "drop", !.space = s, !.todo = ListLinks(s)]
    BY <1>2 DEF RequestDrop, world, store
  <2>2. /\ op'.pc = "drop" /\ op'.space = s /\ op'.todo = ListLinks(s) /\ op'.desired = {}
        /\ op'.l = FreeLink
    BY <1>0, <1>r, <2>1 DEF Operation
  <2>3. ~InHand' /\ HandInv'
    BY <2>2, EmptyHand, StoreAssumption DEF LoopPCs, FreeLink, UnusedProcs
  <2>4. LoopInv'
    BY <2>1, <2>2, <2>3 DEF LoopInv, Loop, ListLinks, LiveLink
  <2>5. RouteRecoverable' /\ RowInv'
    BY <1>0, <2>1 DEF RouteRecoverable, RowInv, LiveLink, UnusedProcs
  <2> QED BY <2>3, <2>4, <2>5 DEF Safe
<1>3. ASSUME NEW k \in Links, NEW s \in Spaces, CreateLink(k, s)
      PROVE  Safe'
  <2>1. /\ UNCHANGED <<procs, routes>> /\ rows[k].slot = "free"
        /\ \E e, u : /\ InsertLink(k, [FreeLink EXCEPT !.slot = "live", !.space = s,
                                                     !.probe = u, !.exp = e])
                     /\ op' = [Request EXCEPT !.pc = "allocate", !.id = k,
                                 !.l = [FreeLink EXCEPT !.slot = "live", !.space = s,
                                                        !.probe = u, !.exp = e]]
    BY <1>3 DEF CreateLink, world
  <2>2. PICK l : /\ l.slot = "live" /\ l.space = s /\ l.proc = NoProc /\ InsertLink(k, l)
                 /\ op' = [Request EXCEPT !.pc = "allocate", !.id = k, !.l = l]
    BY <2>1 DEF FreeLink
  <2>3. /\ op'.pc = "allocate" /\ op'.id = k /\ op'.l = l /\ op'.todo = {} /\ op'.desired = {}
        /\ op'.ret = "idle"
    BY <1>0, <1>r, <2>2 DEF Operation
  <2>4. /\ rows'[k] = l /\ \A j \in Links \ {k} : rows'[j] = rows[j]
        /\ routes[k] = NoPort /\ NoProc \notin UnusedProcs
    BY <1>0, <2>1, <2>2, StoreAssumption
       DEF InsertLink, StoreTypeOK, RouteRecoverable, LiveLink, UnusedProcs
  <2>5. InHand'
    BY <2>3 DEF InHand, StartPCs
  <2>6. RouteRecoverable' /\ RowInv'
    BY <1>0, <2>1, <2>2, <2>4 DEF RouteRecoverable, RowInv, LiveLink, UnusedProcs
  <2>7. HandInv' /\ LoopInv'
    BY <2>1, <2>2, <2>3, <2>4, <2>5
       DEF HandInv, FrameInv, RouteInv, PublishInv, HandleInv, LoopInv, Loop, LiveLink, UnusedProcs
  <2> QED BY <2>6, <2>7 DEF Safe
<1>4. ASSUME NEW k \in Links, RequestDelete(k) \/ RequestRestart(k)
      PROVE  Safe'
  <2>1. /\ UNCHANGED <<rows, procs, routes>> /\ LiveLink(k)
        /\ op' \in {Destroy(Request, k, "deleted", "idle"), Destroy(Request, k, "expired", "idle"),
                    Compensate([Request EXCEPT !.id = k, !.l = rows[k]], "restart")}
    BY <1>4 DEF RequestDelete, RequestRestart, Reachable, world, store
  <2>2. LET o == Compensate([Request EXCEPT !.id = k, !.l = rows[k]], "restart") IN
          /\ o.pc = "removeRoute" /\ o.id = k /\ o.l = rows[k] /\ o.ret = "idle"
          /\ o.todo = {} /\ o.desired = {}
    BY <1>0, <1>r DEF Compensate, Operation
  <2>3. /\ op'.pc = "removeRoute" /\ op'.id = k /\ op'.l = rows[k] /\ op'.ret = "idle"
        /\ op'.todo = {} /\ op'.desired = {}
    BY <1>0, <1>r, <2>1, <2>2, DestroyEffect
  <2> QED BY <1>t, <2>1, <2>3
<1> QED BY <1>1, <1>2, <1>3, <1>4 DEF Requests

\* The loops of a forced deletion, of a pass and of Shutdown keep the invariant.
LEMMA LoopSafe ==
  ASSUME IInv, DropSpace \/ Reconcile \/ Shutdown
  PROVE  Safe'
<1>0. /\ TypeOK /\ RouteRecoverable /\ RowInv /\ HandInv /\ LoopInv
      /\ FrameInv /\ RouteInv /\ PublishInv /\ HandleInv
      /\ StoreTypeOK /\ op \in Operation
  BY DEF IInv, Safe, HandInv, TypeOK
<1>h. /\ op.pc \in LoopPCs /\ ~InHand /\ Loop = op.pc
      /\ op.l.proc \notin UnusedProcs
  BY <1>0 DEF DropSpace, PurgeSpace, DestroyLinks, Reconcile, SweepLinks, SweepSpaces, Inspect,
     ApplyRoutes, Shutdown, Loop, InHand, LoopPCs, StartPCs, CompensationPCs, AfterPCs, HandleInv
<1>g. ASSUME UNCHANGED <<rows, procs>>, op' = Idle, RouteRecoverable'
      PROVE  Safe'
  BY <1>0, <1>g, IdleAgain DEF Safe, RowInv, UnusedProcs
<1>k. UNCHANGED <<rows, routes>> => RouteRecoverable'
  BY <1>0 DEF RouteRecoverable, LiveLink
<1>1. ASSUME NEW pc \in {"drop", "purge"}, NEW term, NEW after, DestroyLinks(pc, term, after),
             after = Idle \/ after = [op EXCEPT !.pc = "spaces", !.space = NoSpace]
      PROVE  Safe'
  <2>1. /\ UNCHANGED <<procs, routes>> /\ op.pc = pc
        /\ \/ (\E k \in op.todo : op' = Destroy(Visiting(k), k, term, pc)) /\ UNCHANGED rows
           \/ op.todo = {} /\ DeleteSpace(op.space) /\ op' = after
           \/ op' = Idle /\ UNCHANGED rows
    BY <1>1 DEF DestroyLinks, QueryFails, Abort, store, world
  <2>2. CASE op.todo = {} /\ DeleteSpace(op.space) /\ op' = after
    <3>1. rows' = rows
      <4>1. ListLinks(op.space) = {}
        BY <1>0, <1>h, <2>1, <2>2 DEF LoopInv, ListLinks
      <4> QED BY <1>0, <2>2, <4>1 DEF DeleteSpace, StoreTypeOK
    <3>2. CASE op' = [op EXCEPT !.pc = "spaces", !.space = NoSpace]
      <4>1. op'.pc = "spaces" /\ op'.l = op.l /\ op'.todo = {} /\ op'.desired = op.desired
        BY <1>0, <2>2, <3>2 DEF Operation
      <4>2. ~InHand' /\ HandInv'
        BY <1>h, <2>1, <4>1, EmptyHand DEF LoopPCs, UnusedProcs
      <4>3. op.desired = {}
        BY <1>0, <1>h, <2>1 DEF LoopInv
      <4>4. LoopInv'
        BY <4>1, <4>2, <4>3 DEF LoopInv, Loop
      <4> QED BY <1>0, <1>k, <2>1, <3>1, <4>2, <4>4 DEF Safe, RowInv, UnusedProcs
    <3> QED BY <1>1, <1>g, <1>k, <2>1, <2>2, <3>1, <3>2
  <2> QED BY <1>g, <1>h, <1>k, <2>1, <2>2, VisitSafe
<1>2. CASE DropSpace \/ PurgeSpace
  BY <1>1, <1>2 DEF DropSpace, PurgeSpace
<1>3. CASE SweepLinks
  <2>1. /\ UNCHANGED <<rows, procs, routes>> /\ op.pc = "expired"
        /\ \/ \E k \in op.todo : op' = Destroy(Visiting(k), k, "expired", "expired")
           \/ op' = Idle
           \/ op.todo = {} /\ op' = [op EXCEPT !.pc = "spaces"]
    BY <1>3 DEF SweepLinks, QueryFails, Abort, Goto, store, world
  <2>2. CASE op.todo = {} /\ op' = [op EXCEPT !.pc = "spaces"]
    <3>1. op'.pc = "spaces" /\ op'.l = op.l /\ op'.todo = {} /\ op'.desired = op.desired
      BY <1>0, <2>2 DEF Operation
    <3>2. ~InHand' /\ HandInv'
      BY <1>h, <2>1, <3>1, EmptyHand DEF LoopPCs, UnusedProcs
    <3>3. op.desired = {}
      BY <1>0, <1>h, <2>1 DEF LoopInv
    <3>4. LoopInv'
      BY <3>1, <3>2, <3>3 DEF LoopInv, Loop
    <3> QED BY <1>0, <1>k, <2>1, <3>2, <3>4 DEF Safe, RowInv, UnusedProcs
  <2> QED BY <1>g, <1>h, <1>k, <2>1, <2>2, VisitSafe
<1>4. CASE SweepSpaces
  <2>1. /\ UNCHANGED <<rows, procs, routes>> /\ op.pc = "spaces"
        /\ \/ op' = Idle
           \/ \E s \in Spaces : op' = [op EXCEPT !.pc = "purge", !.space = s, !.todo = ListLinks(s)]
           \/ op' = [op EXCEPT !.pc = "inspect", !.asOf = now, !.ended = EndedProcs,
                        !.todo = ReconciliationLinks(now)]
    BY <1>4 DEF SweepSpaces, QueryFails, Abort, ExpiredSpaces, store, world
  <2>2. op.desired = {}
    BY <1>0, <1>h, <2>1 DEF LoopInv
  <2>3. CASE \E s \in Spaces : op' = [op EXCEPT !.pc = "purge", !.space = s, !.todo = ListLinks(s)]
    <3>1. PICK s : op' = [op EXCEPT !.pc = "purge", !.space = s, !.todo = ListLinks(s)]
      BY <2>3
    <3>2. /\ op'.pc = "purge" /\ op'.l = op.l /\ op'.todo = ListLinks(s) /\ op'.space = s
          /\ op'.desired = {}
      BY <1>0, <2>2, <3>1 DEF Operation
    <3>3. ~InHand' /\ HandInv'
      BY <1>h, <2>1, <3>2, EmptyHand DEF LoopPCs, UnusedProcs
    <3>4. LoopInv'
      BY <2>1, <3>2, <3>3 DEF LoopInv, Loop, ListLinks, LiveLink
    <3> QED BY <1>0, <1>k, <2>1, <3>3, <3>4 DEF Safe, RowInv, UnusedProcs
  <2>4. CASE op' = [op EXCEPT !.pc = "inspect", !.asOf = now, !.ended = EndedProcs,
                       !.todo = ReconciliationLinks(now)]
    <3>1. /\ op'.pc = "inspect" /\ op'.l = op.l /\ op'.todo = ReconciliationLinks(now)
          /\ op'.desired = {}
      BY <1>0, <2>2, <2>4 DEF Operation
    <3>2. ~InHand' /\ HandInv'
      BY <1>h, <2>1, <3>1, EmptyHand DEF LoopPCs, UnusedProcs
    <3>3. LoopInv'
      BY <2>1, <3>1, <3>2 DEF LoopInv, Loop, ReconciliationLinks, LiveLink
    <3> QED BY <1>0, <1>k, <2>1, <3>2, <3>3 DEF Safe, RowInv, UnusedProcs
  <2> QED BY <1>g, <1>k, <2>1, <2>3, <2>4
<1>5. CASE Inspect
  <2>1. /\ UNCHANGED <<rows, procs, routes>> /\ op.pc = "inspect"
        /\ \E k \in op.todo :
             \/ Recorded(k) /\ op' = [Visiting(k) EXCEPT !.desired = @ \union {k}]
             \/ op' = Destroy(Visiting(k), k, "failed", "inspect")
             \/ op' = Destroy(Visiting(k), k, "expired", "inspect")
    BY <1>5 DEF Inspect, MayKeep, store, world
  <2>2. ASSUME NEW k \in op.todo, Recorded(k), op' = [Visiting(k) EXCEPT !.desired = @ \union {k}]
        PROVE  Safe'
    <3>1. Visiting(k) \in Operation /\ Visiting(k).pc = op.pc /\ Visiting(k).l = op.l
          /\ Visiting(k).todo = op.todo \ {k} /\ Visiting(k).desired = op.desired
      BY <1>0 DEF Visiting, Operation
    <3>2. /\ op'.pc = "inspect" /\ op'.l = op.l /\ op'.todo = op.todo \ {k}
          /\ op'.desired = op.desired \union {k}
      BY <2>1, <2>2, <3>1 DEF Operation
    <3>3. ~InHand' /\ HandInv'
      BY <1>h, <2>1, <3>2, EmptyHand DEF LoopPCs, UnusedProcs
    <3>4. LoopInv'
      BY <1>0, <2>1, <2>2, <3>2, <3>3 DEF LoopInv, Loop, LiveLink, Recorded
    <3> QED BY <1>0, <1>k, <2>1, <3>3, <3>4 DEF Safe, RowInv, UnusedProcs
  <2> QED BY <1>h, <2>1, <2>2, VisitSafe
<1>6. CASE ApplyRoutes
  <2>1. /\ UNCHANGED <<rows, procs>> /\ op' = Idle
        /\ routes' = Desired(op.desired) \/ routes' \in Between(routes, Desired(op.desired))
    BY <1>6 DEF ApplyRoutes, QueryFails, Abort, store
  <2>2. \A k \in Links : routes'[k] \in {routes[k], Desired(op.desired)[k]}
    BY <2>1 DEF Between, Desired
  <2>3. \A k \in Links : Desired(op.desired)[k] # NoPort =>
           k \in op.desired /\ Desired(op.desired)[k] = rows[k].port
    BY DEF Desired
  <2>4. RouteRecoverable'
    BY <1>0, <2>1, <2>2, <2>3 DEF RouteRecoverable, LoopInv, LiveLink, Recorded
  <2> QED BY <1>g, <2>1, <2>4
<1>7. CASE Shutdown
  <2>1. /\ UNCHANGED <<rows, procs>> /\ op.pc = "shut"
        /\ \/ UNCHANGED routes /\ \E k \in op.todo : op' = Destroy(Visiting(k), k, "deleted", "shut")
           \/ op' = Idle /\ (routes' = Unrouted \/ routes' \in Between(routes, Unrouted))
    BY <1>7 DEF Shutdown, store
  <2>2. CASE op' = Idle /\ (routes' = Unrouted \/ routes' \in Between(routes, Unrouted))
    <3>1. \A k \in Links : routes'[k] \in {routes[k], NoPort}
      BY <2>2 DEF Between, Unrouted
    <3>2. RouteRecoverable'
      BY <1>0, <2>1, <3>1 DEF RouteRecoverable, LiveLink
    <3> QED BY <1>g, <2>1, <2>2, <3>2
  <2> QED BY <1>h, <2>1, <2>2, VisitSafe
<1> QED BY <1>2, <1>3, <1>4, <1>5, <1>6, <1>7 DEF Reconcile

\* The ticker, start-up, shutdown, crashes and the world keep the invariant.
LEMMA WorldSafe ==
  ASSUME IInv,
         \/ Ticker \/ StopSignal \/ BeginShutdown \/ Crash \/ Startup
         \/ Tick \/ (\E q \in Procs : Exit(q)) \/ Cancel
  PROVE  Safe'
<1>0. /\ TypeOK /\ RouteRecoverable /\ RowInv /\ HandInv /\ LoopInv
      /\ FrameInv /\ RouteInv /\ PublishInv /\ HandleInv
      /\ StoreTypeOK /\ op \in Operation
  BY DEF IInv, Safe, HandInv, TypeOK
<1>k. ASSUME UNCHANGED rows, \A k \in Links : routes'[k] \in {routes[k], NoPort}
      PROVE  RouteRecoverable'
  BY <1>0, <1>k DEF RouteRecoverable, LiveLink
<1>p. ASSUME UNCHANGED <<rows, procs>>, RouteRecoverable',
             op'.pc \in {"expired", "shut"}, op'.l = FreeLink, op'.desired = {},
             op'.todo \subseteq {k \in Links : LiveLink(k)}
      PROVE  Safe'
  <2>1. ~InHand' /\ HandInv'
    BY <1>p, EmptyHand, StoreAssumption DEF LoopPCs, FreeLink, UnusedProcs
  <2>2. LoopInv'
    BY <1>p, <2>1 DEF LoopInv, Loop, LiveLink
  <2> QED BY <1>0, <1>p, <2>1, <2>2 DEF Safe, RowInv, UnusedProcs
<1>b. /\ BeginReconcile.pc = "expired" /\ BeginReconcile.l = FreeLink
      /\ BeginReconcile.desired = {} /\ BeginReconcile.todo = ExpiredLinks(now)
      /\ ExpiredLinks(now) \subseteq {k \in Links : LiveLink(k)}
  BY DEF BeginReconcile, Idle, ExpiredLinks
<1>1. CASE Ticker \/ Startup
  <2>1. UNCHANGED <<rows, procs>> /\ op' = BeginReconcile
        /\ (routes' = routes \/ routes' = Unrouted)
    BY <1>1 DEF Ticker, Startup, store, world
  <2>2. RouteRecoverable'
    BY <1>k, <2>1 DEF Unrouted
  <2> QED BY <1>b, <1>p, <2>1, <2>2
<1>2. CASE BeginShutdown
  <2>1. UNCHANGED <<rows, procs, routes>>
        /\ op' = [Idle EXCEPT !.kind = "shutdown", !.pc = "shut", !.asOf = now,
                              !.todo = ReconciliationLinks(now)]
    BY <1>2 DEF BeginShutdown, store, world
  <2>2. /\ op'.pc = "shut" /\ op'.l = FreeLink /\ op'.desired = {}
        /\ op'.todo \subseteq {k \in Links : LiveLink(k)}
    BY <2>1 DEF Idle, ReconciliationLinks
  <2> QED BY <1>k, <1>p, <2>1, <2>2
<1>3. CASE Crash
  <2>1. UNCHANGED <<rows, procs, routes>> /\ op' = Idle
    BY <1>3 DEF Crash, store
  <2> QED BY <1>0, <1>k, <2>1, IdleAgain DEF Safe, RowInv, UnusedProcs
<1>4. CASE StopSignal \/ Tick \/ Cancel \/ (\E q \in Procs : Exit(q))
  <2>1. /\ UNCHANGED <<rows, routes>> /\ SameTask(op') /\ op'.pc = op.pc /\ op'.l = op.l
        /\ op'.compErr = op.compErr
        /\ UnusedProcs' \subseteq UnusedProcs /\ \A q : Alive(q)' => Alive(q)
    <3>1. CASE StopSignal \/ Tick
      BY <3>1 DEF StopSignal, Tick, store, world, SameTask, UnusedProcs, Alive
    <3>2. CASE Cancel
      <4>1. UNCHANGED <<rows, routes, procs>> /\ op' = [op EXCEPT !.cancelled = TRUE]
        BY <3>2 DEF Cancel, store, world
      <4>2. SameTask(op') /\ op'.pc = op.pc /\ op'.l = op.l /\ op'.compErr = op.compErr
        BY <1>0, <4>1 DEF Operation, SameTask
      <4> QED BY <4>1, <4>2 DEF UnusedProcs, Alive
    <3>3. CASE \E q \in Procs : Exit(q)
      <4>1. PICK q \in Procs : Exit(q)
        BY <3>3
      <4>2. \A r \in Procs : procs'[r] \in {procs[r], "dead"}
        BY <1>0, <4>1 DEF Exit, Killed, TypeOK
      <4>3. UNCHANGED <<rows, routes, op>>
        BY <4>1 DEF Exit, store
      <4> QED BY <4>2, <4>3 DEF SameTask, UnusedProcs, Alive
    <3> QED BY <1>4, <3>1, <3>2, <3>3
  <2>2. op'.id = op.id /\ (InHand' <=> InHand) /\ Loop' = Loop
    BY <2>1 DEF SameTask, InHand, Loop
  <2>3. RouteRecoverable' /\ RowInv' /\ FrameInv' /\ RouteInv' /\ PublishInv'
    BY <1>0, <2>1, <2>2 DEF RouteRecoverable, RowInv, FrameInv, RouteInv, PublishInv, LiveLink
  <2>4. HandleInv'
    BY <1>0, <2>1, <2>2 DEF HandleInv
  <2>5. LoopInv'
    BY <1>0, <2>1, <2>2 DEF LoopInv, SameTask, LiveLink, Recorded, ListLinks
  <2> QED BY <2>3, <2>4, <2>5 DEF Safe, HandInv
<1> QED BY <1>1, <1>2, <1>3, <1>4

----------------------------------------------------------------------------
(* Theorems *)

\* The invariant is inductive.
LEMMA Inductive ==
  ASSUME IInv, [Next]_vars
  PROVE  IInv'
<1>1. TypeOK
  BY DEF IInv
<1>2. CASE UNCHANGED vars
  <2>1. UNCHANGED <<rows, procs, routes, op>> /\ TypeOK'
    BY <1>1, <1>2 DEF vars, TypeOK, StoreTypeOK
  <2> QED BY <2>1 DEF IInv, Safe, HandInv, RouteRecoverable, RowInv, FrameInv, RouteInv, PublishInv,
          HandleInv, LoopInv, LiveLink, Recorded, UnusedProcs, Alive, InHand, Loop, ListLinks
<1>3. CASE Next
  <2>1. TypeOK'
    BY <1>1, <1>3, CompensationTypes, StartTypes, RequestTypes, LoopTypes, WorldTypes DEF Next, Operate
  <2>2. Safe'
    BY <1>3, CompensationSafe, StartQuietSafe, PublishSafe, RequestSafe, LoopSafe, WorldSafe
       DEF Next, Operate, Start
  <2> QED BY <2>1, <2>2 DEF IInv
<1> QED BY <1>2, <1>3

\* The invariant holds at the start: nothing is recorded or in progress.
LEMMA Initially ==
  ASSUME Init
  PROVE  IInv
<1>1. TypeOK
  BY FreshTypes, LifecycleAssumption
     DEF Init, StoreInit, TypeOK, StoreTypeOK, FreeSpace, SpaceRow, Slot, Modes
<1>2. op.pc = "idle" /\ op.l.proc = NoProc /\ op.todo = {} /\ op.desired = {} /\ ~InHand
  BY DEF Init, Idle, FreeLink, InHand, StartPCs, CompensationPCs, AfterPCs
<1>3. RouteRecoverable /\ RowInv
  BY StoreAssumption DEF Init, StoreInit, FreeLink, RouteRecoverable, RowInv, UnusedProcs
<1>4. HandInv /\ LoopInv
  BY <1>2, StoreAssumption DEF HandInv, FrameInv, RouteInv, PublishInv, HandleInv, LoopInv, Loop, UnusedProcs
<1> QED BY <1>1, <1>3, <1>4 DEF IInv, Safe

\* Whatever fails, expires, exits or crashes, a published route can be found
\* again from a live row that names its port and its process.
THEOREM RouteRecoverableAlways == Spec => []RouteRecoverable
<1>1. IInv => RouteRecoverable
  BY DEF IInv, Safe
<1> QED BY <1>1, Initially, Inductive, PTL DEF Spec

\* How a step changes a row: by the copy in hand, by archiving a link without
\* a process or a route, or by the insertion of a new one.
LEMMA RowChange ==
  ASSUME IInv, Next, NEW k \in Links, rows'[k] # rows[k]
  PROVE  /\ UNCHANGED <<routes, procs>>
         /\ \/ k = op.id /\ InHand /\ rows'[k] = op.l
            \/ /\ rows'[k].slot = "archived" /\ rows[k].slot = "live" /\ routes[k] = NoPort
               /\ rows[k].proc = NoProc /\ rows'[k].proc = NoProc
            \/ rows[k].slot = "free" /\ rows'[k].slot = "live" /\ rows'[k].proc = NoProc
<1>0. /\ StoreTypeOK /\ FrameInv /\ RouteInv /\ HandleInv /\ LoopInv
  BY DEF IInv, Safe, HandInv, TypeOK
<1>1. ASSUME InHand, SaveLink(op.id, op.l), UNCHANGED <<routes, procs>>
      PROVE  UNCHANGED <<routes, procs>> /\ k = op.id /\ InHand /\ rows'[k] = op.l
  BY <1>0, <1>1, SaveEffect DEF FrameInv
<1>2. ASSUME op.pc \in {"allocate", "deleteRow"}, DeleteLink(op.id), UNCHANGED <<routes, procs>>
      PROVE  /\ UNCHANGED <<routes, procs>>
             /\ rows'[k].slot = "archived" /\ rows[k].slot = "live" /\ routes[k] = NoPort
             /\ rows[k].proc = NoProc /\ rows'[k].proc = NoProc
  <2>1. InHand /\ op.id \in Links /\ LiveLink(op.id)
    BY <1>0, <1>2 DEF InHand, StartPCs, AfterPCs, FrameInv
  <2>2. k = op.id /\ rows'[k].slot = "archived" /\ rows'[k].proc = rows[k].proc
    BY <1>0, <1>2, <2>1, DeleteEffect
  <2> QED BY <1>0, <1>2, <2>1, <2>2 DEF RouteInv, HandleInv, LiveLink
<1>3. CASE Start
  <2>1. /\ UNCHANGED <<routes, procs>>
        /\ \/ InHand /\ SaveLink(op.id, op.l)
           \/ op.pc = "allocate" /\ DeleteLink(op.id)
    BY <1>3 DEF Start, StartExpired, Allocate, SaveStarting, ReleasePort, Spawn, SaveSpawned,
       CheckHealth, SaveHealthy, AddRoute, SaveActive, Unroute, SaveOk, store, world, InHand, StartPCs
  <2> QED BY <1>1, <1>2, <2>1
<1>4. CASE Compensation
  <2>1. /\ UNCHANGED <<routes, procs>>
        /\ \/ InHand /\ SaveLink(op.id, op.l)
           \/ op.pc = "deleteRow" /\ DeleteLink(op.id)
    BY <1>4 DEF Compensation, RemoveRoute, StopProcess, ReturnPort, SaveFailed, SaveTerminal,
       DeleteRow, SaveCreating, SaveOk, SaveFails, store, world, InHand, AfterPCs
  <2> QED BY <1>1, <1>2, <2>1
<1>5. CASE DropSpace \/ PurgeSpace
  <2>1. op.todo = {} /\ op.pc \in {"drop", "purge"} /\ DeleteSpace(op.space)
    BY <1>5 DEF DropSpace, PurgeSpace, DestroyLinks, store
  <2>2. ~InHand /\ Loop = op.pc
    BY <2>1 DEF InHand, Loop, StartPCs, CompensationPCs, AfterPCs
  <2>3. ListLinks(op.space) = {}
    BY <1>0, <2>1, <2>2 DEF LoopInv, ListLinks
  <2>4. rows'[k] = rows[k]
    BY <2>1, <2>3 DEF DeleteSpace
  <2> QED BY <2>4
<1>6. CASE Requests
  <2>1. PICK j \in Links, s \in Spaces : CreateLink(j, s)
    BY <1>6 DEF Requests, CreateSpace, InsertSpace, RequestDrop, RequestDelete, RequestRestart, store
  <2>2. /\ UNCHANGED <<routes, procs>> /\ rows[j].slot = "free"
        /\ \E e, u : InsertLink(j, [FreeLink EXCEPT !.slot = "live", !.space = s,
                                                   !.probe = u, !.exp = e])
    BY <2>1 DEF CreateLink, world
  <2>3. k = j /\ rows'[k].slot = "live" /\ rows'[k].proc = NoProc
    BY <1>0, <2>2 DEF InsertLink, FreeLink, StoreTypeOK
  <2> QED BY <2>2, <2>3
<1>7. CASE \/ SweepLinks \/ SweepSpaces \/ Inspect \/ ApplyRoutes \/ Shutdown
           \/ Ticker \/ StopSignal \/ BeginShutdown \/ Crash \/ Startup
           \/ Tick \/ (\E q \in Procs : Exit(q)) \/ Cancel
  <2>1. rows' = rows
    BY <1>7 DEF SweepLinks, SweepSpaces, Inspect, ApplyRoutes, Shutdown, Ticker, StopSignal,
       BeginShutdown, Crash, Startup, Tick, Exit, Cancel, store
  <2> QED BY <2>1
<1> QED BY <1>3, <1>4, <1>5, <1>6, <1>7 DEF Next, Operate, Reconcile

\* No step lets go of a process identity while its process group is alive.
THEOREM HandleKeptAlways == Spec => HandleKept
<1> DEFINE Lost(k) == /\ rows[k].proc # NoProc
                      /\ rows'[k].proc # rows[k].proc \/ rows'[k].slot # rows[k].slot
<1>1. ASSUME IInv, [Next]_vars
      PROVE  [\A k \in Links : Lost(k) => ~Alive(rows[k].proc)]_vars
  <2> SUFFICES ASSUME Next, NEW k \in Links, Lost(k)
               PROVE  ~Alive(rows[k].proc)
    BY <1>1
  <2>1. /\ FrameInv /\ HandleInv /\ RowInv
    BY <1>1 DEF IInv, Safe, HandInv
  <2>2. k = op.id /\ InHand /\ rows'[k] = op.l
    BY <1>1, <2>1, RowChange DEF RowInv
  <2> QED BY <2>1, <2>2 DEF FrameInv, HandleInv, LiveLink
<1> QED BY <1>1, Initially, Inductive, PTL DEF Spec, HandleKept

\* Compensation stops a process only behind a removed route, unless the
\* removal was reported to have failed.
THEOREM RouteGoneBeforeStopAlways == Spec => RouteGoneBeforeStop
<1>1. ASSUME IInv, [Next]_vars
      PROVE  [Stops /\ ~op.compErr => routes[op.id] = NoPort]_vars
  <2>1. RouteInv
    BY <1>1 DEF IInv, Safe, HandInv
  <2>2. op.pc = "stopProcess" => InHand
    BY DEF InHand, CompensationPCs
  <2> QED BY <2>1, <2>2 DEF Stops, RouteInv
<1> QED BY <1>1, Initially, Inductive, PTL DEF Spec, RouteGoneBeforeStop

\* Only Start brings a process group to life, and it has it in hand then.
LEMMA OnlySpawn ==
  ASSUME TypeOK, Next
  PROVE  \/ UNCHANGED procs
         \/ UNCHANGED routes /\ \A r : Alive(r)' => Alive(r)
         \/ Spawn
<1>1. CASE StopProcess \/ (\E q \in Procs : Exit(q))
  <2>1. UNCHANGED routes /\ \E q : procs' \in {procs, Killed(q)}
    BY <1>1 DEF StopProcess, Exit
  <2>2. \A q : \A r \in Procs : Killed(q)[r] \in {procs[r], "dead"}
    BY DEF Killed, TypeOK
  <2>3. \A r : Alive(r)' => Alive(r)
    BY <2>1, <2>2 DEF Alive
  <2> QED BY <2>1, <2>3
<1>2. CASE ~(Spawn \/ StopProcess \/ (\E q \in Procs : Exit(q)))
  <2>1. CASE Start
    BY <1>2, <2>1 DEF Start, StartExpired, Allocate, SaveStarting, ReleasePort, SaveSpawned,
       CheckHealth, SaveHealthy, AddRoute, SaveActive, Unroute, world
  <2>2. CASE Compensation
    BY <1>2, <2>2 DEF Compensation, RemoveRoute, ReturnPort, SaveFailed, SaveTerminal,
       DeleteRow, SaveCreating, world
  <2>3. CASE DropSpace \/ Reconcile \/ Shutdown
    BY <2>3 DEF DropSpace, Reconcile, PurgeSpace, DestroyLinks, SweepLinks, SweepSpaces, Inspect,
       ApplyRoutes, Shutdown, world
  <2>4. CASE Requests
    BY <2>4 DEF Requests, CreateSpace, RequestDrop, CreateLink, RequestDelete, RequestRestart, world
  <2>5. CASE Ticker \/ StopSignal \/ BeginShutdown \/ Crash \/ Startup \/ Tick \/ Cancel
    BY <2>5 DEF Ticker, StopSignal, BeginShutdown, Crash, Startup, Tick, Cancel, world
  <2> QED BY <1>2, <2>1, <2>2, <2>3, <2>4, <2>5 DEF Next, Operate
<1> QED BY <1>1, <1>2

\* What a step may do to the process of a link whose row it leaves alone: end
\* it, and then no route changes.
LEMMA WorldChange ==
  ASSUME IInv, Next, NEW k \in Links
  PROVE  \/ UNCHANGED procs
         \/ UNCHANGED routes /\ (Alive(rows[k].proc) \/ \A q : q = rows[k].proc => ~Alive(q)')
<1>0. TypeOK /\ rows[k].proc \notin UnusedProcs /\ op.l.proc \notin UnusedProcs
  BY DEF IInv, Safe, HandInv, RowInv, HandleInv
<1>1. CASE Spawn
  <2>1. UNCHANGED routes
    BY <1>1 DEF Spawn
  <2>2. ASSUME NEW q \in UnusedProcs,
               procs' = [procs EXCEPT ![q] = "alive"]
        PROVE  \A r : r = rows[k].proc /\ ~Alive(r) => ~Alive(r)'
    BY <1>0, <2>2 DEF Alive, TypeOK, UnusedProcs
  <2> QED BY <1>1, <2>1, <2>2 DEF Spawn
<1> QED BY <1>0, <1>1, OnlySpawn

\* The service implements the contract of a link: every step moves each lease
\* by at most one move that PreviewLease allows.
THEOREM LeaseContractAlways == Spec => LeaseContract
<1> DEFINE leases == [k \in Links |-> LeaseOf(k)]
<1>1. Init => Contract!Init
  BY StoreAssumption DEF Init, StoreInit, FreeLink, Contract!Init, LeaseOf
<1>2. ASSUME IInv
      PROVE  \A k \in Links :
               /\ rows[k].slot \in Slot
               /\ routes[k] # NoPort => rows[k].slot = "live" /\ rows[k].proc # NoProc
  BY <1>2 DEF IInv, Safe, RouteRecoverable, LiveLink, TypeOK, StoreTypeOK, LinkRow
<1>3. ASSUME IInv, IInv', [Next]_vars
      PROVE  [Contract!Next]_leases
  <2>1. CASE UNCHANGED vars
    <3>1. UNCHANGED <<rows, routes, procs>>
      BY <2>1 DEF vars
    <3> QED BY <3>1 DEF LeaseOf, Alive
  <2>2. CASE Next
    <3>1. \A k \in Links : /\ rows[k].slot \in Slot /\ rows'[k].slot \in Slot
                           /\ routes[k] # NoPort => rows[k].slot = "live" /\ rows[k].proc # NoProc
                           /\ routes'[k] # NoPort => rows'[k].slot = "live" /\ rows'[k].proc # NoProc
      BY <1>2, <1>3 DEF IInv, Safe, RouteRecoverable, LiveLink, TypeOK, StoreTypeOK, LinkRow
    <3>2. ASSUME NEW k \in Links
          PROVE  LeaseOf(k)' \in Contract!Lease
      BY <3>1 DEF LeaseOf, Slot, Contract!Lease, Contract!Phase, Contract!Worker
    <3>3. ASSUME NEW k \in Links
          PROVE  Contract!Move(LeaseOf(k), LeaseOf(k)')
      <4>1. CASE rows'[k] # rows[k]
        <5>1. UNCHANGED <<routes, procs>>
          BY <1>3, <2>2, <4>1, RowChange
        <5>2. CASE k = op.id /\ InHand /\ rows'[k] = op.l
          <6>1. /\ rows[k].slot = "live" /\ rows'[k].slot = "live"
                /\ rows'[k].proc # rows[k].proc =>
                     /\ ~Alive(rows[k].proc) /\ routes[k] = NoPort
                     /\ rows'[k].proc = NoProc \/ rows[k].proc = NoProc
            BY <1>3, <5>2 DEF IInv, Safe, HandInv, FrameInv, RouteInv, HandleInv, LiveLink
          <6>2. CASE rows'[k].proc = rows[k].proc
            <7>1. LeaseOf(k)' = LeaseOf(k)
              BY <5>1, <6>1, <6>2 DEF LeaseOf, Alive
            <7> QED BY <7>1 DEF Contract!Move
          <6>3. CASE rows'[k].proc # rows[k].proc
            <7>1. LeaseOf(k).phase = "private" /\ LeaseOf(k)'.phase = "private"
              BY <5>1, <6>1, <6>3 DEF LeaseOf
            <7>2. \/ LeaseOf(k).worker = "none"
                  \/ LeaseOf(k).worker = "ended" /\ LeaseOf(k)'.worker = "none"
              BY <6>1, <6>3 DEF LeaseOf
            <7> QED BY <7>1, <7>2 DEF Contract!Move, Contract!Attach, Contract!Forget
          <6> QED BY <6>2, <6>3
        <5>3. CASE /\ rows'[k].slot = "archived" /\ rows[k].slot = "live" /\ routes[k] = NoPort
                   /\ rows[k].proc = NoProc /\ rows'[k].proc = NoProc
          BY <5>1, <5>3 DEF LeaseOf, Contract!Move, Contract!Retire, Contract!Kept
        <5>4. CASE rows[k].slot = "free" /\ rows'[k].slot = "live" /\ rows'[k].proc = NoProc
          <6>1. routes'[k] = NoPort /\ rows[k].proc = NoProc
            BY <1>3, <3>1, <5>1, <5>4 DEF IInv, Safe, RowInv
          <6> QED BY <5>4, <6>1 DEF LeaseOf, Contract!Move, Contract!Register, Contract!Kept
        <5> QED BY <1>3, <2>2, <4>1, <5>2, <5>3, <5>4, RowChange
      <4>2. CASE rows'[k] = rows[k] /\ UNCHANGED procs
        <5>1. LeaseOf(k)'.worker = LeaseOf(k).worker
          BY <4>2 DEF LeaseOf, Alive
        <5>2. \/ LeaseOf(k)'.phase = LeaseOf(k).phase
              \/ LeaseOf(k).phase = "private" /\ LeaseOf(k)'.phase = "public" /\ LeaseOf(k).worker # "none"
              \/ LeaseOf(k).phase = "public" /\ LeaseOf(k)'.phase = "private"
          BY <3>1, <4>2 DEF LeaseOf, Slot
        <5>3. LeaseOf(k)'.phase = LeaseOf(k).phase => LeaseOf(k)' = LeaseOf(k)
          BY <5>1 DEF LeaseOf
        <5> QED BY <5>1, <5>2, <5>3 DEF Contract!Move, Contract!Publish, Contract!Withdraw, Contract!Kept
      <4>3. CASE /\ rows'[k] = rows[k] /\ UNCHANGED routes
                 /\ Alive(rows[k].proc) \/ \A q : q = rows[k].proc => ~Alive(q)'
        <5>1. LeaseOf(k)'.phase = LeaseOf(k).phase
          <6>1. rows'[k] = rows[k] /\ routes'[k] = routes[k]
            BY <4>3
          <6> QED BY <3>1, <6>1 DEF LeaseOf, Slot
        <5>2. \/ LeaseOf(k)'.worker = LeaseOf(k).worker
              \/ LeaseOf(k).worker = "running" /\ LeaseOf(k)'.worker = "ended"
          BY <4>3 DEF LeaseOf, Alive
        <5>3. LeaseOf(k)'.worker = LeaseOf(k).worker => LeaseOf(k)' = LeaseOf(k)
          BY <5>1 DEF LeaseOf
        <5> QED BY <5>1, <5>2, <5>3 DEF Contract!Move, Contract!End
      <4> QED BY <1>3, <2>2, <4>1, <4>2, <4>3, WorldChange
    <3>4. leases' \in [Links -> Contract!Lease]
      BY <3>2
    <3> QED BY <3>3, <3>4 DEF Contract!Next
  <2> QED BY <1>3, <2>1, <2>2
<1> QED BY <1>1, <1>3, Initially, Inductive, PTL DEF Spec, LeaseContract, Contract!Spec

----------------------------------------------------------------------------
(* No process group is lost for nothing *)

\* The operation holds a live process that the row of its link does not name.
Unnamed == InHand /\ Alive(op.l.proc) /\ rows[op.id].proc # op.l.proc

\* What has been paid for the loss of that process: a cancelled operation has
\* paid for it, another one with a failing call for each step it took towards it.
Owed == IF ~Unnamed THEN 0
        ELSE IF op.cancelled THEN 3
        ELSE IF op.pc = "saveSpawned" THEN 0
        ELSE IF op.pc \in {"removeRoute", "stopProcess"} THEN 1 ELSE 2

Budget == 3 * (spent.crashes + spent.cancels) + spent.faults

\* Only a start that fails right after the spawn gets there, and only on its way
\* out; whoever has no link in hand has no process either.
UnnamedAt   == Unnamed => op.pc \in {"saveSpawned", "removeRoute", "stopProcess",
                                     "returnPort", "saveFailed"}
EmptyHanded == ~InHand => op.l.proc = NoProc
Paid        == 3 * Cardinality(LostProcs) + Owed <= Budget

OrphanInv == UnnamedAt /\ EmptyHanded /\ Paid

\* What the operation in hand has paid is between nothing and three calls.
LEMMA OwedTyped ==
  /\ Owed \in 0 .. 3 /\ (~Unnamed => Owed = 0)
  /\ Owed' \in 0 .. 3 /\ (~Unnamed' => Owed' = 0)
<1>1. Owed \in 0 .. 3 /\ (~Unnamed => Owed = 0)
  BY DEF Owed
<1>2. Owed' \in 0 .. 3 /\ (~Unnamed' => Owed' = 0)
  BY DEF Owed
<1> QED BY <1>1, <1>2

\* What the outcome of a call does to the budget.
LEMMA BudgetMoves ==
  ASSUME spent \in Spent
  PROVE  /\ Budget \in Nat
         /\ CallOk \/ UNCHANGED spent => Budget' = Budget
         /\ CallFails => Budget' = IF op.cancelled THEN Budget ELSE Budget + 1
<1> DEFINE fs == spent.faults
           cs == spent.crashes + spent.cancels
<1>1. spent.faults \in Nat /\ spent.crashes \in Nat /\ spent.cancels \in Nat
  BY DEF Spent
<1>2. Budget \in Nat
  BY <1>1 DEF Budget
<1>3. CallOk \/ UNCHANGED spent => Budget' = Budget
  BY DEF CallOk, Budget
<1>4. ASSUME CallFails, op.cancelled PROVE Budget' = Budget
  BY <1>4 DEF CallFails, Budget
<1>5. ASSUME CallFails, ~op.cancelled PROVE Budget' = Budget + 1
  <2>1. spent' = [spent EXCEPT !.faults = @ + 1]
    BY <1>5 DEF CallFails
  <2>2. spent'.faults = spent.faults + 1 /\ spent'.crashes = spent.crashes /\ spent'.cancels = spent.cancels
    BY <2>1 DEF Spent
  <2> QED BY <1>1, <2>2 DEF Budget
<1> QED BY <1>2, <1>3, <1>4, <1>5

\* No step takes anything back.
LEMMA BudgetGrows ==
  ASSUME IInv, Next
  PROVE  Budget \in Nat /\ Budget' \in Nat /\ Budget' >= Budget
<1>0. spent \in Spent
  BY DEF IInv, TypeOK, Spent
<1>1. Budget \in Nat /\ (CallOk \/ UNCHANGED spent \/ CallFails => Budget' \in Nat /\ Budget' >= Budget)
  <2>1. Budget \in Nat
    BY <1>0, BudgetMoves
  <2> QED BY <1>0, <2>1, BudgetMoves
<1>2. CASE Start
  <2>1. CallOk \/ UNCHANGED spent \/ CallFails
    BY <1>2 DEF Start, StartExpired, Allocate, SaveStarting, ReleasePort, Spawn, SaveSpawned,
       CheckHealth, SaveHealthy, AddRoute, SaveActive, Unroute, SaveOk, SaveFails, RemoveOk, RemoveFails
  <2> QED BY <1>1, <2>1
<1>3. CASE Compensation
  <2>1. CallOk \/ UNCHANGED spent \/ CallFails
    BY <1>3 DEF Compensation, RemoveRoute, StopProcess, ReturnPort, SaveFailed, SaveTerminal,
       DeleteRow, SaveCreating, SaveOk, SaveFails, RemoveOk, RemoveFails
  <2> QED BY <1>1, <2>1
<1>4. CASE DropSpace \/ Reconcile \/ Shutdown
  <2>1. CallOk \/ UNCHANGED spent \/ CallFails
    BY <1>4 DEF DropSpace, PurgeSpace, DestroyLinks, Reconcile, SweepLinks, SweepSpaces, Inspect,
       ApplyRoutes, Shutdown, QueryFails
  <2> QED BY <1>1, <2>1
<1>5. CASE Requests \/ Ticker \/ BeginShutdown \/ Startup \/ Tick \/ (\E q \in Procs : Exit(q))
  <2>1. UNCHANGED spent
    BY <1>5 DEF Requests, CreateSpace, RequestDrop, CreateLink, RequestDelete, RequestRestart,
       Ticker, BeginShutdown, Startup, Tick, Exit
  <2> QED BY <1>1, <2>1
<1>6. CASE StopSignal \/ Crash \/ Cancel
  <2>1. \/ spent' = [spent EXCEPT !.stops = @ + 1]
        \/ spent' = [spent EXCEPT !.crashes = @ + 1]
        \/ spent' = [spent EXCEPT !.cancels = @ + 1]
    BY <1>6 DEF StopSignal, Crash, Cancel
  <2>2. /\ spent.faults \in Nat /\ spent.crashes \in Nat /\ spent.cancels \in Nat
        /\ spent'.faults = spent.faults
        /\ spent'.crashes \in {spent.crashes, spent.crashes + 1}
        /\ spent'.cancels \in {spent.cancels, spent.cancels + 1}
    BY <1>0, <2>1 DEF Spent
  <2> QED BY <2>2 DEF Budget
<1> QED BY <1>2, <1>3, <1>4, <1>5, <1>6 DEF Next, Operate

\* A group that was not lost is lost only when the operation lets go of it
\* while its row does not name it.
LEMMA LostSteps ==
  ASSUME IInv, Next, EmptyHanded
  PROVE  /\ LostProcs' \subseteq LostProcs \union {op.l.proc}
         /\ \/ ~Unnamed
            \/ op'.l.proc = op.l.proc
            \/ rows'[op.id].slot = "live" /\ rows'[op.id].proc = op.l.proc
            => LostProcs' \subseteq LostProcs
<1>0. /\ TypeOK /\ FrameInv /\ HandleInv /\ RowInv
  BY DEF IInv, Safe, HandInv
<1>1. ASSUME NEW q \in LostProcs' PROVE q \in Procs /\ Alive(q)' /\ op'.l.proc # q
  BY DEF LostProcs
<1>2. ASSUME NEW q \in LostProcs', ~Alive(q) PROVE FALSE
  <2>1. Spawn
    BY <1>0, <1>1, <1>2, OnlySpawn DEF Alive
  <2>2. PICK r \in UnusedProcs : /\ procs' = [procs EXCEPT ![r] = "alive"]
                                 /\ op' = [op EXCEPT !.pc = "saveSpawned", !.l.proc = r]
    BY <1>1, <1>2, <2>1 DEF Spawn, Alive
  <2>3. op'.l.proc = r
    BY <1>0, <2>2 DEF TypeOK, Operation, LinkRow
  <2>4. q = r
    BY <1>0, <1>1, <1>2, <2>2 DEF TypeOK, Alive, UnusedProcs
  <2> QED BY <1>1, <2>3, <2>4
<1>3. ASSUME NEW q \in LostProcs', NEW k \in Links, LiveLink(k), rows[k].proc = q PROVE FALSE
  <2>1. Alive(q) /\ q # NoProc
    BY <1>1, <1>2, StoreAssumption
  <2>2. rows'[k] # rows[k]
    BY <1>3 DEF LostProcs, LiveLink
  <2>3. k = op.id /\ InHand /\ rows'[k] = op.l
    BY <1>3, <2>1, <2>2, RowChange DEF LiveLink
  <2>4. op.l.slot = "live"
    BY <1>0, <2>3 DEF FrameInv
  <2>5. op.l.proc # q
    BY <2>3, <2>4, <1>3 DEF LostProcs, LiveLink
  <2> QED BY <1>0, <1>3, <2>1, <2>3, <2>5 DEF HandleInv
<1>4. ASSUME NEW q \in LostProcs', q \notin LostProcs PROVE op.l.proc = q
  <2>1. q \in Procs /\ Alive(q)
    BY <1>1, <1>2
  <2> QED BY <1>3, <1>4, <2>1 DEF LostProcs
<1>5. ASSUME NEW q \in LostProcs', q \notin LostProcs
      PROVE  /\ Unnamed /\ op'.l.proc # op.l.proc
             /\ ~(rows'[op.id].slot = "live" /\ rows'[op.id].proc = op.l.proc)
  <2>1. op.l.proc = q /\ q # NoProc /\ Alive(q) /\ op'.l.proc # op.l.proc
    BY <1>1, <1>2, <1>4, <1>5, StoreAssumption
  <2>2. InHand /\ op.id \in Links /\ LiveLink(op.id)
    BY <1>0, <2>1 DEF EmptyHanded, FrameInv
  <2>3. rows[op.id].proc # q
    BY <1>3, <2>2
  <2>4. ~(rows'[op.id].slot = "live" /\ rows'[op.id].proc = op.l.proc)
    BY <2>1, <2>2 DEF LostProcs, LiveLink
  <2> QED BY <2>1, <2>2, <2>3, <2>4 DEF Unnamed
<1> QED BY <1>4, <1>5

\* How the number of the lost follows.
LEMMA LostCounted ==
  ASSUME IsFiniteSet(Procs), NEW S \in SUBSET Procs, NEW T \in SUBSET Procs, NEW x
  PROVE  /\ Cardinality(S) \in Nat /\ Cardinality(T) \in Nat
         /\ S \subseteq T => Cardinality(S) <= Cardinality(T)
         /\ S \subseteq T \union {x} => Cardinality(S) <= Cardinality(T) + 1
<1>1. IsFiniteSet(S) /\ IsFiniteSet(T)
  BY FS_Subset
<1>2. Cardinality(S) \in Nat /\ Cardinality(T) \in Nat
  BY <1>1, FS_CardinalityType
<1>3. S \subseteq T => Cardinality(S) <= Cardinality(T)
  BY <1>1, FS_Subset
<1>4. ASSUME S \subseteq T \union {x} PROVE Cardinality(S) <= Cardinality(T) + 1
  <2>1. IsFiniteSet(T \union {x}) /\ Cardinality(T \union {x}) \in {Cardinality(T), Cardinality(T) + 1}
    BY <1>1, FS_AddElement
  <2>2. Cardinality(S) <= Cardinality(T \union {x})
    BY <1>4, <2>1, FS_Subset
  <2> QED BY <1>2, <2>1, <2>2
<1> QED BY <1>2, <1>3, <1>4

\* The sums: c lost groups, o owed and b paid before, c1, o1 and b1 after.
LEMMA Sums ==
  ASSUME NEW c \in Nat, NEW c1 \in Nat, NEW o \in 0 .. 3, NEW o1 \in 0 .. 3,
         NEW b \in Nat, NEW b1 \in Nat
  PROVE  /\ c1 <= c /\ 3 * c + o <= b /\ o1 + b <= o + b1 => 3 * c1 + o1 <= b1
         /\ c1 <= c + 1 /\ 3 * c + o <= b /\ o1 = 0 /\ 3 + b <= o + b1 => 3 * c1 + o1 <= b1
OBVIOUS

\* The arithmetic of a step that loses nothing: it pays for what it owes more.
LEMMA StepPays ==
  ASSUME NEW o \in 0 .. 3, NEW o1 \in 0 .. 3, NEW b \in Nat, NEW b1 \in Nat,
         (b1 >= b /\ o1 <= o) \/ (b1 = b + 1 /\ o1 <= o + 1)
  PROVE  o1 + b <= o + b1
OBVIOUS

\* The arithmetic of a step that loses one group, which was paid in full.
LEMMA LossPaid ==
  ASSUME NEW o \in 0 .. 3, NEW b \in Nat, NEW b1 \in Nat,
         (o = 3 /\ b1 >= b) \/ (o = 2 /\ b1 = b + 1)
  PROVE  3 + b <= o + b1
OBVIOUS

\* A step that loses nothing pays for what it owes more.
LEMMA NothingLost ==
  ASSUME IsFiniteSet(Procs), IInv, Next, OrphanInv, EmptyHanded', UnnamedAt',
         \/ ~Unnamed
         \/ op'.l.proc = op.l.proc
         \/ rows'[op.id].slot = "live" /\ rows'[op.id].proc = op.l.proc,
         Owed' + Budget <= Owed + Budget'
  PROVE  OrphanInv'
<1>1. LostProcs' \subseteq LostProcs
  BY LostSteps DEF OrphanInv
<1>2. LostProcs \in SUBSET Procs /\ LostProcs' \in SUBSET Procs
  BY DEF LostProcs
<1>3. /\ Cardinality(LostProcs) \in Nat /\ Cardinality(LostProcs') \in Nat
      /\ Cardinality(LostProcs') <= Cardinality(LostProcs)
  BY <1>1, <1>2, LostCounted
<1>4. Owed \in 0 .. 3 /\ Owed' \in 0 .. 3
  BY OwedTyped
<1>5. Budget \in Nat /\ Budget' \in Nat
  BY BudgetGrows
<1>6. 3 * Cardinality(LostProcs) + Owed <= Budget
  BY DEF OrphanInv, Paid
<1>7. 3 * Cardinality(LostProcs') + Owed' <= Budget'
  BY <1>3, <1>4, <1>5, <1>6, Sums
<1> QED BY <1>7 DEF OrphanInv, Paid

\* A step that loses the process in hand has paid for it.
LEMMA OneLost ==
  ASSUME IsFiniteSet(Procs), IInv, Next, OrphanInv, EmptyHanded', ~Unnamed',
         3 + Budget <= Owed + Budget'
  PROVE  OrphanInv'
<1>1. LostProcs' \subseteq LostProcs \union {op.l.proc}
  BY LostSteps DEF OrphanInv
<1>2. LostProcs \in SUBSET Procs /\ LostProcs' \in SUBSET Procs
  BY DEF LostProcs
<1>3. /\ Cardinality(LostProcs) \in Nat /\ Cardinality(LostProcs') \in Nat
      /\ Cardinality(LostProcs') <= Cardinality(LostProcs) + 1
  BY <1>1, <1>2, LostCounted
<1>4. Owed \in 0 .. 3 /\ Owed' = 0
  BY OwedTyped
<1>5. Budget \in Nat /\ Budget' \in Nat
  BY BudgetGrows
<1>6. 3 * Cardinality(LostProcs) + Owed <= Budget
  BY DEF OrphanInv, Paid
<1>7. Owed' \in 0 .. 3 /\ 3 + Budget <= Owed + Budget'
  BY OwedTyped
<1>8. 3 * Cardinality(LostProcs') + Owed' <= Budget'
  BY <1>3, <1>4, <1>5, <1>6, <1>7, Sums
<1> QED BY <1>8 DEF OrphanInv, Paid, UnnamedAt

\* Nothing unnamed before or after.
LEMMA NothingUnnamed ==
  ASSUME IsFiniteSet(Procs), IInv, Next, OrphanInv, EmptyHanded', ~Unnamed', ~Unnamed
  PROVE  OrphanInv'
<1>1. Owed' = 0 /\ Owed = 0 /\ UnnamedAt'
  BY OwedTyped DEF UnnamedAt
<1>2. Budget \in Nat /\ Budget' \in Nat /\ Budget' >= Budget
  BY BudgetGrows
<1>3. Owed \in 0 .. 3 /\ Owed' \in 0 .. 3 /\ Owed' <= Owed
  BY <1>1
<1>4. Owed' + Budget <= Owed + Budget'
  BY <1>2, <1>3, StepPays
<1> QED BY <1>1, <1>4, NothingLost

\* Compensation goes on with the context it has.
LEMMA CompensatedHand ==
  ASSUME op \in Operation, NEW o, o \in {op, [op EXCEPT !.compErr = TRUE]}
  PROVE  Compensated(o).cancelled = op.cancelled
<1>1. o \in Operation /\ o.cancelled = op.cancelled
  BY DEF Operation
<1>2. CASE o.compErr
  BY <1>1, <1>2 DEF Compensated, Operation
<1>3. CASE ~o.compErr
  <2>1. o.then \in {"fail", "destroy", "restart"}
    BY <1>1 DEF Operation
  <2> DEFINE cleared(pc, st) ==
        [[o EXCEPT !.pc = pc, !.l.status = st] EXCEPT !.l.port = NoPort, !.l.proc = NoProc]
  <2>2. \E pc, st : Compensated(o) = cleared(pc, st)
    BY <1>3, <2>1 DEF Compensated
  <2>3. ASSUME NEW pc, NEW st PROVE cleared(pc, st).cancelled = o.cancelled
    <3> DEFINE m == [o EXCEPT !.pc = pc, !.l.status = st]
    <3>1. m.cancelled = o.cancelled /\ {"cancelled", "l"} \subseteq DOMAIN m
      BY <1>1 DEF Operation
    <3>2. cleared(pc, st).cancelled = m.cancelled
      <4> HIDE DEF m
      <4> QED BY <3>1
    <3> QED BY <3>1, <3>2
  <2> HIDE DEF cleared
  <2> QED BY <1>1, <2>2, <2>3
<1> QED BY <1>2, <1>3

\* The copy of an operation without a link names no process.
LEMMA Emptied ==
  ASSUME op \in Operation, op.ret = "idle" \/ op.ret \in LoopPCs,
         op' \in {Idle, Returned(op), [Returned(op) EXCEPT !.err = TRUE]}
  PROVE  ~InHand' /\ EmptyHanded' /\ ~Unnamed'
<1>1. op'.pc \in {"idle"} \union LoopPCs /\ op'.l.proc = NoProc
  <2>1. Idle.pc = "idle" /\ Idle.l = FreeLink /\ FreeLink.proc = NoProc
    BY DEF Idle, FreeLink
  <2>2. CASE op.ret = "idle"
    <3>1. Returned(op) = Idle
      BY <2>2 DEF Returned
    <3>2. [Idle EXCEPT !.err = TRUE].pc = "idle" /\ [Idle EXCEPT !.err = TRUE].l = FreeLink
      BY DEF Idle
    <3> QED BY <2>1, <3>1, <3>2
  <2>3. CASE op.ret \in LoopPCs
    <3>1. Returned(op) = [op EXCEPT !.pc = op.ret, !.id = NoLink, !.l = FreeLink, !.compErr = FALSE]
      BY <2>3 DEF Returned, LoopPCs
    <3>2. Returned(op).pc = op.ret /\ Returned(op).l = FreeLink
      BY <3>1 DEF Operation
    <3>3. [Returned(op) EXCEPT !.err = TRUE].pc = op.ret /\ [Returned(op) EXCEPT !.err = TRUE].l = FreeLink
      BY <3>1 DEF Operation
    <3> QED BY <2>1, <2>3, <3>2, <3>3
  <2> QED BY <2>2, <2>3
<1>2. ~InHand'
  BY <1>1 DEF InHand, LoopPCs, StartPCs, CompensationPCs, AfterPCs
<1> QED BY <1>1, <1>2 DEF EmptyHanded, Unnamed

\* Compensation stops the process, or pays for not having stopped it.
LEMMA CompensationPaid ==
  ASSUME IsFiniteSet(Procs), IInv, OrphanInv, Compensation
  PROVE  OrphanInv'
<1>0. /\ Next /\ op \in Operation /\ spent \in Spent /\ StoreTypeOK /\ HandleInv /\ FrameInv
      /\ op.ret = "idle" \/ op.ret \in LoopPCs
      /\ UnnamedAt /\ op.cancelled \in BOOLEAN
  BY DEF Next, Operate, IInv, Safe, HandInv, TypeOK, Spent, Operation, OrphanInv
<1>h. InHand /\ op.id \in Links /\ LiveLink(op.id) /\ op.l.slot = "live" /\ op.l \in LinkRow
  <2>1. InHand
    BY DEF Compensation, RemoveRoute, StopProcess, ReturnPort, SaveFailed, SaveTerminal,
           DeleteRow, SaveCreating, InHand, CompensationPCs, AfterPCs
  <2> QED BY <1>0, <2>1 DEF FrameInv, Operation
<1>b. /\ Budget \in Nat /\ Budget' \in Nat /\ Budget' >= Budget /\ Owed \in 0 .. 3 /\ Owed' \in 0 .. 3
      /\ CallFails /\ ~op.cancelled => Budget' = Budget + 1
  BY <1>0, BudgetGrows, BudgetMoves, OwedTyped
\* Nothing unnamed is left, and nothing was let go of.
<1>q. ASSUME EmptyHanded', ~Unnamed', op'.l.proc = op.l.proc \/ ~Unnamed
             \/ (rows'[op.id].slot = "live" /\ rows'[op.id].proc = op.l.proc)
      PROVE  OrphanInv'
  <2>1. Owed' = 0 /\ UnnamedAt'
    BY <1>q, OwedTyped DEF UnnamedAt
  <2>2. Owed' <= Owed
    BY <1>b, <2>1
  <2>3. Owed' + Budget <= Owed + Budget'
    BY <1>b, <2>2, StepPays
  <2> QED BY <1>0, <1>q, <2>1, <2>3, NothingLost
\* The next call still has the process in hand.
<1>c. ASSUME UNCHANGED rows, InHand', op'.id = op.id, op'.l.proc = op.l.proc,
             op'.cancelled = op.cancelled, UnnamedAt',
             Unnamed' => Unnamed /\ (op.cancelled \/ Owed' <= Owed \/ (CallFails /\ Owed' <= Owed + 1))
      PROVE  OrphanInv'
  <2>1. EmptyHanded'
    BY <1>c DEF EmptyHanded
  <2>2. CASE ~Unnamed'
    BY <1>c, <1>q, <2>1, <2>2
  <2>3. CASE Unnamed'
    <3>1. op.cancelled => Owed = 3 /\ Owed' = 3
      BY <1>c, <2>3 DEF Owed
    <3>2. Owed' <= Owed \/ (CallFails /\ ~op.cancelled /\ Owed' <= Owed + 1)
      BY <1>c, <2>3, <1>0, <3>1
    <3>3. Owed' <= Owed \/ (Budget' = Budget + 1 /\ Owed' <= Owed + 1)
      BY <1>b, <3>2
    <3>4. CASE Owed' <= Owed
      <4>1. Owed' + Budget <= Owed + Budget'
        BY <1>b, <3>4, StepPays
      <4> QED BY <1>0, <1>c, <2>1, <4>1, NothingLost
    <3>5. CASE Budget' = Budget + 1 /\ Owed' <= Owed + 1
      <4>1. Owed' + Budget <= Owed + Budget'
        BY <1>b, <3>5, StepPays
      <4> QED BY <1>0, <1>c, <2>1, <4>1, NothingLost
    <3> QED BY <3>3, <3>4, <3>5
  <2> QED BY <2>2, <2>3
<1>1. CASE RemoveRoute
  <2>1. /\ op.pc = "removeRoute" /\ UNCHANGED <<rows, procs>>
        /\ op' \in {[op EXCEPT !.pc = "stopProcess"], [op EXCEPT !.pc = "stopProcess", !.compErr = TRUE]}
    BY <1>1 DEF RemoveRoute, Goto, store
  <2>2. op'.id = op.id /\ op'.l = op.l /\ op'.cancelled = op.cancelled /\ op'.pc = "stopProcess"
    BY <1>0, <2>1 DEF Operation
  <2>3. InHand' /\ (Unnamed' <=> Unnamed) /\ UnnamedAt'
    BY <1>h, <2>1, <2>2 DEF InHand, CompensationPCs, Unnamed, UnnamedAt, Alive
  <2>4. Owed' = Owed
    BY <2>1, <2>2, <2>3 DEF Owed
  <2> QED BY <1>b, <1>c, <2>1, <2>2, <2>3, <2>4
<1>2. CASE StopProcess
  <2>1. /\ op.pc = "stopProcess" /\ UNCHANGED rows
        /\ op' \in {[op EXCEPT !.pc = "returnPort"], [op EXCEPT !.pc = "returnPort", !.compErr = TRUE]}
        /\ \/ procs' = procs /\ (CallFails \/ ~Alive(op.l.proc))
           \/ procs' = Killed(op.l.proc)
    BY <1>2 DEF StopProcess, Goto, store
  <2>2. op'.id = op.id /\ op'.l = op.l /\ op'.cancelled = op.cancelled /\ op'.pc = "returnPort"
    BY <1>0, <2>1 DEF Operation
  <2>3. InHand' /\ UnnamedAt'
    BY <2>2 DEF InHand, CompensationPCs, UnnamedAt
  <2>4. procs' = Killed(op.l.proc) => ~Alive(op.l.proc)'
    BY <1>0, <2>2 DEF Alive, Killed, IInv, TypeOK
  <2>5. Unnamed' => Unnamed /\ CallFails
    BY <1>h, <2>1, <2>2, <2>4 DEF Unnamed, Alive
  <2>6. Unnamed' => op.cancelled \/ Owed' <= Owed + 1
    BY <2>1, <2>2, <2>5 DEF Owed
  <2> QED BY <1>c, <2>1, <2>2, <2>3, <2>5, <2>6
<1>3. CASE ReturnPort
  <2>1. /\ op.pc = "returnPort" /\ UNCHANGED <<rows, procs>>
        /\ \E o \in {op, [op EXCEPT !.compErr = TRUE]} : op' = Compensated(o)
    BY <1>3 DEF ReturnPort, store
  <2>2. PICK o \in {op, [op EXCEPT !.compErr = TRUE]} : op' = Compensated(o)
    BY <2>1
  <2>3. /\ op'.id = op.id /\ op'.cancelled = op.cancelled
        /\ op'.pc \in {"saveFailed", "saveTerminal", "saveCreating"}
        /\ o.compErr => op'.l.proc = op.l.proc /\ op'.pc = "saveFailed"
        /\ ~o.compErr => op'.l.proc = NoProc
    BY <1>0, <2>2, CompensatedEffect, CompensatedHand DEF SameTask
  <2>4. InHand' /\ EmptyHanded'
    BY <2>3 DEF InHand, AfterPCs, EmptyHanded
  <2>5. CASE o.compErr
    <3>1. (Unnamed' <=> Unnamed) /\ UnnamedAt'
      BY <1>h, <2>1, <2>3, <2>4, <2>5 DEF Unnamed, UnnamedAt, Alive
    <3>2. Owed' = Owed
      BY <2>1, <2>3, <2>5, <3>1 DEF Owed
    <3> QED BY <1>b, <1>c, <2>1, <2>3, <2>4, <2>5, <3>1, <3>2
  <2>6. CASE ~o.compErr
    <3>1. ~Alive(op.l.proc)
      <4>1. o = op \/ o.compErr
        BY <1>0, <2>2 DEF Operation
      <4> QED BY <1>0, <2>1, <2>6, <4>1 DEF HandleInv
    <3>2. ~Unnamed /\ ~Unnamed'
      BY <2>3, <2>6, <3>1, StoreAssumption DEF Unnamed, Alive
    <3> QED BY <1>q, <2>4, <3>2
  <2> QED BY <2>5, <2>6
<1>4. CASE SaveFailed
  <2>1. /\ op.pc = "saveFailed"
        /\ (CallOk /\ SaveLink(op.id, op.l)) \/ (CallFails /\ UNCHANGED store)
        /\ op' \in {Idle, Returned(op), [Returned(op) EXCEPT !.err = TRUE]}
    BY <1>4 DEF SaveFailed, ReturnError, Abort
  <2>2. EmptyHanded' /\ ~Unnamed'
    BY <1>0, <2>1, Emptied
  <2>3. CASE SaveLink(op.id, op.l)
    <3>1. rows'[op.id] = op.l
      BY <1>0, <1>h, <2>3, SaveEffect
    <3> QED BY <1>h, <1>q, <2>2, <3>1
  <2>4. CASE CallFails /\ Unnamed
    <3>1. Owed = 3 \/ (Owed = 2 /\ Budget' = Budget + 1)
      BY <1>b, <2>1, <2>4 DEF Owed
    <3>2. 3 + Budget <= Owed + Budget'
      BY <1>b, <3>1, LossPaid
    <3> QED BY <1>0, <2>2, <3>2, OneLost
  <2>5. CASE ~Unnamed
    BY <1>q, <2>2, <2>5
  <2> QED BY <2>1, <2>3, <2>4, <2>5
<1>5. CASE SaveTerminal \/ DeleteRow \/ SaveCreating
  <2>1. /\ op.pc \in {"saveTerminal", "deleteRow", "saveCreating"}
        /\ \/ op' \in {Idle, Returned(op), [Returned(op) EXCEPT !.err = TRUE]}
           \/ \E pc \in {"deleteRow", "allocate"} : op' = [op EXCEPT !.pc = pc]
    BY <1>5 DEF SaveTerminal, DeleteRow, SaveCreating, SaveOk, SaveFails, ReturnError, Abort
  <2>2. op.l.proc = NoProc /\ ~Unnamed
    BY <1>0, <2>1 DEF HandleInv, UnnamedAt
  <2>3. CASE op' \in {Idle, Returned(op), [Returned(op) EXCEPT !.err = TRUE]}
    <3>1. EmptyHanded' /\ ~Unnamed'
      BY <1>0, <2>3, Emptied
    <3> QED BY <1>q, <2>2, <3>1
  <2>4. CASE \E pc \in {"deleteRow", "allocate"} : op' = [op EXCEPT !.pc = pc]
    <3>1. op'.l = op.l
      BY <1>0, <2>4 DEF Operation
    <3>2. EmptyHanded' /\ ~Unnamed'
      BY <2>2, <3>1, StoreAssumption DEF EmptyHanded, Unnamed, Alive
    <3> QED BY <1>q, <2>2, <3>2
  <2> QED BY <2>1, <2>3, <2>4
<1> QED BY <1>1, <1>2, <1>3, <1>4, <1>5 DEF Compensation

\* A start names its process with the save after the spawn, or pays for not
\* having named it.
LEMMA StartPaid ==
  ASSUME IsFiniteSet(Procs), IInv, OrphanInv, Start
  PROVE  OrphanInv'
<1>0. /\ Next /\ op \in Operation /\ op.l \in LinkRow /\ spent \in Spent /\ StoreTypeOK
      /\ HandleInv /\ FrameInv /\ UnnamedAt /\ op.cancelled \in BOOLEAN
  BY DEF Next, Operate, IInv, Safe, HandInv, TypeOK, Spent, Operation, OrphanInv
<1>h. InHand /\ op.id \in Links /\ LiveLink(op.id) /\ op.l.slot = "live"
  <2>1. InHand
    BY DEF Start, StartExpired, Allocate, SaveStarting, ReleasePort, Spawn, SaveSpawned,
           CheckHealth, SaveHealthy, AddRoute, SaveActive, Unroute, InHand, StartPCs
  <2> QED BY <1>0, <2>1 DEF FrameInv
<1>b. /\ Budget \in Nat /\ Budget' \in Nat /\ Budget' >= Budget /\ Owed \in 0 .. 3 /\ Owed' \in 0 .. 3
      /\ CallFails /\ ~op.cancelled => Budget' = Budget + 1
  BY <1>0, BudgetGrows, BudgetMoves, OwedTyped
<1>n. ASSUME ~Unnamed, EmptyHanded', ~Unnamed' PROVE OrphanInv'
  BY <1>0, <1>n, NothingUnnamed
\* What was not unnamed stays so, in the hand of the next call or of nobody.
<1>c. ASSUME ~Unnamed, UNCHANGED procs,
             op'.id = op.id /\ op'.l.proc = op.l.proc /\ InHand',
             \/ rows'[op.id].proc = rows[op.id].proc
             \/ rows'[op.id].proc = op.l.proc
      PROVE  OrphanInv'
  <2>1. EmptyHanded' /\ ~Unnamed'
    BY <1>c, <1>h DEF EmptyHanded, Unnamed, Alive
  <2> QED BY <1>c, <1>n, <2>1
<1>i. ASSUME ~Unnamed, op' = Idle PROVE OrphanInv'
  <2>1. op'.pc = "idle" /\ op'.l.proc = NoProc
    BY <1>i DEF Idle, FreeLink
  <2>2. EmptyHanded' /\ ~Unnamed'
    BY <2>1 DEF EmptyHanded, Unnamed, InHand, StartPCs, CompensationPCs, AfterPCs
  <2> QED BY <1>i, <1>n, <2>2
<1>f. op' = Compensate(op, "fail") =>
        /\ op'.id = op.id /\ op'.l = op.l /\ op'.cancelled = op.cancelled /\ op'.pc = "removeRoute"
        /\ InHand'
  BY <1>0 DEF Compensate, Operation, InHand, CompensationPCs
<1>1. CASE StartExpired
  <2>1. op.pc = "allocate" /\ op' = Idle
    BY <1>1 DEF StartExpired
  <2> QED BY <1>0, <1>i, <2>1 DEF UnnamedAt
<1>2. CASE Allocate
  <2>1. /\ op.pc = "allocate" /\ UNCHANGED <<rows, procs>>
        /\ \/ op' = Compensate(op, "fail")
           \/ \E p : op' = [op EXCEPT !.pc = "saveStarting", !.l.port = p, !.l.status = "starting"]
    BY <1>2 DEF Allocate, FailStart, store
  <2>2. ASSUME NEW p, op' = [op EXCEPT !.pc = "saveStarting", !.l.port = p, !.l.status = "starting"]
        PROVE  op'.id = op.id /\ op'.l.proc = op.l.proc /\ op'.pc = "saveStarting"
    BY <1>0, <2>2 DEF Operation, LinkRow
  <2>3. op'.id = op.id /\ op'.l.proc = op.l.proc /\ InHand'
    BY <1>f, <2>1, <2>2 DEF InHand, StartPCs
  <2> QED BY <1>0, <1>c, <2>1, <2>3 DEF UnnamedAt
<1>3. CASE SaveStarting \/ SaveHealthy
  <2>1. /\ op.pc \in {"saveStarting", "saveHealthy"} /\ UNCHANGED procs
        /\ \/ SaveLink(op.id, op.l) /\ \E pc \in {"releasePort", "addRoute"} : op' = [op EXCEPT !.pc = pc]
           \/ UNCHANGED rows /\ op' = Compensate(op, "fail")
    BY <1>3 DEF SaveStarting, SaveHealthy, SaveOk, FailStart, store, world
  <2>2. op'.id = op.id /\ op'.l.proc = op.l.proc /\ InHand'
    BY <1>0, <1>f, <2>1 DEF Operation, InHand, StartPCs
  <2>3. rows'[op.id].proc = rows[op.id].proc \/ rows'[op.id].proc = op.l.proc
    BY <1>0, <1>h, <2>1, SaveEffect
  <2> QED BY <1>0, <1>c, <2>1, <2>2, <2>3 DEF UnnamedAt
<1>4. CASE ReleasePort \/ CheckHealth \/ AddRoute \/ Unroute
  <2>1. /\ op.pc \in {"releasePort", "checkHealth", "addRoute", "unroute"} /\ UNCHANGED <<rows, procs>>
        /\ \/ op' = Compensate(op, "fail")
           \/ op' = [op EXCEPT !.pc = "spawn"]
           \/ op' = [op EXCEPT !.pc = "saveHealthy", !.l.status = "healthy"]
           \/ op' = [op EXCEPT !.pc = "saveActive", !.l.status = "active"]
    BY <1>4 DEF ReleasePort, CheckHealth, AddRoute, Unroute, Goto, FailStart, store, world
  <2>2. ASSUME NEW pc \in StartPCs, NEW st, op' = [op EXCEPT !.pc = pc, !.l.status = st]
        PROVE  op'.id = op.id /\ op'.l.proc = op.l.proc /\ InHand'
    BY <1>0, <2>2 DEF Operation, LinkRow, InHand
  <2>3. ASSUME op' = [op EXCEPT !.pc = "spawn"]
        PROVE  op'.id = op.id /\ op'.l.proc = op.l.proc /\ InHand'
    BY <1>0, <2>3 DEF Operation, InHand, StartPCs
  <2>4. op'.id = op.id /\ op'.l.proc = op.l.proc /\ InHand'
    BY <1>f, <2>1, <2>2, <2>3 DEF StartPCs
  <2> QED BY <1>0, <1>c, <2>1, <2>4 DEF UnnamedAt
<1>5. CASE SaveActive
  <2>1. /\ op.pc = "saveActive" /\ UNCHANGED procs
        /\ SaveLink(op.id, op.l) \/ UNCHANGED rows
        /\ op' = Idle \/ op' = [op EXCEPT !.pc = "unroute"]
    BY <1>5 DEF SaveActive, SaveOk, Goto, store, world
  <2>2. CASE op' = Idle
    BY <1>0, <1>i, <2>1, <2>2 DEF UnnamedAt
  <2>3. CASE op' = [op EXCEPT !.pc = "unroute"]
    <3>1. op'.id = op.id /\ op'.l.proc = op.l.proc /\ InHand'
      BY <1>0, <2>3 DEF Operation, InHand, StartPCs
    <3>2. rows'[op.id].proc = rows[op.id].proc \/ rows'[op.id].proc = op.l.proc
      BY <1>0, <1>h, <2>1, SaveEffect
    <3> QED BY <1>0, <1>c, <2>1, <3>1, <3>2 DEF UnnamedAt
  <2> QED BY <2>1, <2>2, <2>3
<1>6. CASE Spawn
  <2>1. op.pc = "spawn" /\ UNCHANGED rows /\ ~Unnamed
    BY <1>0, <1>6 DEF Spawn, UnnamedAt, store
  <2>2. CASE UNCHANGED procs /\ op' = Compensate(op, "fail")
    BY <1>c, <1>f, <2>1, <2>2
  <2>3. ASSUME NEW q \in UnusedProcs, CallOk, op' = [op EXCEPT !.pc = "saveSpawned", !.l.proc = q]
        PROVE  OrphanInv'
    <3>1. op'.pc = "saveSpawned" /\ op'.cancelled = FALSE
      BY <1>0, <2>3 DEF Operation, CallOk
    <3>2. EmptyHanded' /\ UnnamedAt'
      BY <3>1 DEF EmptyHanded, UnnamedAt, InHand, StartPCs
    <3>3. Owed' = 0
      BY <3>1 DEF Owed
    <3>4. Owed' <= Owed
      BY <1>b, <3>3
    <3>5. Owed' + Budget <= Owed + Budget'
      BY <1>b, <3>4, StepPays
    <3> QED BY <1>0, <2>1, <3>2, <3>5, NothingLost
  <2> QED BY <1>6, <2>2, <2>3 DEF Spawn, FailStart
<1>7. CASE SaveSpawned
  <2>1. /\ op.pc = "saveSpawned" /\ UNCHANGED procs
        /\ \/ SaveLink(op.id, op.l) /\ op' = [op EXCEPT !.pc = "checkHealth", !.l = Substituted(op.l)]
           \/ CallFails /\ UNCHANGED rows /\ op' = Compensate(op, "fail")
    BY <1>7 DEF SaveSpawned, SaveOk, FailStart, store, world
  <2>2. CASE SaveLink(op.id, op.l) /\ op' = [op EXCEPT !.pc = "checkHealth", !.l = Substituted(op.l)]
    <3>1. rows'[op.id] = op.l
      BY <1>0, <1>h, <2>2, SaveEffect
    <3>2. op'.id = op.id /\ op'.l.proc = op.l.proc /\ op'.pc = "checkHealth"
      BY <1>0, <2>2 DEF Operation, Substituted, LinkRow
    <3>3. EmptyHanded' /\ UnnamedAt' /\ ~Unnamed'
      BY <3>1, <3>2 DEF EmptyHanded, UnnamedAt, Unnamed, InHand, StartPCs
    <3>4. Owed' = 0
      BY <3>3, OwedTyped
    <3>5. Owed' <= Owed
      BY <1>b, <3>4
    <3>6. Owed' + Budget <= Owed + Budget'
      BY <1>b, <3>5, StepPays
    <3> QED BY <1>0, <3>2, <3>3, <3>6, NothingLost
  <2>3. CASE CallFails /\ UNCHANGED rows /\ op' = Compensate(op, "fail")
    <3>1. EmptyHanded' /\ UnnamedAt' /\ op'.l.proc = op.l.proc
      BY <1>f, <2>3 DEF EmptyHanded, UnnamedAt
    <3>2. Unnamed' <=> Unnamed
      BY <1>f, <1>h, <2>1, <2>3 DEF Unnamed, Alive
    <3>3. op.cancelled => Owed' = Owed
      BY <1>f, <2>3, <3>2 DEF Owed
    <3>4. ~op.cancelled => Owed' <= Owed + 1 /\ Budget' = Budget + 1
      <4>1. ~op.cancelled => Owed = 0 /\ Owed' \in {0, 1}
        BY <1>f, <2>1, <2>3, <3>2 DEF Owed
      <4> QED BY <1>b, <2>3, <4>1
    <3>5. Owed' <= Owed \/ (Budget' = Budget + 1 /\ Owed' <= Owed + 1)
      BY <1>b, <3>3, <3>4
    <3>6. CASE Owed' <= Owed
      <4>1. Owed' + Budget <= Owed + Budget'
        BY <1>b, <3>6, StepPays
      <4> QED BY <1>0, <3>1, <4>1, NothingLost
    <3>7. CASE Budget' = Budget + 1 /\ Owed' <= Owed + 1
      <4>1. Owed' + Budget <= Owed + Budget'
        BY <1>b, <3>7, StepPays
      <4> QED BY <1>0, <3>1, <4>1, NothingLost
    <3> QED BY <3>5, <3>6, <3>7
  <2> QED BY <2>1, <2>2, <2>3
<1> QED BY <1>1, <1>2, <1>3, <1>4, <1>5, <1>6, <1>7 DEF Start

\* A daemon that is down has no operation in progress.
DownIsIdle == mode \in {"down", "stopped"} => op.pc = "idle"

\* No step gives a daemon that is down an operation.
LEMMA DownStaysIdle ==
  ASSUME DownIsIdle, Next
  PROVE  DownIsIdle'
<1>1. op' = Idle => op'.pc = "idle"
  BY DEF Idle
<1>2. ASSUME op.pc # "idle", mode' = mode \/ op' = Idle PROVE DownIsIdle'
  BY <1>1, <1>2 DEF DownIsIdle
<1>3. CASE Operate
  <2>1. op.pc # "idle"
    BY <1>3 DEF Operate, Start, StartExpired, Allocate, SaveStarting, ReleasePort, Spawn, SaveSpawned,
       CheckHealth, SaveHealthy, AddRoute, SaveActive, Unroute, Compensation, RemoveRoute, StopProcess,
       ReturnPort, SaveFailed, SaveTerminal, DeleteRow, SaveCreating, DropSpace, PurgeSpace,
       DestroyLinks, Reconcile, SweepLinks, SweepSpaces, Inspect, ApplyRoutes, Shutdown
  <2>2. CASE Start
    BY <1>2, <2>1, <2>2 DEF Start, StartExpired, Allocate, SaveStarting, ReleasePort, Spawn, SaveSpawned,
       CheckHealth, SaveHealthy, AddRoute, SaveActive, Unroute
  <2>3. CASE Compensation
    BY <1>2, <2>1, <2>3 DEF Compensation, RemoveRoute, StopProcess, ReturnPort, SaveFailed, SaveTerminal,
       DeleteRow, SaveCreating, ReturnError, Abort
  <2>4. CASE DropSpace \/ Reconcile \/ Shutdown
    BY <1>2, <2>1, <2>4 DEF DropSpace, PurgeSpace, DestroyLinks, Reconcile, SweepLinks, SweepSpaces,
       Inspect, ApplyRoutes, Shutdown, QueryFails, Abort
  <2> QED BY <1>3, <2>2, <2>3, <2>4 DEF Operate
<1>4. CASE Requests \/ Ticker \/ BeginShutdown \/ StopSignal \/ Startup
  BY <1>4 DEF Requests, CreateSpace, RequestDrop, CreateLink, RequestDelete, RequestRestart, Admitted,
     Ticker, BeginShutdown, StopSignal, Startup, DownIsIdle
<1>5. CASE Crash
  BY <1>1, <1>5 DEF Crash, DownIsIdle
<1>6. CASE Tick \/ (\E q \in Procs : Exit(q))
  BY <1>6 DEF Tick, Exit, DownIsIdle
<1>7. CASE Cancel
  <2>1. UNCHANGED mode /\ op.kind # "none" /\ op' = [op EXCEPT !.cancelled = TRUE]
    BY <1>7 DEF Cancel, Cancellable
  <2> QED BY <2>1 DEF DownIsIdle
<1> QED BY <1>3, <1>4, <1>5, <1>6, <1>7 DEF Next

\* Where nothing is in hand nothing is unnamed: a request and a loop take a link
\* in hand with the process of its row.
LEMMA ElsewherePaid ==
  ASSUME IsFiniteSet(Procs), IInv, OrphanInv, DownIsIdle,
         DropSpace \/ Reconcile \/ Shutdown \/ Requests \/ Ticker \/ BeginShutdown \/ Startup
  PROVE  OrphanInv'
<1>0. /\ Next /\ op \in Operation /\ StoreTypeOK /\ EmptyHanded
  BY DEF Next, Operate, IInv, TypeOK, OrphanInv
<1>h. op.pc \in LoopPCs \union {"idle"}
  BY DEF DropSpace, PurgeSpace, DestroyLinks, Reconcile, SweepLinks, SweepSpaces, Inspect,
     ApplyRoutes, Shutdown, Requests, CreateSpace, RequestDrop, CreateLink, RequestDelete,
     RequestRestart, Admitted, Ticker, BeginShutdown, Startup, DownIsIdle, LoopPCs
<1>i. ~InHand /\ ~Unnamed /\ op.l.proc = NoProc
  BY <1>0, <1>h DEF InHand, Unnamed, EmptyHanded, LoopPCs, StartPCs, CompensationPCs, AfterPCs
<1>n. ASSUME op'.l.proc = NoProc PROVE OrphanInv'
  <2>1. EmptyHanded' /\ ~Unnamed'
    BY <1>n, StoreAssumption DEF EmptyHanded, Unnamed, Alive
  <2> QED BY <1>0, <1>i, <2>1, NothingUnnamed
<1>t. ASSUME NEW k, UNCHANGED rows, op'.id = k, op'.l = rows[k], InHand' PROVE OrphanInv'
  <2>1. EmptyHanded' /\ ~Unnamed'
    BY <1>t DEF EmptyHanded, Unnamed
  <2> QED BY <1>0, <1>i, <2>1, NothingUnnamed
<1>d. ASSUME NEW o \in Operation, NEW k, NEW term, NEW ret, UNCHANGED rows,
             op' = Destroy(o, k, term, ret)
      PROVE  OrphanInv'
  <2>1. op'.id = k /\ op'.l = rows[k] /\ InHand'
    BY <1>d, DestroyEffect DEF InHand, CompensationPCs
  <2> QED BY <1>d, <1>t, <2>1
<1>e. Idle \in Operation /\ Request \in Operation /\ Idle.l.proc = NoProc /\ Request.l.proc = NoProc
      /\ Request = [Idle EXCEPT !.kind = "request"]
  BY FreshTypes DEF Idle, FreeLink, Request
<1>v. \A k : Visiting(k) \in Operation
  BY <1>0 DEF Visiting, Operation
<1>1. CASE DropSpace \/ PurgeSpace
  <2>1. \/ UNCHANGED rows /\ \E k, term, ret : op' = Destroy(Visiting(k), k, term, ret)
        \/ op' \in {Idle, [op EXCEPT !.pc = "spaces", !.space = NoSpace]}
    BY <1>1 DEF DropSpace, PurgeSpace, DestroyLinks, QueryFails, Abort, store
  <2>2. [op EXCEPT !.pc = "spaces", !.space = NoSpace].l = op.l
    BY <1>0 DEF Operation
  <2> QED BY <1>d, <1>e, <1>i, <1>n, <1>v, <2>1, <2>2
<1>2. CASE SweepLinks \/ SweepSpaces \/ Inspect \/ ApplyRoutes \/ Shutdown
  <2>1. /\ UNCHANGED rows
        /\ \/ \E k, term, ret : op' = Destroy(Visiting(k), k, term, ret)
           \/ op' = Idle
           \/ op' = [op EXCEPT !.pc = "spaces"]
           \/ \E s : op' = [op EXCEPT !.pc = "purge", !.space = s, !.todo = ListLinks(s)]
           \/ op' = [op EXCEPT !.pc = "inspect", !.asOf = now, !.ended = EndedProcs,
                        !.todo = ReconciliationLinks(now)]
           \/ \E k : op' = [Visiting(k) EXCEPT !.desired = @ \union {k}]
    BY <1>2 DEF SweepLinks, SweepSpaces, Inspect, ApplyRoutes, Shutdown, QueryFails, Abort, Goto, store
  <2>2. ASSUME op' = [op EXCEPT !.pc = "spaces"]
               \/ (\E s : op' = [op EXCEPT !.pc = "purge", !.space = s, !.todo = ListLinks(s)])
               \/ op' = [op EXCEPT !.pc = "inspect", !.asOf = now, !.ended = EndedProcs,
                            !.todo = ReconciliationLinks(now)]
        PROVE  op'.l = op.l
    BY <1>0, <2>2 DEF Operation
  <2>3. ASSUME NEW k, op' = [Visiting(k) EXCEPT !.desired = @ \union {k}] PROVE op'.l = op.l
    BY <1>0, <2>3 DEF Operation, Visiting
  <2>4. CASE \E k, term, ret : op' = Destroy(Visiting(k), k, term, ret)
    BY <1>d, <1>v, <2>1, <2>4
  <2>5. CASE op' = Idle \/ op'.l = op.l
    BY <1>e, <1>i, <1>n, <2>5
  <2> QED BY <2>1, <2>2, <2>3, <2>4, <2>5
<1>3. CASE Requests
  <2>1. CASE \E s \in Spaces : CreateSpace(s)
    BY <1>i, <1>n, <2>1 DEF CreateSpace
  <2>2. ASSUME NEW s \in Spaces, RequestDrop(s) PROVE OrphanInv'
    <3>1. op' = [Request EXCEPT !.pc = "drop", !.space = s, !.todo = ListLinks(s)]
      BY <2>2 DEF RequestDrop
    <3>2. op'.l = Request.l
      BY <1>e, <3>1 DEF Operation
    <3> QED BY <1>e, <1>n, <3>2
  <2>3. ASSUME NEW k \in Links, NEW s \in Spaces, CreateLink(k, s) PROVE OrphanInv'
    <3>1. PICK e, u : op' = [Request EXCEPT !.pc = "allocate", !.id = k,
                               !.l = [FreeLink EXCEPT !.slot = "live", !.space = s,
                                                      !.probe = u, !.exp = e]]
      BY <2>3 DEF CreateLink
    <3>2. op'.l = [FreeLink EXCEPT !.slot = "live", !.space = s, !.probe = u, !.exp = e]
      BY <1>e, <3>1 DEF Operation
    <3>3. op'.l.proc = NoProc
      BY <3>2 DEF FreeLink
    <3> QED BY <1>n, <3>3
  <2>4. ASSUME NEW k \in Links, RequestDelete(k) PROVE OrphanInv'
    BY <1>d, <1>e, <2>4 DEF RequestDelete, store
  <2>5. ASSUME NEW k \in Links, RequestRestart(k) PROVE OrphanInv'
    <3>1. UNCHANGED rows
      BY <2>5 DEF RequestRestart, store
    <3>2. CASE op' = Destroy(Request, k, "expired", "idle")
      BY <1>d, <1>e, <3>1, <3>2
    <3>3. CASE op' = Compensate([Request EXCEPT !.id = k, !.l = rows[k]], "restart")
      <4>1. op'.id = k /\ op'.l = rows[k] /\ op'.pc = "removeRoute"
        BY <1>e, <3>3 DEF Compensate, Operation
      <4> QED BY <1>t, <3>1, <4>1 DEF InHand, CompensationPCs
    <3> QED BY <2>5, <3>2, <3>3 DEF RequestRestart
  <2> QED BY <1>3, <2>1, <2>2, <2>3, <2>4, <2>5 DEF Requests
<1>4. CASE Ticker \/ BeginShutdown \/ Startup
  <2>1. \/ op' = [Idle EXCEPT !.kind = "reconcile", !.pc = "expired", !.asOf = now, !.todo = ExpiredLinks(now)]
        \/ op' = [Idle EXCEPT !.kind = "shutdown", !.pc = "shut", !.asOf = now,
                              !.todo = ReconciliationLinks(now)]
    BY <1>4 DEF Ticker, BeginShutdown, Startup, BeginReconcile
  <2>2. op'.l = Idle.l
    BY <1>e, <2>1 DEF Operation
  <2> QED BY <1>e, <1>n, <2>2
<1> QED BY <1>1, <1>2, <1>3, <1>4 DEF Reconcile

\* A crash and a cancellation each pay for the one process in hand.
LEMMA WorldPaid ==
  ASSUME IsFiniteSet(Procs), IInv, OrphanInv,
         StopSignal \/ Crash \/ Tick \/ (\E q \in Procs : Exit(q)) \/ Cancel
  PROVE  OrphanInv'
<1>0. /\ Next /\ TypeOK /\ op \in Operation /\ spent \in Spent /\ UnnamedAt /\ EmptyHanded
  BY DEF Next, IInv, TypeOK, Spent, OrphanInv
<1>b. /\ Budget \in Nat /\ Budget' \in Nat /\ Budget' >= Budget /\ Owed \in 0 .. 3 /\ Owed' \in 0 .. 3
  BY <1>0, BudgetGrows, OwedTyped
<1>p. ASSUME \/ spent' = [spent EXCEPT !.crashes = @ + 1]
             \/ spent' = [spent EXCEPT !.cancels = @ + 1]
      PROVE  Budget' = Budget + 3
  <2>1. /\ spent.faults \in Nat /\ spent.crashes \in Nat /\ spent.cancels \in Nat
        /\ spent'.faults = spent.faults
        /\ spent'.crashes + spent'.cancels = spent.crashes + spent.cancels + 1
        /\ spent'.crashes + spent'.cancels \in Nat
    BY <1>0, <1>p DEF Spent
  <2> QED BY <2>1 DEF Budget
<1>1. CASE Crash
  <2>1. op' = Idle /\ Budget' = Budget + 3
    BY <1>1, <1>p DEF Crash
  <2>2. EmptyHanded' /\ ~Unnamed'
    BY <2>1 DEF EmptyHanded, Unnamed, Idle, FreeLink, InHand, StartPCs, CompensationPCs, AfterPCs
  <2>3. 3 + Budget <= Owed + Budget'
    BY <1>b, <2>1
  <2> QED BY <1>0, <2>2, <2>3, OneLost
<1>2. CASE Cancel
  <2>1. op' = [op EXCEPT !.cancelled = TRUE] /\ Budget' = Budget + 3 /\ UNCHANGED <<rows, procs>>
    BY <1>2, <1>p DEF Cancel, store, world
  <2>2. op'.pc = op.pc /\ op'.id = op.id /\ op'.l = op.l
    BY <1>0, <2>1 DEF Operation
  <2>3. EmptyHanded' /\ UnnamedAt'
    BY <1>0, <2>1, <2>2 DEF EmptyHanded, UnnamedAt, Unnamed, InHand, Alive
  <2>4. Owed' + Budget <= Owed + Budget'
    BY <1>b, <2>1
  <2> QED BY <1>0, <2>2, <2>3, <2>4, NothingLost
<1>3. CASE StopSignal \/ Tick \/ (\E q \in Procs : Exit(q))
  <2>1. op' = op /\ rows' = rows /\ (procs' = procs \/ \E q : procs' = Killed(q))
    BY <1>3 DEF StopSignal, Tick, Exit, store, world
  <2>2. Unnamed' => Unnamed
    BY <1>0, <2>1 DEF Unnamed, InHand, Alive, Killed, TypeOK
  <2>3. EmptyHanded' /\ UnnamedAt'
    BY <1>0, <2>1, <2>2 DEF EmptyHanded, UnnamedAt, InHand
  <2>4. Owed' <= Owed
    <3>1. Unnamed' => Owed' = Owed
      BY <2>1, <2>2 DEF Owed
    <3>2. ~Unnamed' => Owed' = 0
      BY OwedTyped
    <3> QED BY <1>b, <3>1, <3>2
  <2>5. Owed' + Budget <= Owed + Budget'
    BY <1>b, <2>4, StepPays
  <2> QED BY <1>0, <2>1, <2>3, <2>5, NothingLost
<1> QED BY <1>1, <1>2, <1>3

\* Whatever fails, in whatever number: a process group that no row and no
\* operation names any more was paid for by a crash or a cancelled operation of
\* its own, or by three failing calls (Service.start and failStart, service.go).
THEOREM NoOrphanAlways ==
  ASSUME IsFiniteSet(Procs)
  PROVE  Spec => []NoOrphan
<1>1. Init => OrphanInv /\ DownIsIdle
  <2> SUFFICES ASSUME Init PROVE OrphanInv /\ DownIsIdle
    OBVIOUS
  <2>1. op.pc = "idle" /\ op.l.proc = NoProc /\ LostProcs = {}
    BY DEF Init, Idle, FreeLink, LostProcs, Alive
  <2>2. Owed = 0 /\ EmptyHanded /\ UnnamedAt /\ DownIsIdle
    BY <2>1, StoreAssumption DEF Owed, Unnamed, EmptyHanded, UnnamedAt, DownIsIdle, Alive
  <2>3. Cardinality(LostProcs) = 0 /\ Budget = 0
    BY <2>1, FS_EmptySet DEF Init, Budget
  <2> QED BY <2>2, <2>3 DEF OrphanInv, Paid
<1>2. ASSUME IInv, OrphanInv, DownIsIdle, [Next]_vars
      PROVE  OrphanInv' /\ DownIsIdle'
  <2>1. CASE Next
    BY <1>2, <2>1, StartPaid, CompensationPaid, ElsewherePaid, WorldPaid, DownStaysIdle
       DEF Next, Operate
  <2>2. CASE UNCHANGED vars
    <3>1. LostProcs' = LostProcs /\ Owed' = Owed /\ Budget' = Budget
      BY <2>2 DEF vars, LostProcs, Owed, Budget, Unnamed, InHand, Alive, LiveLink
    <3> QED BY <1>2, <2>2, <3>1 DEF vars, OrphanInv, Paid, UnnamedAt, Unnamed, EmptyHanded, InHand,
                                     Alive, DownIsIdle
  <2> QED BY <1>2, <2>1, <2>2
<1>3. IInv /\ OrphanInv => NoOrphan
  <2> SUFFICES ASSUME IInv, OrphanInv PROVE NoOrphan
    OBVIOUS
  <2>1. spent \in Spent
    BY DEF IInv, TypeOK, Spent
  <2>2. LostProcs \in SUBSET Procs
    BY DEF LostProcs
  <2>3. Cardinality(LostProcs) \in Nat /\ Budget \in Nat /\ Owed \in 0 .. 3
    BY <2>1, <2>2, LostCounted, BudgetMoves, OwedTyped
  <2>4. 3 * Cardinality(LostProcs) <= Budget
    BY <2>3 DEF OrphanInv, Paid
  <2> QED BY <2>4 DEF NoOrphan, Budget
<1> QED BY <1>1, <1>2, <1>3, Initially, Inductive, PTL DEF Spec
=============================================================================
