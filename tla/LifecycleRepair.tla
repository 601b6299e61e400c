-------------------------- MODULE LifecycleRepair --------------------------
(***************************************************************************)
(* What a pass that returns nil and a Shutdown that returns nil leave      *)
(* behind, for any number of links, faults, cancelled contexts and         *)
(* crashes.  The argument needs what no single row says: that a loop's     *)
(* snapshot has not lost a link, and that no link is kept whose process    *)
(* had exited before the links were read.                                  *)
(* Last, that whatever fails the operation that holds Service.mu goes      *)
(* forward with each of its calls.                                         *)
(***************************************************************************)
EXTENDS LifecycleSafety

\* Whoever had exited when the pass read the links stays dead.
EndedInv == \A q \in op.ended : q \in Procs /\ procs[q] = "dead"

\* A link in a terminal status names no process.
Cleared(l) == l.status \in {"deleted", "expired"} => l.proc = NoProc
ClearedInv == Cleared(op.l) /\ \A k \in Links : LiveLink(k) => Cleared(rows[k])

\* A start belongs to a request and returns to no loop; it marks the link as
\* starting before it has a child.
Starting == \/ op.pc \in StartPCs \union {"saveCreating"}
            \/ op.pc \in CompensationPCs /\ op.then = "restart"
Reserving == op.pc \in {"saveStarting", "releasePort", "spawn"}
StartInv == /\ Starting => op.ret = "idle"
            /\ Reserving => op.l.status = "starting"

\* The links that a pass or a shutdown has to look at.
Due(k) == /\ LiveLink(k) /\ rows[k].status \notin {"deleted", "expired"}
          /\ ~Expired(rows[k].exp, op.asOf)

\* Each of them is still to come, was kept, or is in hand; Shutdown may have
\* left one behind with an error.
SnapshotInv ==
  /\ op.err => Loop = "shut"
  /\ Loop \in {"inspect", "shut"} =>
       /\ \A k \in op.todo \union op.desired : ~Expired(rows[k].exp, op.asOf)
       /\ \/ op.err
          \/ \A k \in Links : Due(k) => k \in op.todo \union op.desired \/ (InHand /\ k = op.id)

\* No link that stays names a process that had exited by then.
DesiredInv == \A k \in op.desired : rows[k].proc \notin op.ended

RInv == EndedInv /\ ClearedInv /\ StartInv /\ SnapshotInv /\ DesiredInv

----------------------------------------------------------------------------
(* Moves that several actions share *)

\* What a step may do to the processes and to a row.
DeadStay == \A q \in Procs : procs[q] = "dead" => procs'[q] = "dead"
RowMove(k) == \/ rows'[k] = rows[k]
              \/ InHand /\ k = op.id /\ rows'[k] = op.l
              \/ rows'[k].slot # "live"
              \/ rows'[k].proc = NoProc

\* The frame of a loop, as far as the calls on one link leave it alone.
SameLoop(o) == SameTask(o) /\ o.asOf = op.asOf /\ o.err = op.err /\ o.ended = op.ended

\* The frame takes in only who has exited.
SameEnded(o) == o.ended \subseteq op.ended \union EndedProcs

LEMMA EndedKept ==
  ASSUME EndedInv, DeadStay, SameEnded(op')
  PROVE  EndedInv'
BY DEF EndedInv, DeadStay, SameEnded, EndedProcs

\* What a row says of its process stays true.
LEMMA RowsCleared ==
  ASSUME ClearedInv, \A k \in Links : RowMove(k)
  PROVE  \A k \in Links : LiveLink(k)' => Cleared(rows[k])'
<1> SUFFICES ASSUME NEW k \in Links, LiveLink(k)'
             PROVE  Cleared(rows[k])'
  OBVIOUS
<1>1. CASE rows'[k] = rows[k] \/ (InHand /\ k = op.id /\ rows'[k] = op.l)
  BY <1>1 DEF ClearedInv, Cleared, LiveLink
<1>2. CASE rows'[k].proc = NoProc
  BY <1>2 DEF Cleared
<1> QED BY <1>1, <1>2 DEF RowMove, LiveLink

\* A step after which nothing is in hand.
LEMMA Settled ==
  ASSUME RInv, DeadStay, SameEnded(op'), \A k \in Links : RowMove(k),
         op'.pc \in LoopPCs \union {"idle"}, op'.l \in {op.l, FreeLink}
  PROVE  EndedInv' /\ ClearedInv' /\ StartInv' /\ ~InHand'
<1>1. ~InHand' /\ ~Starting' /\ ~Reserving'
  BY DEF InHand, Starting, Reserving, LoopPCs, StartPCs, CompensationPCs, AfterPCs
<1>2. EndedInv'
  BY EndedKept DEF RInv
<1>3. Cleared(op.l)'
  BY DEF RInv, ClearedInv, Cleared, FreeLink
<1>4. ClearedInv'
  BY <1>3, RowsCleared DEF RInv, ClearedInv
<1> QED BY <1>1, <1>2, <1>4 DEF StartInv, Reserving

\* The operation is over.
LEMMA IdleRepaired ==
  ASSUME RInv, DeadStay, \A k \in Links : RowMove(k), op' = Idle
  PROVE  RInv'
<1>1. /\ op'.pc = "idle" /\ op'.l = FreeLink /\ op'.desired = {} /\ ~op'.err
      /\ SameEnded(op')
  BY DEF Idle, SameEnded
<1>2. EndedInv' /\ ClearedInv' /\ StartInv' /\ ~InHand'
  BY <1>1, Settled
<1> QED BY <1>1, <1>2 DEF RInv, SnapshotInv, DesiredInv, Loop

\* A call on the link in hand after which it is still in hand.
LEMMA HandRepaired ==
  ASSUME IInv, RInv, DeadStay, InHand, InHand', SameLoop(op'),
         \A k \in Links \ {op.id} : rows'[k] = rows[k],
         rows'[op.id] \in {rows[op.id], op.l},
         Cleared(op.l)', StartInv'
  PROVE  RInv'
<1>0. /\ op'.id = op.id /\ op'.todo = op.todo /\ op'.desired = op.desired /\ op'.ret = op.ret
      /\ op'.asOf = op.asOf /\ op'.err = op.err /\ op'.ended = op.ended
      /\ op.id \notin op.todo \union op.desired
      /\ op.todo \subseteq Links /\ op.desired \subseteq Links
      /\ Loop' = Loop
  BY DEF SameLoop, SameTask, IInv, Safe, LoopInv, Loop
<1>1. \A k \in Links : RowMove(k)
  BY DEF RowMove
<1>2. EndedInv'
  BY <1>0, EndedKept DEF RInv, SameEnded
<1>3. ClearedInv'
  BY <1>1, RowsCleared DEF RInv, ClearedInv
<1>4. SnapshotInv'
  BY <1>0 DEF RInv, SnapshotInv, Due, LiveLink
<1>5. DesiredInv'
  BY <1>0 DEF RInv, DesiredInv
<1> QED BY <1>2, <1>3, <1>4, <1>5 DEF RInv

\* The loop goes on: the link in hand is archived, or Shutdown keeps the error.
LEMMA ResumeRepaired ==
  ASSUME IInv, RInv, InHand, UNCHANGED procs,
         \A k \in Links \ {op.id} : rows'[k] = rows[k],
         \/ op' = Returned(op) /\ rows'[op.id].slot = "archived"
         \/ /\ op.ret = "shut" /\ op' = [Returned(op) EXCEPT !.err = TRUE]
            /\ RowMove(op.id)
  PROVE  RInv'
<1>0. /\ op \in Operation /\ op.id \notin op.todo \union op.desired
      /\ op.todo \subseteq Links /\ op.desired \subseteq Links
  BY DEF IInv, Safe, LoopInv, TypeOK
<1>1. DeadStay /\ \A k \in Links : RowMove(k)
  BY DEF DeadStay, RowMove
<1>2. CASE op.ret = "idle"
  <2>1. op' = Idle
    BY <1>2 DEF Returned
  <2> QED BY <1>1, <2>1, IdleRepaired
<1>3. CASE op.ret # "idle"
  <2>1. /\ op'.pc = op.ret /\ op.ret \in LoopPCs /\ op'.l = FreeLink /\ op'.asOf = op.asOf
        /\ op'.todo = op.todo /\ op'.desired = op.desired /\ op'.ended = op.ended
        /\ \/ op'.err
           \/ op'.err = op.err /\ rows'[op.id].slot = "archived"
    <3> DEFINE o == Returned(op)
    <3>1. o = [op EXCEPT !.pc = op.ret, !.id = NoLink, !.l = FreeLink, !.compErr = FALSE]
      BY <1>3 DEF Returned
    <3>2. /\ o.pc = op.ret /\ o.l = FreeLink /\ o.asOf = op.asOf
          /\ o.todo = op.todo /\ o.desired = op.desired /\ o.err = op.err /\ o.ended = op.ended
          /\ LET e == [o EXCEPT !.err = TRUE] IN
                /\ e.pc = op.ret /\ e.l = FreeLink /\ e.asOf = op.asOf
                /\ e.todo = op.todo /\ e.desired = op.desired /\ e.err /\ e.ended = op.ended
      BY <1>0, <3>1 DEF Operation
    <3>3. op.ret \in LoopPCs
      BY <1>0, <1>3 DEF Operation
    <3> HIDE DEF o
    <3> QED BY <3>2, <3>3 DEF o
  <2>2. op'.err => op.err \/ op.ret = "shut"
    BY <1>0, <1>3 DEF Returned, Operation
  <2>3. EndedInv' /\ ClearedInv' /\ StartInv' /\ ~InHand'
    BY <1>1, <2>1, Settled DEF SameEnded
  <2>4. Loop' = op.ret /\ Loop = op.ret
    BY <2>1, <2>3 DEF Loop
  <2>5. SnapshotInv'
    BY <1>0, <2>1, <2>2, <2>3, <2>4 DEF RInv, SnapshotInv, Due, LiveLink
  <2>6. DesiredInv'
    BY <1>0, <2>1 DEF RInv, DesiredInv
  <2> QED BY <2>3, <2>5, <2>6 DEF RInv
<1> QED BY <1>2, <1>3

\* A link is taken in hand, for its destruction or restart.
LEMMA TakenRepaired ==
  ASSUME IInv, RInv, NEW k \in Links, LiveLink(k), UNCHANGED <<rows, procs>>, SameEnded(op'),
         op'.pc = "removeRoute", op'.id = k, op'.l = rows[k],
         op'.then = "restart" => op'.ret = "idle"
  PROVE  EndedInv' /\ ClearedInv' /\ StartInv' /\ InHand'
<1>1. InHand'
  BY DEF InHand, CompensationPCs
<1>2. DeadStay /\ \A j \in Links : RowMove(j)
  BY DEF DeadStay, RowMove
<1>3. EndedInv'
  BY <1>2, EndedKept DEF RInv
<1>4. ClearedInv'
  <2>1. Cleared(op.l)'
    BY DEF RInv, ClearedInv, Cleared, LiveLink
  <2> QED BY <1>2, <2>1, RowsCleared DEF RInv, ClearedInv
<1>5. StartInv'
  BY DEF StartInv, Starting, Reserving, StartPCs
<1> QED BY <1>1, <1>3, <1>4, <1>5

----------------------------------------------------------------------------
(* Compensation *)

\* What Compensated keeps of the frame, and what its copy says of the process.
LEMMA CompensatedFrame ==
  ASSUME op \in Operation, NEW o, o \in {op, [op EXCEPT !.compErr = TRUE]}
  PROVE  /\ SameLoop(Compensated(o))
         /\ Compensated(o).pc = "saveCreating" => op.then = "restart"
         /\ Compensated(o).l.proc = NoProc \/ Compensated(o).l.status = "failed"
<1>1. /\ o \in Operation /\ o.then = op.then /\ o.asOf = op.asOf /\ o.err = op.err /\ o.ended = op.ended
      /\ o.compErr \in BOOLEAN /\ o.then \in {"fail", "destroy", "restart"}
  BY DEF Operation
<1>2. /\ SameTask(Compensated(o))
      /\ Compensated(o).pc = "saveFailed" => Compensated(o).l.status = "failed"
      /\ o.compErr => Compensated(o).pc = "saveFailed"
      /\ ~o.compErr => Compensated(o).l.proc = NoProc
  BY CompensatedEffect
<1> DEFINE saved(pc, st) == [o EXCEPT !.pc = pc, !.l.status = st]
           cleared(pc, st) == [saved(pc, st) EXCEPT !.l.port = NoPort, !.l.proc = NoProc]
<1>3. \/ Compensated(o) = saved("saveFailed", "failed")
      \/ Compensated(o) = cleared("saveFailed", "failed")
      \/ Compensated(o) = cleared("saveTerminal", o.term)
      \/ Compensated(o) = cleared("saveCreating", "creating") /\ o.then = "restart"
  <2>1. CASE o.compErr
    BY <2>1 DEF Compensated
  <2>2. CASE ~o.compErr
    BY <1>1, <2>2 DEF Compensated
  <2> QED BY <1>1, <2>1, <2>2
<1>4. ASSUME NEW pc, NEW st
      PROVE  /\ saved(pc, st).pc = pc /\ saved(pc, st).asOf = op.asOf
             /\ saved(pc, st).err = op.err /\ saved(pc, st).ended = op.ended
             /\ cleared(pc, st).pc = pc /\ cleared(pc, st).asOf = op.asOf
             /\ cleared(pc, st).err = op.err /\ cleared(pc, st).ended = op.ended
  <2> DEFINE m == saved(pc, st)
  <2>1. /\ m.pc = pc /\ m.asOf = op.asOf /\ m.err = op.err /\ m.ended = op.ended
        /\ {"pc", "asOf", "err", "ended"} \subseteq DOMAIN m
    BY <1>1 DEF Operation
  <2>2. cleared(pc, st) = [m EXCEPT !.l.port = NoPort, !.l.proc = NoProc]
    OBVIOUS
  <2> HIDE DEF m, cleared
  <2>3. /\ cleared(pc, st).pc = m.pc /\ cleared(pc, st).asOf = m.asOf
        /\ cleared(pc, st).err = m.err /\ cleared(pc, st).ended = m.ended
    BY <2>1, <2>2
  <2> QED BY <2>1, <2>3 DEF m
<1> HIDE DEF saved, cleared
<1>5. /\ Compensated(o).asOf = op.asOf /\ Compensated(o).err = op.err
      /\ Compensated(o).ended = op.ended
      /\ Compensated(o).pc = "saveCreating" => o.then = "restart"
  BY <1>3, <1>4
<1> QED BY <1>1, <1>2, <1>5 DEF SameLoop

\* A call of the compensation that succeeded or failed leaves the frame alone.
LEMMA CallMade ==
  ASSUME op \in Operation, NEW pc,
         \/ op' = [op EXCEPT !.pc = pc]
         \/ op' = [op EXCEPT !.pc = pc, !.compErr = TRUE]
  PROVE  op'.pc = pc /\ SameLoop(op') /\ op'.l = op.l /\ op'.then = op.then
<1>1. CASE op' = [op EXCEPT !.pc = pc]
  BY <1>1 DEF Operation, SameLoop, SameTask
<1>2. CASE op' = [op EXCEPT !.pc = pc, !.compErr = TRUE]
  BY <1>2 DEF Operation, SameLoop, SameTask
<1> QED BY <1>1, <1>2

\* Compensation and its callers.
LEMMA CompensationRepaired ==
  ASSUME IInv, RInv, Compensation
  PROVE  RInv'
<1>0. /\ op \in Operation /\ StoreTypeOK /\ StartInv /\ Cleared(op.l)
      /\ procs \in [Procs -> {"unused", "alive", "dead"}]
  BY DEF IInv, TypeOK, RInv, ClearedInv
<1>h. InHand /\ op.id \in Links /\ LiveLink(op.id)
  <2>1. InHand
    BY DEF Compensation, RemoveRoute, StopProcess, ReturnPort, SaveFailed, SaveTerminal,
           DeleteRow, SaveCreating, InHand, CompensationPCs, AfterPCs
  <2> QED BY <2>1 DEF IInv, Safe, HandInv, FrameInv
\* Going on with the next call of the compensation.
<1>n. ASSUME op.pc \in CompensationPCs, op'.pc \in CompensationPCs \union AfterPCs,
             UNCHANGED rows, DeadStay, SameLoop(op'),
             op'.then = op.then \/ op'.pc \in AfterPCs,
             op'.pc = "saveCreating" => op.then = "restart",
             op'.l.proc = NoProc \/ op'.l.status = "failed" \/ op'.l = op.l
      PROVE  RInv'
  <2>1. InHand'
    BY <1>n DEF InHand, CompensationPCs, AfterPCs
  <2>2. Cleared(op.l)'
    BY <1>0, <1>n DEF Cleared
  <2>3. StartInv'
    BY <1>0, <1>n DEF StartInv, Starting, Reserving, StartPCs, AfterPCs, CompensationPCs, SameLoop, SameTask
  <2> QED BY <1>h, <1>n, <2>1, <2>2, <2>3, HandRepaired
\* The save of the copy, and where it leads.
<1>s. ASSUME UNCHANGED procs, SaveLink(op.id, op.l) \/ UNCHANGED rows,
             \/ op' = Idle
             \/ op.ret = "shut" /\ op' = [Returned(op) EXCEPT !.err = TRUE]
      PROVE  RInv'
  <2>1. /\ \A k \in Links \ {op.id} : rows'[k] = rows[k]
        /\ rows'[op.id] \in {rows[op.id], op.l}
    BY <1>0, <1>h, <1>s, SaveEffect
  <2>2. DeadStay /\ \A k \in Links : RowMove(k)
    BY <1>h, <1>s, <2>1 DEF DeadStay, RowMove
  <2> QED BY <1>h, <1>s, <2>1, <2>2, IdleRepaired, ResumeRepaired
<1>1. CASE RemoveRoute
  <2>1. /\ op.pc = "removeRoute" /\ UNCHANGED <<rows, procs>>
        /\ \/ op' = [op EXCEPT !.pc = "stopProcess"]
           \/ op' = [op EXCEPT !.pc = "stopProcess", !.compErr = TRUE]
    BY <1>1 DEF RemoveRoute, RemoveOk, RemoveFails, Goto, store
  <2>2. op'.pc = "stopProcess" /\ SameLoop(op') /\ op'.l = op.l /\ op'.then = op.then
    BY <1>0, <2>1, CallMade
  <2> QED BY <1>n, <2>1, <2>2 DEF CompensationPCs, DeadStay
<1>2. CASE StopProcess
  <2>1. /\ op.pc = "stopProcess" /\ UNCHANGED rows
        /\ procs' \in {procs, Killed(op.l.proc)}
        /\ \/ op' = [op EXCEPT !.pc = "returnPort"]
           \/ op' = [op EXCEPT !.pc = "returnPort", !.compErr = TRUE]
    BY <1>2 DEF StopProcess, Goto, store
  <2>2. op'.pc = "returnPort" /\ SameLoop(op') /\ op'.l = op.l /\ op'.then = op.then
    BY <1>0, <2>1, CallMade
  <2>3. DeadStay
    BY <1>0, <2>1 DEF DeadStay, Killed
  <2> QED BY <1>n, <2>1, <2>2, <2>3 DEF CompensationPCs
<1>3. CASE ReturnPort
  <2>1. PICK o \in {op, [op EXCEPT !.compErr = TRUE]} :
          /\ op.pc = "returnPort" /\ UNCHANGED <<rows, procs>>
          /\ op' = Compensated(o)
    BY <1>3 DEF ReturnPort, store
  <2>2. op'.pc \in AfterPCs
    BY <1>0, <2>1, CompensatedEffect DEF AfterPCs
  <2>3. /\ SameLoop(op')
        /\ op'.pc = "saveCreating" => op.then = "restart"
        /\ op'.l.proc = NoProc \/ op'.l.status = "failed"
    BY <1>0, <2>1, CompensatedFrame
  <2> QED BY <1>n, <2>1, <2>2, <2>3 DEF CompensationPCs, DeadStay
<1>4. CASE SaveFailed
  BY <1>s, <1>4 DEF SaveFailed, ReturnError, Abort, world, store
<1>5. CASE SaveTerminal
  <2>1. CASE SaveLink(op.id, op.l) /\ op' = [op EXCEPT !.pc = "deleteRow"] /\ UNCHANGED procs
    <3>1. op'.pc = "deleteRow" /\ SameLoop(op') /\ op'.l = op.l
      BY <1>0, <2>1 DEF Operation, SameLoop, SameTask
    <3>2. InHand' /\ StartInv'
      BY <3>1 DEF InHand, StartInv, Starting, Reserving, StartPCs, CompensationPCs, AfterPCs
    <3>3. rows'[op.id] = op.l /\ \A k \in Links \ {op.id} : rows'[k] = rows[k]
      BY <1>0, <1>h, <2>1, SaveEffect
    <3>4. DeadStay /\ Cleared(op.l)'
      BY <1>0, <2>1, <3>1 DEF DeadStay, Cleared
    <3> QED BY <1>h, <3>1, <3>2, <3>3, <3>4, HandRepaired
  <2> QED BY <1>s, <1>5, <2>1 DEF SaveTerminal, SaveOk, ReturnError, Abort, world, store
<1>6. CASE DeleteRow
  <2>1. CASE DeleteLink(op.id) /\ op' = Returned(op) /\ UNCHANGED procs
    BY <1>0, <1>h, <2>1, DeleteEffect, ResumeRepaired
  <2> QED BY <1>s, <1>6, <2>1 DEF DeleteRow, ReturnError, Abort, world, store
<1>7. CASE SaveCreating
  <2>1. CASE SaveLink(op.id, op.l) /\ op' = [op EXCEPT !.pc = "allocate"] /\ UNCHANGED procs
    <3>0. op.pc = "saveCreating" /\ op.ret = "idle"
      BY <1>0, <1>7 DEF SaveCreating, StartInv, Starting, Reserving
    <3>1. op'.pc = "allocate" /\ SameLoop(op') /\ op'.l = op.l
      BY <1>0, <2>1 DEF Operation, SameLoop, SameTask
    <3>2. InHand' /\ StartInv'
      BY <3>0, <3>1 DEF InHand, StartInv, Reserving, StartPCs, SameLoop, SameTask
    <3>3. rows'[op.id] = op.l /\ \A k \in Links \ {op.id} : rows'[k] = rows[k]
      BY <1>0, <1>h, <2>1, SaveEffect
    <3>4. DeadStay /\ Cleared(op.l)'
      BY <1>0, <2>1, <3>1 DEF DeadStay, Cleared
    <3> QED BY <1>h, <3>1, <3>2, <3>3, <3>4, HandRepaired
  <2> QED BY <1>s, <1>7, <2>1 DEF SaveCreating, SaveOk, SaveFails, world, store
<1> QED BY <1>1, <1>2, <1>3, <1>4, <1>5, <1>6, <1>7 DEF Compensation

----------------------------------------------------------------------------
(* Start *)

\* A link in hand that is being started.
LEMMA StartRepaired ==
  ASSUME IInv, RInv, Start
  PROVE  RInv'
<1>0. /\ op \in Operation /\ op.l \in LinkRow /\ StoreTypeOK /\ Cleared(op.l)
      /\ procs \in [Procs -> {"unused", "alive", "dead"}]
  BY DEF IInv, TypeOK, RInv, ClearedInv, Operation
<1>h. op.pc \in StartPCs /\ InHand /\ op.ret = "idle" /\ op.id \in Links /\ LiveLink(op.id)
  <2>1. op.pc \in StartPCs
    BY DEF Start, StartExpired, Allocate, SaveStarting, ReleasePort, Spawn, SaveSpawned,
           CheckHealth, SaveHealthy, AddRoute, SaveActive, Unroute, StartPCs
  <2> QED BY <2>1 DEF InHand, RInv, StartInv, Starting, Reserving, IInv, Safe, HandInv, FrameInv
\* The start fails.
<1>f. ASSUME op' = Compensate(op, "fail"), UNCHANGED <<rows, procs>>
      PROVE  RInv'
  <2>1. op'.pc = "removeRoute" /\ op'.then = "fail" /\ SameLoop(op') /\ op'.l = op.l
    BY <1>0, <1>f DEF Compensate, Operation, SameLoop, SameTask
  <2>2. InHand' /\ StartInv'
    BY <2>1 DEF InHand, StartInv, Starting, Reserving, StartPCs, CompensationPCs
  <2>3. DeadStay /\ Cleared(op.l)'
    BY <1>0, <1>f, <2>1 DEF DeadStay, Cleared
  <2> QED BY <1>f, <1>h, <2>1, <2>2, <2>3, HandRepaired
\* The start goes on.
<1>n. ASSUME op'.pc \in StartPCs, DeadStay, SameLoop(op'),
             UNCHANGED rows \/ SaveLink(op.id, op.l),
             op'.l.proc # NoProc => op'.l.status \notin {"deleted", "expired"},
             Reserving' => op'.l.status = "starting"
      PROVE  RInv'
  <2>1. InHand' /\ StartInv'
    BY <1>h, <1>n DEF InHand, StartInv, SameLoop, SameTask
  <2>2. rows'[op.id] \in {rows[op.id], op.l} /\ \A k \in Links \ {op.id} : rows'[k] = rows[k]
    BY <1>0, <1>h, <1>n, SaveEffect
  <2>3. Cleared(op.l)'
    BY <1>n DEF Cleared
  <2> QED BY <1>h, <1>n, <2>1, <2>2, <2>3, HandRepaired
\* The status of a link that has a process, or is about to get one.
<1>u. op.l.proc # NoProc => op.l.status \notin {"deleted", "expired"}
  BY <1>0 DEF Cleared
<1>d. UNCHANGED procs => DeadStay
  BY DEF DeadStay
<1>1. CASE StartExpired
  <2>1. /\ UNCHANGED procs /\ op' = Idle
        /\ DeleteLink(op.id) \/ UNCHANGED rows
    BY <1>1 DEF StartExpired, world, store
  <2>2. DeadStay /\ \A k \in Links : RowMove(k)
    BY <1>0, <1>h, <2>1, DeleteEffect DEF DeadStay, RowMove
  <2> QED BY <2>1, <2>2, IdleRepaired
<1>2. CASE Allocate
  <2>1. /\ op.pc = "allocate" /\ UNCHANGED <<rows, procs>>
        /\ \/ op' = Compensate(op, "fail")
           \/ \E p \in FreePorts :
                op' = [op EXCEPT !.pc = "saveStarting", !.l.port = p, !.l.status = "starting"]
    BY <1>2 DEF Allocate, FailStart, store
  <2>2. ASSUME NEW p \in FreePorts,
               op' = [op EXCEPT !.pc = "saveStarting", !.l.port = p, !.l.status = "starting"]
        PROVE  RInv'
    <3>1. op'.pc = "saveStarting" /\ SameLoop(op') /\ op'.l.status = "starting"
      BY <1>0, <2>2 DEF Operation, SameLoop, SameTask, LinkRow
    <3> QED BY <1>d, <1>n, <2>1, <3>1 DEF StartPCs
  <2> QED BY <1>f, <2>1, <2>2
<1>3. CASE SaveStarting \/ ReleasePort
  <2>1. /\ op.pc \in {"saveStarting", "releasePort"} /\ UNCHANGED procs
        /\ \/ op' = Compensate(op, "fail") /\ UNCHANGED rows
           \/ /\ op' = [op EXCEPT !.pc = "releasePort"] \/ op' = [op EXCEPT !.pc = "spawn"]
              /\ UNCHANGED rows \/ SaveLink(op.id, op.l)
    BY <1>3 DEF SaveStarting, ReleasePort, SaveOk, FailStart, Goto, world, store
  <2>2. CASE /\ op' = [op EXCEPT !.pc = "releasePort"] \/ op' = [op EXCEPT !.pc = "spawn"]
             /\ UNCHANGED rows \/ SaveLink(op.id, op.l)
    <3>1. op'.pc \in {"releasePort", "spawn"} /\ SameLoop(op') /\ op'.l = op.l
      BY <1>0, <2>2 DEF Operation, SameLoop, SameTask
    <3>2. op.l.status = "starting"
      BY <2>1 DEF RInv, StartInv, Reserving
    <3> QED BY <1>d, <1>n, <2>1, <2>2, <3>1, <3>2 DEF StartPCs
  <2> QED BY <1>f, <2>1, <2>2
<1>4. CASE Spawn
  <2>1. /\ op.pc = "spawn" /\ UNCHANGED rows
        /\ \/ UNCHANGED procs /\ op' = Compensate(op, "fail")
           \/ \E q \in UnusedProcs :
                /\ procs' = [procs EXCEPT ![q] = "alive"]
                /\ op' = [op EXCEPT !.pc = "saveSpawned", !.l.proc = q]
    BY <1>4 DEF Spawn, FailStart, store
  <2>2. ASSUME NEW q \in UnusedProcs,
               procs' = [procs EXCEPT ![q] = "alive"],
               op' = [op EXCEPT !.pc = "saveSpawned", !.l.proc = q]
        PROVE  RInv'
    <3>1. op'.pc = "saveSpawned" /\ SameLoop(op') /\ op'.l.status = op.l.status
      BY <1>0, <2>2 DEF Operation, SameLoop, SameTask, LinkRow
    <3>2. DeadStay
      BY <1>0, <2>2 DEF DeadStay, UnusedProcs
    <3>3. op.l.status = "starting"
      BY <2>1 DEF RInv, StartInv, Reserving
    <3> QED BY <1>n, <2>1, <3>1, <3>2, <3>3 DEF StartPCs, Reserving
  <2> QED BY <1>f, <2>1, <2>2
<1>5. CASE SaveSpawned
  <2>1. /\ op.pc = "saveSpawned" /\ UNCHANGED procs
        /\ \/ UNCHANGED rows /\ op' = Compensate(op, "fail")
           \/ SaveLink(op.id, op.l) /\ op' = [op EXCEPT !.pc = "checkHealth", !.l = Substituted(op.l)]
    BY <1>5 DEF SaveSpawned, SaveOk, FailStart, world, store
  <2>2. CASE SaveLink(op.id, op.l) /\ op' = [op EXCEPT !.pc = "checkHealth", !.l = Substituted(op.l)]
    <3>1. op'.pc = "checkHealth" /\ SameLoop(op') /\ op'.l = Substituted(op.l)
      BY <1>0, <2>2 DEF Operation, SameLoop, SameTask
    <3>2. op'.l.proc = op.l.proc /\ op'.l.status = op.l.status
      BY <1>0, <3>1 DEF Substituted, LinkRow
    <3> QED BY <1>d, <1>n, <1>u, <2>1, <2>2, <3>1, <3>2 DEF StartPCs, Reserving
  <2> QED BY <1>f, <2>1, <2>2
<1>6. CASE CheckHealth \/ AddRoute
  <2>1. /\ UNCHANGED <<rows, procs>>
        /\ \/ op' = Compensate(op, "fail")
           \/ op' = [op EXCEPT !.pc = "saveHealthy", !.l.status = "healthy"]
           \/ op' = [op EXCEPT !.pc = "saveActive", !.l.status = "active"]
    BY <1>6 DEF CheckHealth, AddRoute, FailStart, world, store
  <2>2. ASSUME NEW pc \in {"saveHealthy", "saveActive"}, NEW st \in {"healthy", "active"},
               op' = [op EXCEPT !.pc = pc, !.l.status = st]
        PROVE  RInv'
    <3>1. op'.pc = pc /\ SameLoop(op') /\ op'.l.status = st
      BY <1>0, <2>2 DEF Operation, SameLoop, SameTask, LinkRow
    <3> QED BY <1>d, <1>n, <2>1, <3>1 DEF StartPCs, Reserving
  <2> QED BY <1>f, <2>1, <2>2
<1>7. CASE SaveHealthy \/ SaveActive
  <2>1. /\ op.pc \in {"saveHealthy", "saveActive"} /\ UNCHANGED procs
        /\ UNCHANGED rows \/ SaveLink(op.id, op.l)
        /\ \/ UNCHANGED rows /\ op' = Compensate(op, "fail")
           \/ op' = Idle
           \/ op' = [op EXCEPT !.pc = "addRoute"] \/ op' = [op EXCEPT !.pc = "unroute"]
    BY <1>7 DEF SaveHealthy, SaveActive, SaveOk, FailStart, Goto, world, store
  <2>2. CASE op' = [op EXCEPT !.pc = "addRoute"] \/ op' = [op EXCEPT !.pc = "unroute"]
    <3>1. op'.pc \in {"addRoute", "unroute"} /\ SameLoop(op') /\ op'.l = op.l
      BY <1>0, <2>2 DEF Operation, SameLoop, SameTask
    <3> QED BY <1>d, <1>n, <1>u, <2>1, <3>1 DEF StartPCs, Reserving
  <2>3. CASE op' = Idle
    <3>1. DeadStay /\ \A k \in Links : RowMove(k)
      BY <1>0, <1>h, <2>1, SaveEffect DEF DeadStay, RowMove
    <3> QED BY <2>3, <3>1, IdleRepaired
  <2> QED BY <1>f, <2>1, <2>2, <2>3
<1>8. CASE Unroute
  BY <1>f, <1>8 DEF Unroute, FailStart, store
<1> QED BY <1>1, <1>2, <1>3, <1>4, <1>5, <1>6, <1>7, <1>8 DEF Start

----------------------------------------------------------------------------
(* Requests, loops and the world *)

\* A loop takes a link of its snapshot in hand and leaves the others.
LEMMA VisitRepaired ==
  ASSUME IInv, RInv, NEW k \in op.todo, NEW term, NEW ret \in LoopPCs, op.pc = ret,
         op' = Destroy(Visiting(k), k, term, ret), UNCHANGED <<rows, procs>>
  PROVE  RInv'
<1>0. /\ op \in Operation /\ k \in Links /\ LiveLink(k)
  BY DEF IInv, Safe, TypeOK, LoopInv
<1>1. /\ Visiting(k) \in Operation /\ Visiting(k).todo = op.todo \ {k}
      /\ Visiting(k).desired = op.desired /\ Visiting(k).asOf = op.asOf
      /\ Visiting(k).err = op.err /\ Visiting(k).ended = op.ended
  BY <1>0 DEF Visiting, Operation
<1>2. /\ op'.pc = "removeRoute" /\ op'.id = k /\ op'.l = rows[k] /\ op'.ret = ret
      /\ op'.todo = op.todo \ {k} /\ op'.desired = op.desired
      /\ op'.asOf = op.asOf /\ op'.err = op.err /\ op'.then = "destroy"
      /\ op'.ended = op.ended
  BY <1>1 DEF Destroy, Compensate, Operation
<1>3. EndedInv' /\ ClearedInv' /\ StartInv' /\ InHand'
  BY <1>0, <1>2, TakenRepaired DEF SameEnded
<1>4. Loop' = ret /\ Loop = ret /\ ~InHand
  BY <1>2, <1>3 DEF Loop, InHand, LoopPCs, StartPCs, CompensationPCs, AfterPCs
<1>5. SnapshotInv'
  BY <1>2, <1>3, <1>4 DEF RInv, SnapshotInv, Due, LiveLink
<1>6. DesiredInv'
  BY <1>2 DEF RInv, DesiredInv
<1> QED BY <1>3, <1>5, <1>6 DEF RInv

\* The requests.
LEMMA RequestRepaired ==
  ASSUME IInv, RInv, Requests
  PROVE  RInv'
<1>0. op \in Operation /\ Request \in Operation /\ StoreTypeOK
  BY FreshTypes DEF IInv, TypeOK
<1>r. /\ Request.desired = {} /\ ~Request.err /\ Request.ret = "idle" /\ Request.l = FreeLink
      /\ Request.ended = {}
  BY DEF Request, Idle
\* A request belongs to no loop over a snapshot.
<1>l. ASSUME op'.desired = {}, ~op'.err, Loop' \notin {"inspect", "shut"}
      PROVE  SnapshotInv' /\ DesiredInv'
  BY <1>l DEF SnapshotInv, DesiredInv
<1>t. ASSUME NEW k \in Links, LiveLink(k), UNCHANGED <<rows, procs>>,
             op'.pc = "removeRoute", op'.id = k, op'.l = rows[k], op'.ret = "idle", op'.desired = {},
             ~op'.err, op'.ended = {}
      PROVE  RInv'
  <2>1. EndedInv' /\ ClearedInv' /\ StartInv' /\ InHand'
    BY <1>t, TakenRepaired DEF SameEnded
  <2> QED BY <1>l, <1>t, <2>1 DEF RInv, Loop
<1>1. ASSUME NEW s \in Spaces, CreateSpace(s)
      PROVE  RInv'
  <2>1. UNCHANGED <<rows, procs, op>>
    BY <1>1 DEF CreateSpace, InsertSpace, world
  <2> QED BY <2>1 DEF RInv, EndedInv, ClearedInv, StartInv, SnapshotInv, DesiredInv, Cleared,
          LiveLink, Starting, Reserving, Due, InHand, Loop
<1>2. ASSUME NEW s \in Spaces, RequestDrop(s)
      PROVE  RInv'
  <2>1. /\ UNCHANGED <<rows, procs>>
        /\ op' = [Request EXCEPT !.pc = "drop", !.space = s, !.todo = ListLinks(s)]
    BY <1>2 DEF RequestDrop, world, store
  <2>2. op'.pc = "drop" /\ op'.desired = {} /\ ~op'.err /\ op'.l = FreeLink /\ op'.ended = {}
    BY <1>0, <1>r, <2>1 DEF Operation
  <2>3. DeadStay /\ \A k \in Links : RowMove(k)
    BY <2>1 DEF DeadStay, RowMove
  <2>4. EndedInv' /\ ClearedInv' /\ StartInv' /\ ~InHand'
    BY <2>2, <2>3, Settled DEF LoopPCs, SameEnded
  <2> QED BY <1>l, <2>2, <2>4 DEF RInv, Loop
<1>3. ASSUME NEW k \in Links, NEW s \in Spaces, CreateLink(k, s)
      PROVE  RInv'
  <2>1. /\ UNCHANGED procs /\ rows[k].slot = "free"
        /\ \E e, u : /\ InsertLink(k, [FreeLink EXCEPT !.slot = "live", !.space = s,
                                                     !.probe = u, !.exp = e])
                     /\ op' = [Request EXCEPT !.pc = "allocate", !.id = k,
                                 !.l = [FreeLink EXCEPT !.slot = "live", !.space = s,
                                                        !.probe = u, !.exp = e]]
    BY <1>3 DEF CreateLink, world
  <2>2. PICK l : /\ l.proc = NoProc /\ l.status = "creating" /\ InsertLink(k, l)
                 /\ op' = [Request EXCEPT !.pc = "allocate", !.id = k, !.l = l]
    BY <2>1 DEF FreeLink
  <2>3. /\ op'.pc = "allocate" /\ op'.id = k /\ op'.l = l /\ op'.desired = {} /\ ~op'.err /\ op'.ret = "idle"
        /\ op'.ended = {}
    BY <1>0, <1>r, <2>2 DEF Operation
  <2>4. rows'[k] = l /\ \A j \in Links \ {k} : rows'[j] = rows[j]
    BY <1>0, <2>2 DEF InsertLink, StoreTypeOK
  <2>5. DeadStay /\ \A j \in Links : RowMove(j)
    BY <2>1, <2>2, <2>4 DEF DeadStay, RowMove
  <2>6. InHand' /\ StartInv'
    BY <2>3 DEF InHand, StartInv, Reserving, StartPCs
  <2>7. EndedInv'
    BY <2>3, <2>5, EndedKept DEF RInv, SameEnded
  <2>8. ClearedInv'
    <3>1. Cleared(op.l)'
      BY <2>2, <2>3 DEF Cleared
    <3> QED BY <2>5, <3>1, RowsCleared DEF ClearedInv, RInv
  <2> QED BY <1>l, <2>3, <2>6, <2>7, <2>8 DEF RInv, Loop
<1>4. ASSUME NEW k \in Links, RequestDelete(k) \/ RequestRestart(k)
      PROVE  RInv'
  <2>1. /\ UNCHANGED <<rows, procs>> /\ LiveLink(k)
        /\ op' \in {Destroy(Request, k, "deleted", "idle"), Destroy(Request, k, "expired", "idle"),
                    Compensate([Request EXCEPT !.id = k, !.l = rows[k]], "restart")}
    BY <1>4 DEF RequestDelete, RequestRestart, Reachable, world, store
  <2>2. LET o == Compensate([Request EXCEPT !.id = k, !.l = rows[k]], "restart") IN
          /\ o.pc = "removeRoute" /\ o.id = k /\ o.l = rows[k] /\ o.ret = "idle" /\ o.desired = {}
          /\ ~o.err /\ o.ended = {}
    BY <1>0, <1>r DEF Compensate, Operation
  <2>3. /\ op'.pc = "removeRoute" /\ op'.id = k /\ op'.l = rows[k] /\ op'.ret = "idle"
        /\ op'.desired = {} /\ ~op'.err /\ op'.ended = {}
    <3>1. ASSUME NEW term
          PROVE  LET d == Destroy(Request, k, term, "idle") IN ~d.err /\ d.ended = {}
      BY <1>0, <1>r DEF Destroy, Compensate, Operation
    <3> QED BY <1>0, <1>r, <2>1, <2>2, <3>1, DestroyEffect
  <2> QED BY <1>t, <2>1, <2>3
<1> QED BY <1>1, <1>2, <1>3, <1>4 DEF Requests

\* A loop starts on the snapshot that it has just read.
LEMMA SnapshotRepaired ==
  ASSUME RInv, UNCHANGED <<rows, procs>>, op'.pc \in {"inspect", "shut"}, op'.l \in {op.l, FreeLink},
         op'.asOf = now, op'.todo = ReconciliationLinks(now), op'.desired = {}, ~op'.err,
         op'.ended \subseteq EndedProcs
  PROVE  RInv'
<1>1. DeadStay /\ \A k \in Links : RowMove(k)
  BY DEF DeadStay, RowMove
<1>2. EndedInv' /\ ClearedInv' /\ StartInv' /\ ~InHand'
  BY <1>1, Settled DEF LoopPCs, SameEnded
<1>3. SnapshotInv' /\ DesiredInv'
  BY <1>2 DEF SnapshotInv, DesiredInv, Loop, Due, ReconciliationLinks, LiveLink
<1> QED BY <1>2, <1>3 DEF RInv

\* The loops of a forced deletion, of a pass and of Shutdown.
LEMMA LoopRepaired ==
  ASSUME IInv, RInv, DropSpace \/ Reconcile \/ Shutdown
  PROVE  RInv'
<1>0. op \in Operation /\ StoreTypeOK /\ LoopInv
  BY DEF IInv, Safe, TypeOK
<1>h. op.pc \in LoopPCs /\ ~InHand /\ Loop = op.pc
  BY DEF DropSpace, PurgeSpace, DestroyLinks, Reconcile, SweepLinks, SweepSpaces, Inspect,
     ApplyRoutes, Shutdown, Loop, InHand, LoopPCs, StartPCs, CompensationPCs, AfterPCs
<1>d. UNCHANGED procs => DeadStay
  BY DEF DeadStay
<1>g. ASSUME UNCHANGED procs, \A k \in Links : RowMove(k), op' = Idle
      PROVE  RInv'
  BY <1>d, <1>g, IdleRepaired
<1>k. UNCHANGED rows => \A k \in Links : RowMove(k)
  BY DEF RowMove
\* From one loop to the next.
<1>m. ASSUME UNCHANGED procs, \A k \in Links : RowMove(k), op'.pc \in {"spaces", "purge"},
             op'.l = op.l, op'.desired = {}, op'.err = op.err, op'.ended = op.ended, op.pc # "shut"
      PROVE  RInv'
  <2>1. EndedInv' /\ ClearedInv' /\ StartInv' /\ ~InHand'
    BY <1>d, <1>m, Settled DEF LoopPCs, SameEnded
  <2>2. ~op.err
    BY <1>h, <1>m DEF RInv, SnapshotInv
  <2> QED BY <1>m, <2>1, <2>2 DEF RInv, SnapshotInv, DesiredInv, Loop
<1>1. ASSUME NEW pc \in {"drop", "purge"}, NEW term, NEW after, DestroyLinks(pc, term, after),
             after = Idle \/ after = [op EXCEPT !.pc = "spaces", !.space = NoSpace]
      PROVE  RInv'
  <2>1. /\ UNCHANGED procs /\ op.pc = pc
        /\ \/ (\E k \in op.todo : op' = Destroy(Visiting(k), k, term, pc)) /\ UNCHANGED rows
           \/ DeleteSpace(op.space) /\ op' = after
           \/ op' = Idle /\ UNCHANGED rows
    BY <1>1 DEF DestroyLinks, QueryFails, Abort, store, world
  <2>2. CASE DeleteSpace(op.space) /\ op' = after
    <3>1. \A k \in Links : RowMove(k)
      BY <1>0, <2>2 DEF RowMove, DeleteSpace, ArchivedRow, StoreTypeOK, LinkRow
    <3>2. CASE op' = [op EXCEPT !.pc = "spaces", !.space = NoSpace]
      <4>1. /\ op'.pc = "spaces" /\ op'.l = op.l /\ op'.desired = op.desired
            /\ op'.err = op.err /\ op'.ended = op.ended
        BY <1>0, <3>2 DEF Operation
      <4>2. op.desired = {}
        BY <1>0, <1>h, <2>1 DEF LoopInv
      <4> QED BY <1>m, <2>1, <3>1, <4>1, <4>2
    <3> QED BY <1>1, <1>g, <2>1, <2>2, <3>1, <3>2
  <2> QED BY <1>g, <1>h, <1>k, <2>1, <2>2, VisitRepaired
<1>2. CASE DropSpace \/ PurgeSpace
  BY <1>1, <1>2 DEF DropSpace, PurgeSpace
<1>3. CASE SweepLinks
  <2>1. /\ UNCHANGED <<rows, procs>> /\ op.pc = "expired"
        /\ \/ \E k \in op.todo : op' = Destroy(Visiting(k), k, "expired", "expired")
           \/ op' = Idle
           \/ op' = [op EXCEPT !.pc = "spaces"]
    BY <1>3 DEF SweepLinks, QueryFails, Abort, Goto, store, world
  <2>2. CASE op' = [op EXCEPT !.pc = "spaces"]
    <3>1. /\ op'.pc = "spaces" /\ op'.l = op.l /\ op'.desired = op.desired
          /\ op'.err = op.err /\ op'.ended = op.ended
      BY <1>0, <2>2 DEF Operation
    <3>2. op.desired = {}
      BY <1>0, <1>h, <2>1 DEF LoopInv
    <3> QED BY <1>k, <1>m, <2>1, <3>1, <3>2
  <2> QED BY <1>g, <1>h, <1>k, <2>1, <2>2, VisitRepaired
<1>4. CASE SweepSpaces
  <2>1. /\ UNCHANGED <<rows, procs>> /\ op.pc = "spaces"
        /\ \/ op' = Idle
           \/ \E s \in Spaces : op' = [op EXCEPT !.pc = "purge", !.space = s, !.todo = ListLinks(s)]
           \/ op' = [op EXCEPT !.pc = "inspect", !.asOf = now, !.ended = EndedProcs,
                            !.todo = ReconciliationLinks(now)]
    BY <1>4 DEF SweepSpaces, QueryFails, Abort, ExpiredSpaces, store, world
  <2>2. op.desired = {} /\ ~op.err
    BY <1>0, <1>h, <2>1 DEF LoopInv, RInv, SnapshotInv
  <2>3. ASSUME NEW s, op' = [op EXCEPT !.pc = "purge", !.space = s, !.todo = ListLinks(s)]
        PROVE  RInv'
    <3>1. /\ op'.pc = "purge" /\ op'.l = op.l /\ op'.desired = {} /\ op'.err = op.err
          /\ op'.ended = op.ended
      BY <1>0, <2>2, <2>3 DEF Operation
    <3> QED BY <1>k, <1>m, <2>1, <3>1
  <2>4. CASE op' = [op EXCEPT !.pc = "inspect", !.asOf = now, !.ended = EndedProcs,
                            !.todo = ReconciliationLinks(now)]
    <3>1. /\ op'.pc = "inspect" /\ op'.l = op.l /\ op'.asOf = now /\ op'.desired = {} /\ ~op'.err
          /\ op'.todo = ReconciliationLinks(now) /\ op'.ended = EndedProcs
      BY <1>0, <2>2, <2>4 DEF Operation
    <3> QED BY <2>1, <3>1, SnapshotRepaired
  <2> QED BY <1>g, <1>k, <2>1, <2>3, <2>4
<1>5. CASE Inspect
  <2>1. /\ UNCHANGED <<rows, procs>> /\ op.pc = "inspect"
        /\ \E k \in op.todo :
             \/ MayKeep(k) /\ op' = [Visiting(k) EXCEPT !.desired = @ \union {k}]
             \/ op' = Destroy(Visiting(k), k, "failed", "inspect")
             \/ op' = Destroy(Visiting(k), k, "expired", "inspect")
    BY <1>5 DEF Inspect, store, world
  <2>2. ASSUME NEW k \in op.todo, MayKeep(k), op' = [Visiting(k) EXCEPT !.desired = @ \union {k}]
        PROVE  RInv'
    <3>0. /\ k \in Links /\ LiveLink(k) /\ k \notin op.desired
          /\ op.desired \subseteq {j \in Links : LiveLink(j)}
          /\ Alive(rows[k].proc)
      BY <1>0, <2>2 DEF LoopInv, MayKeep
    <3>1. Visiting(k) \in Operation /\ Visiting(k).pc = op.pc /\ Visiting(k).l = op.l
          /\ Visiting(k).todo = op.todo \ {k} /\ Visiting(k).desired = op.desired
          /\ Visiting(k).asOf = op.asOf /\ Visiting(k).err = op.err /\ Visiting(k).ended = op.ended
      BY <1>0 DEF Visiting, Operation
    <3>2. /\ op'.pc = "inspect" /\ op'.l = op.l /\ op'.todo = op.todo \ {k}
          /\ op'.desired = op.desired \union {k} /\ op'.asOf = op.asOf /\ op'.err = op.err
          /\ op'.ended = op.ended
      BY <2>1, <2>2, <3>1 DEF Operation
    <3>3. EndedInv' /\ ClearedInv' /\ StartInv' /\ ~InHand'
      BY <1>d, <1>k, <2>1, <3>2, Settled DEF LoopPCs, SameEnded
    <3>4. SnapshotInv'
      <4>1. Loop' = Loop /\ op'.todo \union op'.desired = op.todo \union op.desired
        BY <1>h, <2>1, <2>2, <3>2, <3>3 DEF Loop
      <4> QED BY <1>h, <2>1, <3>2, <4>1 DEF RInv, SnapshotInv, Due, LiveLink
    <3>5. rows[k].proc \notin op.ended
      BY <3>0 DEF RInv, EndedInv, Alive
    <3>6. DesiredInv'
      BY <2>1, <3>2, <3>5 DEF RInv, DesiredInv
    <3> QED BY <3>3, <3>4, <3>6 DEF RInv
  <2> QED BY <1>h, <2>1, <2>2, VisitRepaired
<1>6. CASE ApplyRoutes
  BY <1>g, <1>k, <1>6 DEF ApplyRoutes, QueryFails, Abort, store
<1>7. CASE Shutdown
  BY <1>g, <1>h, <1>k, <1>7, VisitRepaired DEF Shutdown, store
<1> QED BY <1>2, <1>3, <1>4, <1>5, <1>6, <1>7 DEF Reconcile

\* The ticker, start-up, shutdown, crashes and the world.
LEMMA WorldRepaired ==
  ASSUME IInv, RInv,
         \/ Ticker \/ StopSignal \/ BeginShutdown \/ Crash \/ Startup
         \/ Tick \/ (\E q \in Procs : Exit(q)) \/ Cancel
  PROVE  RInv'
<1>0. /\ op \in Operation
      /\ procs \in [Procs -> {"unused", "alive", "dead"}]
  BY DEF IInv, TypeOK
<1>k. UNCHANGED <<rows, procs>> => DeadStay /\ \A k \in Links : RowMove(k)
  BY DEF DeadStay, RowMove
<1>1. CASE Ticker \/ Startup
  <2>1. UNCHANGED <<rows, procs>> /\ op' = BeginReconcile
    BY <1>1 DEF Ticker, Startup, store, world
  <2>2. op'.pc = "expired" /\ op'.l = FreeLink /\ op'.desired = {} /\ ~op'.err /\ op'.ended = {}
    BY <2>1 DEF BeginReconcile, Idle
  <2>3. EndedInv' /\ ClearedInv' /\ StartInv' /\ ~InHand'
    BY <1>k, <2>1, <2>2, Settled DEF LoopPCs, SameEnded
  <2> QED BY <2>2, <2>3 DEF RInv, SnapshotInv, DesiredInv, Loop
<1>2. CASE BeginShutdown
  <2>1. UNCHANGED <<rows, procs>>
        /\ op' = [Idle EXCEPT !.kind = "shutdown", !.pc = "shut", !.asOf = now,
                              !.todo = ReconciliationLinks(now)]
    BY <1>2 DEF BeginShutdown, store, world
  <2>2. /\ op'.pc = "shut" /\ op'.l = FreeLink /\ op'.asOf = now /\ op'.desired = {} /\ ~op'.err
        /\ op'.todo = ReconciliationLinks(now) /\ op'.ended = {}
    BY <2>1 DEF Idle
  <2> QED BY <2>1, <2>2, SnapshotRepaired
<1>3. CASE Crash
  BY <1>k, <1>3, IdleRepaired DEF Crash, store
<1>4. CASE StopSignal \/ Tick \/ Cancel \/ (\E q \in Procs : Exit(q))
  <2>1. /\ UNCHANGED rows /\ DeadStay /\ SameLoop(op') /\ op'.pc = op.pc /\ op'.l = op.l
        /\ op'.then = op.then
    <3>1. CASE StopSignal \/ Tick
      BY <3>1 DEF StopSignal, Tick, store, world, SameLoop, SameTask, DeadStay
    <3>2. CASE Cancel
      <4>1. UNCHANGED <<rows, procs>> /\ op' = [op EXCEPT !.cancelled = TRUE]
        BY <3>2 DEF Cancel, store, world
      <4>2. SameLoop(op') /\ op'.pc = op.pc /\ op'.l = op.l /\ op'.then = op.then
        BY <1>0, <4>1 DEF Operation, SameLoop, SameTask
      <4> QED BY <1>k, <4>1, <4>2
    <3>3. CASE \E q \in Procs : Exit(q)
      <4>1. PICK q \in Procs : Exit(q)
        BY <3>3
      <4>2. DeadStay
        BY <1>0, <4>1 DEF Exit, Killed, DeadStay
      <4> QED BY <4>1, <4>2 DEF Exit, store, SameLoop, SameTask
    <3> QED BY <1>4, <3>1, <3>2, <3>3
  <2>2. /\ op'.id = op.id /\ op'.ret = op.ret /\ op'.todo = op.todo /\ op'.desired = op.desired
        /\ op'.asOf = op.asOf /\ op'.err = op.err /\ op'.ended = op.ended
        /\ (InHand' <=> InHand) /\ Loop' = Loop /\ (Reserving' <=> Reserving)
        /\ (Starting' <=> Starting)
    BY <2>1 DEF SameLoop, SameTask, InHand, Loop, Starting, Reserving
  <2>3. EndedInv' /\ StartInv'
    BY <2>1, <2>2, EndedKept DEF RInv, StartInv, SameEnded
  <2>4. ClearedInv'
    <3>1. Cleared(op.l)'
      BY <2>1 DEF RInv, ClearedInv, Cleared
    <3>2. \A k \in Links : RowMove(k)
      BY <2>1 DEF RowMove
    <3> QED BY <3>1, <3>2, RowsCleared DEF RInv, ClearedInv
  <2>5. SnapshotInv' /\ DesiredInv'
    BY <2>1, <2>2 DEF RInv, SnapshotInv, DesiredInv, Due, LiveLink
  <2> QED BY <2>3, <2>4, <2>5 DEF RInv
<1> QED BY <1>1, <1>2, <1>3, <1>4

----------------------------------------------------------------------------
(* Theorems *)

\* Both invariants together are inductive.
LEMMA RepairInductive ==
  ASSUME IInv /\ RInv, [Next]_vars
  PROVE  (IInv /\ RInv)'
<1>1. CASE UNCHANGED vars
  <2>1. UNCHANGED <<rows, procs, op>>
    BY <1>1 DEF vars
  <2> QED BY <1>1, <2>1, Inductive DEF RInv, EndedInv, ClearedInv, StartInv, SnapshotInv, DesiredInv,
          Cleared, LiveLink, Starting, Reserving, Due, InHand, Loop
<1>2. CASE Next
  BY <1>2, Inductive, StartRepaired, CompensationRepaired, RequestRepaired, LoopRepaired,
     WorldRepaired DEF Next, Operate
<1> QED BY <1>1, <1>2

LEMMA RepairInitially ==
  ASSUME Init
  PROVE  IInv /\ RInv
<1>1. /\ op.pc = "idle" /\ op.l = FreeLink /\ op.desired = {} /\ ~op.err /\ op.ended = {}
      /\ ~InHand
  BY DEF Init, Idle, InHand, StartPCs, CompensationPCs, AfterPCs
<1>2. rows = [k \in Links |-> FreeLink]
  BY DEF Init, StoreInit
<1>3. EndedInv /\ StartInv
  BY <1>1 DEF EndedInv, StartInv, Reserving, Starting, StartPCs, CompensationPCs
<1>4. ClearedInv
  BY <1>1, <1>2 DEF ClearedInv, Cleared, FreeLink, LiveLink
<1>5. SnapshotInv /\ DesiredInv
  BY <1>1 DEF SnapshotInv, DesiredInv, Loop
<1> QED BY <1>3, <1>4, <1>5, Initially DEF RInv

LEMMA RepairInvariant == Spec => [](IInv /\ RInv)
BY RepairInitially, RepairInductive, PTL DEF Spec

\* A pass that returns nil has just published what it kept.
LEMMA PassPublishes ==
  ASSUME IInv, Next, PassReturnsNil
  PROVE  routes' = Desired(op.desired)
<1>0. /\ op \in Operation /\ op.pc = "inspect" /\ op.todo = {} /\ ~op.cancelled /\ op'.pc = "idle"
      /\ spent' = spent /\ spent \in [faults: Nat, cancels: Nat, crashes: Nat, stops: Nat]
  BY DEF IInv, TypeOK, PassReturnsNil
<1>1. ~CallFails /\ ~Crash /\ ~StopSignal /\ ~Cancel
  BY <1>0 DEF CallFails, Crash, StopSignal, Cancel
<1>2. ~Start /\ ~Compensation /\ ~DropSpace /\ ~Shutdown /\ ~SweepLinks /\ ~SweepSpaces /\ ~PurgeSpace
  BY <1>0 DEF Start, StartExpired, Allocate, SaveStarting, ReleasePort, Spawn, SaveSpawned,
     CheckHealth, SaveHealthy, AddRoute, SaveActive, Unroute, Compensation, RemoveRoute, StopProcess,
     ReturnPort, SaveFailed, SaveTerminal, DeleteRow, SaveCreating, DropSpace, PurgeSpace,
     DestroyLinks, Shutdown, SweepLinks, SweepSpaces
<1>3. ~Requests /\ ~Ticker /\ ~BeginShutdown
  BY <1>0 DEF Requests, CreateSpace, RequestDrop, CreateLink, RequestDelete, RequestRestart,
     Admitted, Ticker, BeginShutdown
<1>4. ~Startup /\ ~Tick /\ ~(\E q \in Procs : Exit(q)) /\ ~Inspect
  BY <1>0 DEF Startup, BeginReconcile, Idle, Tick, Exit, Inspect
<1>5. ApplyRoutes
  BY <1>1, <1>2, <1>3, <1>4 DEF Next, Operate, Reconcile
<1> QED BY <1>1, <1>5 DEF ApplyRoutes, QueryFails

\* Whatever failed, expired or crashed before, and whoever listens on a port:
\* after a Reconcile that returned nil the proxy serves exactly the active
\* links that were unexpired, no other unexpired link holds a process, and
\* none is served whose process had exited when the pass read the links.
THEOREM RepairedAfterPassAlways == Spec => RepairedAfterPass
<1> DEFINE A ==
      PassReturnsNil =>
       \A k \in Links :
         /\ routes'[k] # NoPort <=> (/\ LiveLink(k) /\ rows[k].status = "active"
                                    /\ ~Expired(rows[k].exp, op.asOf))
         /\ LiveLink(k) /\ rows[k].proc # NoProc /\ ~Expired(rows[k].exp, op.asOf)
            => rows[k].status = "active"
         /\ routes'[k] # NoPort => rows[k].proc \notin op.ended
<1>1. ASSUME IInv /\ RInv, [Next]_vars
      PROVE  [A]_vars
  <2> SUFFICES ASSUME Next, PassReturnsNil
               PROVE  A
    BY <1>1
  <2>1. routes' = Desired(op.desired) /\ op.todo = {} /\ op.pc = "inspect" /\ ~InHand
    BY <1>1, PassPublishes DEF PassReturnsNil, InHand, StartPCs, CompensationPCs, AfterPCs
  <2>2. \A k \in op.desired : /\ k \in Links /\ LiveLink(k) /\ rows[k].status = "active"
                              /\ rows[k].port # NoPort /\ ~Expired(rows[k].exp, op.asOf)
    BY <1>1, <2>1 DEF IInv, Safe, LoopInv, Recorded, RInv, SnapshotInv, Loop
  <2>3. \A k \in Links : Due(k) => k \in op.desired
    BY <1>1, <2>1 DEF RInv, SnapshotInv, Loop
  <2>4. \A k \in Links : /\ k \in op.desired => routes'[k] = rows[k].port
                         /\ k \notin op.desired => routes'[k] = NoPort
    BY <2>1 DEF Desired
  <2>5. ASSUME NEW k \in Links
        PROVE  routes'[k] # NoPort <=> (/\ LiveLink(k) /\ rows[k].status = "active"
                                       /\ ~Expired(rows[k].exp, op.asOf))
    BY <2>2, <2>3, <2>4 DEF Due
  <2>6. ASSUME NEW k \in Links, LiveLink(k), rows[k].proc # NoProc, ~Expired(rows[k].exp, op.asOf)
        PROVE  rows[k].status = "active"
    BY <1>1, <2>2, <2>3, <2>6 DEF Due, RInv, ClearedInv, Cleared
  <2>7. ASSUME NEW k \in Links, routes'[k] # NoPort
        PROVE  rows[k].proc \notin op.ended
    BY <1>1, <2>4, <2>7 DEF RInv, DesiredInv
  <2> QED BY <2>5, <2>6, <2>7
<1> QED BY <1>1, RepairInvariant, PTL DEF Spec, RepairedAfterPass

\* Only the last step of Shutdown, without an error, leaves the daemon stopped.
LEMMA StopsByShutdown ==
  ASSUME IInv, Next, mode = "stopping", mode' = "stopped"
  PROVE  op.pc = "shut" /\ op.todo = {} /\ ~op.err /\ routes' = Unrouted
<1>1. ~Abort
  BY DEF Abort
<1>2. ~Start
  BY DEF Start, StartExpired, Allocate, SaveStarting, ReleasePort, Spawn, SaveSpawned,
     CheckHealth, SaveHealthy, AddRoute, SaveActive, Unroute, world
<1>3. ~Compensation
  BY <1>1 DEF Compensation, RemoveRoute, StopProcess, ReturnPort, SaveFailed, SaveTerminal,
     DeleteRow, SaveCreating, ReturnError, world
<1>4. ~DropSpace /\ ~Reconcile
  BY <1>1 DEF DropSpace, PurgeSpace, DestroyLinks, Reconcile, SweepLinks, SweepSpaces, Inspect,
     ApplyRoutes, QueryFails
<1>5. ~Requests /\ ~Ticker
  BY DEF Requests, CreateSpace, RequestDrop, CreateLink, RequestDelete, RequestRestart, Admitted, Ticker
<1>6. ~StopSignal /\ ~BeginShutdown /\ ~Crash /\ ~Startup /\ ~Tick /\ ~Cancel
      /\ ~(\E q \in Procs : Exit(q))
  BY DEF StopSignal, BeginShutdown, Crash, Startup, Tick, Cancel, Exit
<1>7. Shutdown
  BY <1>2, <1>3, <1>4, <1>5, <1>6 DEF Next, Operate
<1> QED BY <1>7 DEF Shutdown

\* After a Shutdown that returned nil there is no route, and every process that
\* a live link still names belongs to a link that had expired by then.
THEOREM StopLeavesOnlyExpiredAlways == Spec => StopLeavesOnlyExpired
<1> DEFINE A ==
      mode = "stopping" /\ mode' = "stopped" =>
       /\ routes' = Unrouted
       /\ \A k \in Links : LiveLink(k) /\ Alive(rows[k].proc) => Expired(rows[k].exp, op.asOf)
<1>1. ASSUME IInv /\ RInv, [Next]_vars
      PROVE  [A]_vars
  <2> SUFFICES ASSUME Next, mode = "stopping", mode' = "stopped"
               PROVE  A
    BY <1>1
  <2>1. op.pc = "shut" /\ op.todo = {} /\ ~op.err /\ routes' = Unrouted
    BY <1>1, StopsByShutdown
  <2>2. ~InHand /\ Loop = "shut" /\ op.desired = {}
    BY <1>1, <2>1 DEF IInv, Safe, LoopInv, InHand, Loop, StartPCs, CompensationPCs, AfterPCs
  <2>3. \A k \in Links : ~Due(k)
    BY <1>1, <2>1, <2>2 DEF RInv, SnapshotInv
  <2>4. ASSUME NEW k \in Links, LiveLink(k), Alive(rows[k].proc)
        PROVE  Expired(rows[k].exp, op.asOf)
    BY <1>1, <2>3, <2>4, StoreAssumption DEF Due, RInv, ClearedInv, Cleared, Alive
  <2> QED BY <2>1, <2>4
<1> QED BY <1>1, RepairInvariant, PTL DEF Spec, StopLeavesOnlyExpired

----------------------------------------------------------------------------
(* The way an operation goes through its calls *)

\* The calls left on a link, by the next one of them.
Calls(pc, then) == IF pc \in CompensationPCs /\ then = "restart" THEN Course[pc] + 14 ELSE Course[pc]

\* The next call on the link in hand, with the loop as it was.
NextCall == /\ InHand /\ InHand' /\ SameTask(op') /\ UNCHANGED spaces
            /\ Calls(op'.pc, op'.then) < Calls(op.pc, op.then)

\* Nothing is in hand any more, and the loop goes on.
BackToLoop == /\ InHand /\ op.ret \in LoopPCs /\ op'.pc = op.ret /\ UNCHANGED spaces
              /\ op'.todo = op.todo /\ op'.space = op.space

\* A loop takes one link of its snapshot, in hand or past it.
NextLink == /\ op.pc \in LoopPCs /\ UNCHANGED spaces /\ op'.space = op.space
            /\ \E k \in op.todo : op'.todo = op.todo \ {k}
            /\ op'.pc = op.pc \/ (InHand' /\ op'.ret = op.pc)

\* The pass goes on to its next part.
NextPart == /\ UNCHANGED spaces
            /\ \/ op.pc = "expired" /\ op'.pc = "spaces"
               \/ op.pc = "spaces" /\ op'.pc = "inspect"
               \/ op.pc = "spaces" /\ op'.pc = "purge" /\ op'.space \in LiveSpaces

\* An expired space is archived.
SpaceDone == op.pc = "purge" /\ op'.pc = "spaces" /\ LiveSpaces' = LiveSpaces \ {op.space}

\* A space is purged once.
PurgeInv == Loop = "purge" => op.space \in LiveSpaces

LEMMA CallValues ==
  /\ \A t : /\ Calls("deleteRow", t) = 1 /\ Calls("saveFailed", t) = 1 /\ Calls("saveTerminal", t) = 2
            /\ Calls("unroute", t) = 6 /\ Calls("saveActive", t) = 7 /\ Calls("addRoute", t) = 8
            /\ Calls("saveHealthy", t) = 9 /\ Calls("checkHealth", t) = 10
            /\ Calls("saveSpawned", t) = 11 /\ Calls("spawn", t) = 12 /\ Calls("releasePort", t) = 13
            /\ Calls("saveStarting", t) = 14 /\ Calls("allocate", t) = 15 /\ Calls("saveCreating", t) = 16
  /\ \A t : t # "restart" => /\ Calls("returnPort", t) = 3 /\ Calls("stopProcess", t) = 4
                             /\ Calls("removeRoute", t) = 5
  /\ Calls("returnPort", "restart") = 17 /\ Calls("stopProcess", "restart") = 18
  /\ Calls("removeRoute", "restart") = 19
BY DEF Calls, Course, CompensationPCs

\* A call of start leads to a later one, or to the compensation of the start.
LEMMA StartAdvances ==
  ASSUME op \in Operation, Start, op'.pc # "idle"
  PROVE  NextCall
<1>f. /\ SameTask(Compensate(op, "fail")) /\ Compensate(op, "fail").pc = "removeRoute"
      /\ Compensate(op, "fail").then = "fail"
  BY FailEffect DEF Compensate, Operation
<1>g. ASSUME NEW pc, op' = [op EXCEPT !.pc = pc]
      PROVE  SameTask(op') /\ op'.pc = pc
  BY <1>g, GotoEffect
<1>s. ASSUME UNCHANGED spaces, SameTask(op'), op.pc \in StartPCs,
             \/ op'.pc \in StartPCs /\ Course[op'.pc] < Course[op.pc]
             \/ op' = Compensate(op, "fail")
      PROVE  NextCall
  <2>1. InHand /\ InHand'
    BY <1>f, <1>s DEF InHand, CompensationPCs
  <2>2. CASE op' = Compensate(op, "fail")
    <3>1. Calls(op'.pc, op'.then) = 5
      BY <1>f, <2>2, CallValues
    <3>2. Calls(op.pc, op.then) > 5
      BY <1>s, CallValues DEF StartPCs
    <3>3. Calls(op'.pc, op'.then) < Calls(op.pc, op.then)
      BY <3>1, <3>2, CallValues, <1>s DEF StartPCs
    <3> QED BY <1>s, <2>1, <3>3 DEF NextCall
  <2>3. CASE op'.pc \in StartPCs /\ Course[op'.pc] < Course[op.pc]
    <3>1. Calls(op'.pc, op'.then) = Course[op'.pc] /\ Calls(op.pc, op.then) = Course[op.pc]
      BY <1>s, <2>3 DEF Calls, StartPCs, CompensationPCs
    <3> QED BY <1>s, <2>1, <2>3, <3>1 DEF NextCall
  <2> QED BY <1>s, <2>2, <2>3
<1>1. /\ UNCHANGED spaces
      /\ \/ op' = Compensate(op, "fail") /\ op.pc \in StartPCs
         \/ op.pc = "allocate" /\ op'.pc = "saveStarting" /\ SameTask(op')
         \/ op.pc = "saveStarting" /\ op'.pc = "releasePort" /\ SameTask(op')
         \/ op.pc = "releasePort" /\ op'.pc = "spawn" /\ SameTask(op')
         \/ op.pc = "spawn" /\ op'.pc = "saveSpawned" /\ SameTask(op')
         \/ op.pc = "saveSpawned" /\ op'.pc = "checkHealth" /\ SameTask(op')
         \/ op.pc = "checkHealth" /\ op'.pc = "saveHealthy" /\ SameTask(op')
         \/ op.pc = "saveHealthy" /\ op'.pc = "addRoute" /\ SameTask(op')
         \/ op.pc = "addRoute" /\ op'.pc = "saveActive" /\ SameTask(op')
         \/ op.pc = "saveActive" /\ op'.pc = "unroute" /\ SameTask(op')
  <2>0. op' # Idle
    BY DEF Idle
  <2>1. CASE StartExpired
    BY <2>0, <2>1 DEF StartExpired
  <2>2. CASE Allocate
    <3>1. /\ UNCHANGED spaces /\ op.pc = "allocate"
          /\ \/ op' = Compensate(op, "fail")
             \/ \E p : op' = [op EXCEPT !.pc = "saveStarting", !.l.port = p, !.l.status = "starting"]
      BY <2>2 DEF Allocate, FailStart, store
    <3>2. ASSUME NEW p, op' = [op EXCEPT !.pc = "saveStarting", !.l.port = p, !.l.status = "starting"]
          PROVE  op'.pc = "saveStarting" /\ SameTask(op')
      BY <3>2 DEF Operation, SameTask
    <3> QED BY <3>1, <3>2 DEF StartPCs
  <2>3. CASE SaveStarting
    <3>1. /\ UNCHANGED spaces /\ op.pc = "saveStarting"
          /\ op' = Compensate(op, "fail") \/ op' = [op EXCEPT !.pc = "releasePort"]
      BY <2>3 DEF SaveStarting, SaveOk, SaveLink, FailStart, store
    <3> QED BY <1>g, <3>1 DEF StartPCs
  <2>4. CASE ReleasePort
    <3>1. /\ UNCHANGED spaces /\ op.pc = "releasePort"
          /\ op' = Compensate(op, "fail") \/ op' = [op EXCEPT !.pc = "spawn"]
      BY <2>4 DEF ReleasePort, Goto, FailStart, store
    <3> QED BY <1>g, <3>1 DEF StartPCs
  <2>5. CASE Spawn
    <3>1. /\ UNCHANGED spaces /\ op.pc = "spawn"
          /\ \/ op' = Compensate(op, "fail")
             \/ \E q : op' = [op EXCEPT !.pc = "saveSpawned", !.l.proc = q]
      BY <2>5 DEF Spawn, FailStart, store
    <3>2. ASSUME NEW q, op' = [op EXCEPT !.pc = "saveSpawned", !.l.proc = q]
          PROVE  op'.pc = "saveSpawned" /\ SameTask(op')
      BY <3>2 DEF Operation, SameTask
    <3> QED BY <3>1, <3>2 DEF StartPCs
  <2>6. CASE SaveSpawned
    <3>1. /\ UNCHANGED spaces /\ op.pc = "saveSpawned"
          /\ \/ op' = Compensate(op, "fail")
             \/ op' = [op EXCEPT !.pc = "checkHealth", !.l = Substituted(op.l)]
      BY <2>6 DEF SaveSpawned, SaveOk, SaveLink, FailStart, store
    <3>2. ASSUME op' = [op EXCEPT !.pc = "checkHealth", !.l = Substituted(op.l)]
          PROVE  op'.pc = "checkHealth" /\ SameTask(op')
      BY <3>2 DEF Operation, SameTask
    <3> QED BY <3>1, <3>2 DEF StartPCs
  <2>7. CASE CheckHealth
    <3>1. /\ UNCHANGED spaces /\ op.pc = "checkHealth"
          /\ \/ op' = Compensate(op, "fail")
             \/ op' = [op EXCEPT !.pc = "saveHealthy", !.l.status = "healthy"]
      BY <2>7 DEF CheckHealth, FailStart, store
    <3>2. ASSUME op' = [op EXCEPT !.pc = "saveHealthy", !.l.status = "healthy"]
          PROVE  op'.pc = "saveHealthy" /\ SameTask(op')
      BY <3>2 DEF Operation, SameTask
    <3> QED BY <3>1, <3>2 DEF StartPCs
  <2>8. CASE SaveHealthy
    <3>1. /\ UNCHANGED spaces /\ op.pc = "saveHealthy"
          /\ op' = Compensate(op, "fail") \/ op' = [op EXCEPT !.pc = "addRoute"]
      BY <2>8 DEF SaveHealthy, SaveOk, SaveLink, FailStart, store
    <3> QED BY <1>g, <3>1 DEF StartPCs
  <2>9. CASE AddRoute
    <3>1. /\ UNCHANGED spaces /\ op.pc = "addRoute"
          /\ \/ op' = Compensate(op, "fail")
             \/ op' = [op EXCEPT !.pc = "saveActive", !.l.status = "active"]
      BY <2>9 DEF AddRoute, FailStart, store
    <3>2. ASSUME op' = [op EXCEPT !.pc = "saveActive", !.l.status = "active"]
          PROVE  op'.pc = "saveActive" /\ SameTask(op')
      BY <3>2 DEF Operation, SameTask
    <3> QED BY <3>1, <3>2 DEF StartPCs
  <2>10. CASE SaveActive
    <3>1. UNCHANGED spaces /\ op.pc = "saveActive" /\ op' = [op EXCEPT !.pc = "unroute"]
      BY <2>0, <2>10 DEF SaveActive, SaveOk, SaveLink, Goto, store
    <3> QED BY <1>g, <3>1
  <2>11. CASE Unroute
    BY <2>11 DEF Unroute, FailStart, StartPCs, store
  <2> QED BY <2>1, <2>2, <2>3, <2>4, <2>5, <2>6, <2>7, <2>8, <2>9, <2>10, <2>11 DEF Start
<1>2. CASE op' = Compensate(op, "fail") /\ op.pc \in StartPCs
  BY <1>1, <1>2, <1>f, <1>s
<1>3. CASE ~(op' = Compensate(op, "fail") /\ op.pc \in StartPCs)
  <2>1. /\ SameTask(op') /\ op.pc \in StartPCs /\ op'.pc \in StartPCs
        /\ Course[op'.pc] < Course[op.pc]
    BY <1>1, <1>3 DEF StartPCs, Course
  <2> QED BY <1>1, <1>s, <2>1
<1> QED BY <1>2, <1>3

\* Compensation goes on with its next call, with the save that follows it, with
\* the loop it came from, or with the start of a restart.
LEMMA CompensationAdvances ==
  ASSUME op \in Operation, Compensation, op'.pc # "idle"
  PROVE  NextCall \/ BackToLoop
<1>0. op' # Idle
  BY DEF Idle
<1>e. InHand
  BY DEF Compensation, RemoveRoute, StopProcess, ReturnPort, SaveFailed, SaveTerminal,
         DeleteRow, SaveCreating, InHand, CompensationPCs, AfterPCs
<1>r. ASSUME UNCHANGED spaces,
             \/ op' = Returned(op)
             \/ op.ret = "shut" /\ op' = [Returned(op) EXCEPT !.err = TRUE]
      PROVE  BackToLoop
  <2>1. op.ret # "idle" /\ op.ret \in LoopPCs
    BY <1>0, <1>r DEF Returned, Operation
  <2> DEFINE o == Returned(op)
  <2>2. o = [op EXCEPT !.pc = op.ret, !.id = NoLink, !.l = FreeLink, !.compErr = FALSE]
    BY <2>1 DEF Returned
  <2>3. /\ o.pc = op.ret /\ o.todo = op.todo /\ o.space = op.space
        /\ LET e == [o EXCEPT !.err = TRUE] IN
              e.pc = op.ret /\ e.todo = op.todo /\ e.space = op.space
    BY <2>2 DEF Operation
  <2> HIDE DEF o
  <2> QED BY <1>e, <1>r, <2>1, <2>3 DEF BackToLoop, o
<1>n. ASSUME UNCHANGED spaces, SameTask(op'), op'.pc \in CompensationPCs \union AfterPCs \union {"allocate"},
             Calls(op'.pc, op'.then) < Calls(op.pc, op.then)
      PROVE  NextCall
  BY <1>e, <1>n DEF NextCall, InHand, StartPCs
<1>t. op.then \in {"fail", "destroy", "restart"}
  BY DEF Operation
<1>g. ASSUME NEW pc,
             \/ op' = [op EXCEPT !.pc = pc]
             \/ op' = [op EXCEPT !.pc = pc, !.compErr = TRUE]
      PROVE  SameTask(op') /\ op'.pc = pc /\ op'.then = op.then
  BY <1>g DEF Operation, SameTask
<1>1. CASE RemoveRoute
  <2>1. /\ UNCHANGED spaces /\ op.pc = "removeRoute"
        /\ \/ op' = [op EXCEPT !.pc = "stopProcess"]
           \/ op' = [op EXCEPT !.pc = "stopProcess", !.compErr = TRUE]
    BY <1>1 DEF RemoveRoute, Goto, store
  <2>2. op'.pc = "stopProcess" /\ SameTask(op') /\ op'.then = op.then
    BY <1>g, <2>1
  <2>3. Calls(op'.pc, op'.then) < Calls(op.pc, op.then)
    BY <1>t, <2>1, <2>2, CallValues
  <2> QED BY <1>n, <2>1, <2>2, <2>3 DEF CompensationPCs
<1>2. CASE StopProcess
  <2>1. /\ UNCHANGED spaces /\ op.pc = "stopProcess"
        /\ \/ op' = [op EXCEPT !.pc = "returnPort"]
           \/ op' = [op EXCEPT !.pc = "returnPort", !.compErr = TRUE]
    BY <1>2 DEF StopProcess, Goto, store
  <2>2. op'.pc = "returnPort" /\ SameTask(op') /\ op'.then = op.then
    BY <1>g, <2>1
  <2>3. Calls(op'.pc, op'.then) < Calls(op.pc, op.then)
    BY <1>t, <2>1, <2>2, CallValues
  <2> QED BY <1>n, <2>1, <2>2, <2>3 DEF CompensationPCs
<1>3. CASE ReturnPort
  <2>1. /\ UNCHANGED spaces /\ op.pc = "returnPort"
        /\ \E o \in {op, [op EXCEPT !.compErr = TRUE]} : op' = Compensated(o)
    BY <1>3 DEF ReturnPort, store
  <2>2. /\ SameTask(op') /\ op'.pc \in {"saveFailed", "saveTerminal", "saveCreating"}
        /\ op'.pc = "saveCreating" => op.then = "restart"
    BY <2>1, CompensatedEffect, CompensatedFrame
  <2>3. Calls(op'.pc, op'.then) < Calls(op.pc, op.then)
    BY <1>t, <2>1, <2>2, CallValues
  <2> QED BY <1>n, <2>1, <2>2, <2>3 DEF AfterPCs
<1>4. CASE SaveFailed
  <2>1. UNCHANGED spaces
    BY <1>4 DEF SaveFailed, SaveLink, store
  <2>2. op.ret = "shut" /\ op' = [Returned(op) EXCEPT !.err = TRUE]
    BY <1>0, <1>4 DEF SaveFailed, ReturnError, Abort
  <2> QED BY <1>r, <2>1, <2>2
<1>5. CASE SaveTerminal
  <2>1. /\ UNCHANGED spaces /\ op.pc = "saveTerminal"
        /\ \/ op' = [op EXCEPT !.pc = "deleteRow"]
           \/ op.ret = "shut" /\ op' = [Returned(op) EXCEPT !.err = TRUE]
    BY <1>0, <1>5 DEF SaveTerminal, SaveOk, SaveLink, ReturnError, Abort, store
  <2>2. CASE op' = [op EXCEPT !.pc = "deleteRow"]
    <3>1. op'.pc = "deleteRow" /\ SameTask(op')
      BY <1>g, <2>2
    <3> QED BY <1>n, <2>1, <3>1, CallValues DEF AfterPCs
  <2> QED BY <1>r, <2>1, <2>2
<1>6. CASE DeleteRow
  <2>1. UNCHANGED spaces
    BY <1>6 DEF DeleteRow, DeleteLink, store
  <2> QED BY <1>0, <1>6, <1>r, <2>1 DEF DeleteRow, ReturnError, Abort
<1>7. CASE SaveCreating
  <2>1. UNCHANGED spaces /\ op.pc = "saveCreating" /\ op' = [op EXCEPT !.pc = "allocate"]
    BY <1>0, <1>7 DEF SaveCreating, SaveOk, SaveFails, SaveLink, store
  <2>2. op'.pc = "allocate" /\ SameTask(op')
    BY <1>g, <2>1
  <2> QED BY <1>n, <2>1, <2>2, CallValues
<1> QED BY <1>1, <1>2, <1>3, <1>4, <1>5, <1>6, <1>7 DEF Compensation

\* A loop takes its next link, or goes on to the next part of the pass.
LEMMA LoopAdvances ==
  ASSUME op \in Operation, StoreTypeOK, DropSpace \/ Reconcile \/ Shutdown, op'.pc # "idle"
  PROVE  NextLink \/ NextPart \/ SpaceDone
<1>0. op' # Idle
  BY DEF Idle
<1>d. ASSUME op.pc \in LoopPCs, UNCHANGED store, NEW k \in op.todo, NEW term,
             op' = Destroy(Visiting(k), k, term, op.pc)
      PROVE  NextLink
  <2>1. Visiting(k) \in Operation /\ Visiting(k).todo = op.todo \ {k} /\ Visiting(k).space = op.space
    BY DEF Visiting, Operation
  <2>2. /\ op'.pc = "removeRoute" /\ op'.ret = op.pc /\ op'.todo = op.todo \ {k}
        /\ op'.space = op.space
    BY <1>d, <2>1, DestroyEffect
  <2> QED BY <1>d, <2>2 DEF NextLink, InHand, CompensationPCs, store
<1>1. CASE DropSpace
  <2>1. UNCHANGED store /\ op.pc = "drop"
        /\ \E k \in op.todo : op' = Destroy(Visiting(k), k, "deleted", "drop")
    BY <1>0, <1>1 DEF DropSpace, DestroyLinks, QueryFails, Abort
  <2> QED BY <1>d, <2>1 DEF LoopPCs
<1>2. CASE PurgeSpace
  <2>1. /\ op.pc = "purge"
        /\ \/ UNCHANGED store /\ \E k \in op.todo : op' = Destroy(Visiting(k), k, "expired", "purge")
           \/ DeleteSpace(op.space) /\ op' = [op EXCEPT !.pc = "spaces", !.space = NoSpace]
    BY <1>0, <1>2 DEF PurgeSpace, DestroyLinks, QueryFails, Abort
  <2>2. CASE DeleteSpace(op.space) /\ op' = [op EXCEPT !.pc = "spaces", !.space = NoSpace]
    <3>1. op'.pc = "spaces"
      BY <2>2 DEF Operation
    <3>2. LiveSpaces' = LiveSpaces \ {op.space}
      BY <2>2 DEF DeleteSpace, LiveSpaces, LiveSpace, StoreTypeOK, SpaceRow
    <3> QED BY <2>1, <3>1, <3>2 DEF SpaceDone
  <2> QED BY <1>d, <2>1, <2>2 DEF LoopPCs
<1>3. CASE SweepLinks
  <2>1. /\ UNCHANGED store /\ op.pc = "expired"
        /\ \/ \E k \in op.todo : op' = Destroy(Visiting(k), k, "expired", "expired")
           \/ op' = [op EXCEPT !.pc = "spaces"]
    BY <1>0, <1>3 DEF SweepLinks, QueryFails, Abort, Goto
  <2>2. CASE op' = [op EXCEPT !.pc = "spaces"]
    BY <2>1, <2>2, GotoEffect DEF NextPart, store
  <2> QED BY <1>d, <2>1, <2>2 DEF LoopPCs
<1>4. CASE SweepSpaces
  <2>1. /\ UNCHANGED store /\ op.pc = "spaces"
        /\ \/ \E s \in ExpiredSpaces(op.asOf) :
                op' = [op EXCEPT !.pc = "purge", !.space = s, !.todo = ListLinks(s)]
           \/ op' = [op EXCEPT !.pc = "inspect", !.asOf = now, !.ended = EndedProcs,
                            !.todo = ReconciliationLinks(now)]
    BY <1>0, <1>4 DEF SweepSpaces, QueryFails, Abort
  <2>2. ASSUME NEW s \in ExpiredSpaces(op.asOf),
               op' = [op EXCEPT !.pc = "purge", !.space = s, !.todo = ListLinks(s)]
        PROVE  op'.pc = "purge" /\ op'.space \in LiveSpaces
    BY <2>2 DEF Operation, ExpiredSpaces, LiveSpaces
  <2>3. ASSUME op' = [op EXCEPT !.pc = "inspect", !.asOf = now, !.ended = EndedProcs,
                            !.todo = ReconciliationLinks(now)]
        PROVE  op'.pc = "inspect"
    BY <2>3 DEF Operation
  <2>4. UNCHANGED spaces
    BY <2>1 DEF store
  <2> QED BY <2>1, <2>2, <2>3, <2>4 DEF NextPart
<1>5. CASE Inspect
  <2>1. /\ UNCHANGED store /\ op.pc = "inspect"
        /\ \E k \in op.todo :
             \/ op' = [Visiting(k) EXCEPT !.desired = @ \union {k}]
             \/ op' = Destroy(Visiting(k), k, "failed", "inspect")
             \/ op' = Destroy(Visiting(k), k, "expired", "inspect")
    BY <1>5 DEF Inspect
  <2>2. ASSUME NEW k \in op.todo, op' = [Visiting(k) EXCEPT !.desired = @ \union {k}]
        PROVE  NextLink
    <3>1. /\ Visiting(k) \in Operation /\ Visiting(k).pc = op.pc /\ Visiting(k).space = op.space
          /\ Visiting(k).todo = op.todo \ {k}
      BY DEF Visiting, Operation
    <3>2. op'.pc = op.pc /\ op'.space = op.space /\ op'.todo = op.todo \ {k}
      BY <2>2, <3>1 DEF Operation
    <3> QED BY <2>1, <3>2 DEF NextLink, LoopPCs, store
  <2> QED BY <1>d, <2>1, <2>2 DEF LoopPCs
<1>6. ~ApplyRoutes
  BY <1>0 DEF ApplyRoutes, QueryFails, Abort
<1>7. CASE Shutdown
  <2>1. /\ UNCHANGED store /\ op.pc = "shut"
        /\ \E k \in op.todo : op' = Destroy(Visiting(k), k, "deleted", "shut")
    BY <1>0, <1>7 DEF Shutdown
  <2> QED BY <1>d, <2>1 DEF LoopPCs
<1> QED BY <1>1, <1>2, <1>3, <1>4, <1>5, <1>6, <1>7 DEF Reconcile

LEMMA OperationMoves ==
  ASSUME IInv, Operate, op'.pc # "idle"
  PROVE  NextCall \/ BackToLoop \/ NextLink \/ NextPart \/ SpaceDone
BY StartAdvances, CompensationAdvances, LoopAdvances DEF Operate, IInv, TypeOK

\* The calls on a link are counted while one is in hand.
LEMMA CallsCounted ==
  /\ CallsLeft  = IF InHand  THEN Calls(op.pc, op.then)   ELSE 0
  /\ CallsLeft' = IF InHand' THEN Calls(op'.pc, op'.then) ELSE 0
BY DEF CallsLeft, Calls

\* The first component that changes decides.
LEMMA NearerBy ==
  ASSUME \/ Cardinality(LiveSpaces)' < Cardinality(LiveSpaces)
         \/ LiveSpaces' = LiveSpaces /\ Stage' < Stage
         \/ /\ LiveSpaces' = LiveSpaces /\ Stage' = Stage
            /\ Cardinality(op.todo)' < Cardinality(op.todo)
         \/ /\ LiveSpaces' = LiveSpaces /\ Stage' = Stage /\ op'.todo = op.todo
            /\ CallsLeft' < CallsLeft
  PROVE  Nearer
<1> DEFINE a == Ahead  b == Ahead'
<1>1. /\ a[1] = Cardinality(LiveSpaces) /\ a[2] = Stage /\ a[3] = Cardinality(op.todo)
      /\ a[4] = CallsLeft
      /\ b[1] = Cardinality(LiveSpaces)' /\ b[2] = Stage' /\ b[3] = Cardinality(op.todo)'
      /\ b[4] = CallsLeft'
  BY DEF Ahead
<1>2. LiveSpaces' = LiveSpaces => b[1] = a[1]
  BY <1>1
<1>3. op'.todo = op.todo => b[3] = a[3]
  BY <1>1
<1> HIDE DEF a, b
<1>4. \E i \in 1 .. 4 : b[i] < a[i] /\ \A j \in 1 .. i - 1 : b[j] = a[j]
  <2>1. CASE b[1] < a[1]
    BY <2>1
  <2>2. CASE b[1] = a[1] /\ b[2] < a[2]
    <3>1. \A j \in 1 .. 2 - 1 : j = 1
      OBVIOUS
    <3> QED BY <2>2, <3>1
  <2>3. CASE b[1] = a[1] /\ b[2] = a[2] /\ b[3] < a[3]
    <3>1. \A j \in 1 .. 3 - 1 : j \in {1, 2}
      OBVIOUS
    <3> QED BY <2>3, <3>1
  <2>4. CASE b[1] = a[1] /\ b[2] = a[2] /\ b[3] = a[3] /\ b[4] < a[4]
    <3>1. \A j \in 1 .. 4 - 1 : j \in {1, 2, 3}
      OBVIOUS
    <3> QED BY <2>4, <3>1
  <2> QED BY <1>1, <1>2, <1>3, <2>1, <2>2, <2>3, <2>4
<1> QED BY <1>4 DEF Nearer, a, b

LEMMA CallsPositive ==
  ASSUME op \in Operation, InHand
  PROVE  Calls(op.pc, op.then) \in Nat /\ Calls(op.pc, op.then) > 0
<1>1. op.then = "restart" \/ op.then # "restart"
  OBVIOUS
<1> QED BY <1>1, CallValues DEF InHand, StartPCs, CompensationPCs, AfterPCs

\* Every one of those moves is a move forward.
LEMMA MovesAdvance ==
  ASSUME IsFiniteSet(Links), IsFiniteSet(Spaces), op \in Operation, PurgeInv,
         NextCall \/ BackToLoop \/ NextLink \/ NextPart \/ SpaceDone
  PROVE  Nearer /\ PurgeInv'
<1>s. UNCHANGED spaces => LiveSpaces' = LiveSpaces
  BY DEF LiveSpaces, LiveSpace
<1>l. op.pc \in LoopPCs => ~InHand /\ Loop = op.pc
  BY DEF InHand, Loop, LoopPCs, StartPCs, CompensationPCs, AfterPCs
<1>m. op'.pc \in LoopPCs => ~InHand' /\ Loop' = op'.pc
  BY DEF InHand, Loop, LoopPCs, StartPCs, CompensationPCs, AfterPCs
<1>1. CASE NextCall
  <2>1. Loop' = Loop /\ op'.space = op.space /\ op'.todo = op.todo /\ LiveSpaces' = LiveSpaces
    BY <1>s, <1>1 DEF NextCall, Loop, SameTask
  <2>2. Stage' = Stage
    BY <2>1 DEF Stage
  <2>3. CallsLeft' < CallsLeft
    BY <1>1, CallsCounted DEF NextCall
  <2> QED BY <2>1, <2>2, <2>3, NearerBy DEF PurgeInv
<1>2. CASE BackToLoop
  <2>1. Loop' = Loop /\ op'.space = op.space /\ op'.todo = op.todo /\ LiveSpaces' = LiveSpaces
    BY <1>m, <1>s, <1>2 DEF BackToLoop, Loop
  <2>2. Stage' = Stage
    BY <2>1 DEF Stage
  <2>3. CallsLeft' < CallsLeft
    BY <1>m, <1>2, CallsCounted, CallsPositive DEF BackToLoop
  <2> QED BY <2>1, <2>2, <2>3, NearerBy DEF PurgeInv
<1>3. CASE NextLink
  <2>1. Loop' = Loop /\ op'.space = op.space /\ LiveSpaces' = LiveSpaces
    BY <1>l, <1>m, <1>s, <1>3 DEF NextLink, Loop
  <2>2. Stage' = Stage
    BY <2>1 DEF Stage
  <2>3. Cardinality(op.todo)' < Cardinality(op.todo)
    <3>1. PICK k \in op.todo : op'.todo = op.todo \ {k}
      BY <1>3 DEF NextLink
    <3>2. IsFiniteSet(op.todo)
      BY FS_Subset DEF Operation
    <3>3. Cardinality(op.todo \ {k}) = Cardinality(op.todo) - 1 /\ Cardinality(op.todo) \in Nat
      BY <3>2, FS_RemoveElement, FS_CardinalityType
    <3>4. Cardinality(op.todo \ {k}) < Cardinality(op.todo)
      BY <3>3
    <3> QED BY <3>1, <3>4
  <2> QED BY <2>1, <2>2, <2>3, NearerBy DEF PurgeInv
<1>4. CASE NextPart
  <2>1. Stage' < Stage /\ LiveSpaces' = LiveSpaces
    BY <1>l, <1>m, <1>s, <1>4 DEF NextPart, Stage, LoopPCs
  <2>2. PurgeInv'
    BY <1>m, <1>s, <1>4 DEF NextPart, PurgeInv, LoopPCs
  <2> QED BY <2>1, <2>2, NearerBy
<1>5. CASE SpaceDone
  <2>1. op.space \in LiveSpaces /\ LiveSpaces' = LiveSpaces \ {op.space}
    BY <1>l, <1>5 DEF SpaceDone, PurgeInv, LoopPCs
  <2>2. Cardinality(LiveSpaces)' < Cardinality(LiveSpaces)
    <3>1. IsFiniteSet(LiveSpaces)
      BY FS_Subset DEF LiveSpaces
    <3>2. /\ Cardinality(LiveSpaces \ {op.space}) = Cardinality(LiveSpaces) - 1
          /\ Cardinality(LiveSpaces) \in Nat
      BY <2>1, <3>1, FS_RemoveElement, FS_CardinalityType
    <3>3. Cardinality(LiveSpaces \ {op.space}) < Cardinality(LiveSpaces)
      BY <3>2
    <3> QED BY <2>1, <3>3
  <2>3. PurgeInv'
    BY <1>m, <1>5 DEF SpaceDone, PurgeInv, LoopPCs
  <2> QED BY <2>2, <2>3, NearerBy
<1> QED BY <1>1, <1>2, <1>3, <1>4, <1>5

\* Everything that happens while an operation is under way leaves it where it is.
LEMMA WorldWaits ==
  ASSUME op \in Operation, DownIsIdle, Next, ~Operate, op.pc # "idle", op'.pc # "idle"
  PROVE  UNCHANGED spaces /\ SameTask(op') /\ op'.pc = op.pc /\ op'.then = op.then
<1>1. ~Requests /\ ~Ticker /\ ~BeginShutdown
  BY DEF Requests, CreateSpace, RequestDrop, CreateLink, RequestDelete, RequestRestart,
     Admitted, Ticker, BeginShutdown
<1>2. ~Crash /\ ~Startup
  BY DEF Crash, Startup, DownIsIdle, Idle
<1>3. CASE StopSignal \/ Tick \/ (\E q \in Procs : Exit(q))
  BY <1>3 DEF StopSignal, Tick, Exit, store, SameTask
<1>4. CASE Cancel
  <2>1. UNCHANGED spaces /\ op' = [op EXCEPT !.cancelled = TRUE]
    BY <1>4 DEF Cancel, store
  <2> QED BY <2>1 DEF Operation, SameTask
<1> QED BY <1>1, <1>2, <1>3, <1>4 DEF Next

\* A new operation does not begin with the purge of a space.
LEMMA BegunElsewhere ==
  ASSUME IInv, Next, op.pc = "idle" \/ op'.pc = "idle"
  PROVE  PurgeInv'
<1>0. op \in Operation
  BY DEF IInv, TypeOK
<1>p. ASSUME op'.pc \in {"idle", "expired", "shut", "drop"} \/ (InHand' /\ op'.ret = "idle")
      PROVE  PurgeInv'
  BY <1>p DEF PurgeInv, Loop, InHand, StartPCs, CompensationPCs, AfterPCs
<1>1. CASE op'.pc = "idle"
  BY <1>p, <1>1
<1>2. CASE op.pc = "idle" /\ op'.pc # "idle"
  <2>1. ~Operate
    BY <1>2 DEF Operate, Start, StartExpired, Allocate, SaveStarting, ReleasePort, Spawn, SaveSpawned,
       CheckHealth, SaveHealthy, AddRoute, SaveActive, Unroute, Compensation, RemoveRoute, StopProcess,
       ReturnPort, SaveFailed, SaveTerminal, DeleteRow, SaveCreating, DropSpace, PurgeSpace,
       DestroyLinks, Reconcile, SweepLinks, SweepSpaces, Inspect, ApplyRoutes, Shutdown
  <2>2. ~StopSignal /\ ~Crash /\ ~Tick /\ ~(\E q \in Procs : Exit(q))
    BY <1>2 DEF StopSignal, Crash, Tick, Exit, Idle
  <2>3. ~Cancel
    BY <1>0, <1>2 DEF Cancel, Operation
  <2>4. CASE Ticker \/ Startup \/ BeginShutdown
    <3>1. \/ op' = BeginReconcile
          \/ op' = [Idle EXCEPT !.kind = "shutdown", !.pc = "shut", !.asOf = now,
                                !.todo = ReconciliationLinks(now)]
      BY <2>4 DEF Ticker, Startup, BeginShutdown
    <3>2. op'.pc \in {"expired", "shut"}
      BY <3>1 DEF BeginReconcile, Idle
    <3> QED BY <1>p, <3>2
  <2>5. CASE Requests
    <3>e. Request.ret = "idle" /\ Request \in Operation
      BY FreshTypes DEF Request, Idle
    <3>1. ~(\E s \in Spaces : CreateSpace(s))
      BY <1>2 DEF CreateSpace
    <3>2. ASSUME NEW s \in Spaces, RequestDrop(s) PROVE op'.pc = "drop"
      <4>1. op' = [Request EXCEPT !.pc = "drop", !.space = s, !.todo = ListLinks(s)]
        BY <3>2 DEF RequestDrop
      <4> QED BY <3>e, <4>1 DEF Operation
    <3>3. ASSUME NEW k \in Links, NEW s \in Spaces, CreateLink(k, s)
          PROVE  op'.pc = "allocate" /\ op'.ret = "idle"
      <4>1. \E l : op' = [Request EXCEPT !.pc = "allocate", !.id = k, !.l = l]
        BY <3>3 DEF CreateLink
      <4> QED BY <3>e, <4>1 DEF Operation
    <3>4. ASSUME NEW k \in Links, RequestDelete(k)
          PROVE  op'.pc = "removeRoute" /\ op'.ret = "idle"
      BY <3>e, <3>4, DestroyEffect DEF RequestDelete
    <3>5. ASSUME NEW k \in Links, RequestRestart(k)
          PROVE  op'.pc = "removeRoute" /\ op'.ret = "idle"
      <4>1. \/ op' = Destroy(Request, k, "expired", "idle")
            \/ op' = Compensate([Request EXCEPT !.id = k, !.l = rows[k]], "restart")
        BY <3>5 DEF RequestRestart
      <4>2. CASE op' = Destroy(Request, k, "expired", "idle")
        BY <3>e, <4>2, DestroyEffect
      <4>3. CASE op' = Compensate([Request EXCEPT !.id = k, !.l = rows[k]], "restart")
        BY <3>e, <4>3 DEF Compensate, Operation
      <4> QED BY <4>1, <4>2, <4>3
    <3>6. op'.pc = "drop" \/ (op'.pc \in {"allocate", "removeRoute"} /\ op'.ret = "idle")
      BY <2>5, <3>1, <3>2, <3>3, <3>4, <3>5 DEF Requests
    <3> QED BY <1>p, <3>6 DEF InHand, StartPCs, CompensationPCs
  <2> QED BY <2>1, <2>2, <2>3, <2>4, <2>5 DEF Next
<1> QED BY <1>1, <1>2

\* Every step of the system, as far as the operation in progress is concerned.
LEMMA AdvanceInductive ==
  ASSUME IsFiniteSet(Links), IsFiniteSet(Spaces), IInv, DownIsIdle, PurgeInv, Next
  PROVE  /\ op.pc # "idle" /\ op'.pc # "idle" => IF Operate THEN Nearer ELSE UNCHANGED Ahead
         /\ PurgeInv'
<1>0. op \in Operation
  BY DEF IInv, TypeOK
<1>1. CASE op.pc = "idle" \/ op'.pc = "idle"
  BY <1>1, BegunElsewhere
<1>2. CASE op.pc # "idle" /\ op'.pc # "idle" /\ Operate
  BY <1>0, <1>2, OperationMoves, MovesAdvance
<1>3. CASE op.pc # "idle" /\ op'.pc # "idle" /\ ~Operate
  <2>1. /\ UNCHANGED spaces /\ op'.pc = op.pc /\ op'.ret = op.ret /\ op'.todo = op.todo
        /\ op'.then = op.then /\ op'.space = op.space
    BY <1>0, <1>3, WorldWaits DEF SameTask
  <2>2. LiveSpaces' = LiveSpaces /\ (InHand' <=> InHand) /\ Loop' = Loop
    BY <2>1 DEF LiveSpaces, LiveSpace, InHand, Loop
  <2>3. Stage' = Stage /\ CallsLeft' = CallsLeft
    BY <2>1, <2>2 DEF Stage, CallsLeft
  <2>4. UNCHANGED Ahead
    BY <2>1, <2>2, <2>3 DEF Ahead
  <2> QED BY <1>3, <2>1, <2>2, <2>4 DEF PurgeInv
<1> QED BY <1>1, <1>2, <1>3

\* However many links and spaces there are and however many calls fail: the
\* operation that holds Service.mu only moves forward, so that it makes a bounded
\* number of calls, and nothing that happens meanwhile takes it back.
THEOREM OperationAdvancesAlways ==
  ASSUME IsFiniteSet(Links), IsFiniteSet(Spaces)
  PROVE  Spec => OperationAdvances
<1> DEFINE A == op.pc # "idle" /\ op'.pc # "idle" => IF Operate THEN Nearer ELSE UNCHANGED Ahead
<1>1. Init => PurgeInv /\ DownIsIdle
  <2> SUFFICES ASSUME Init PROVE PurgeInv /\ DownIsIdle
    OBVIOUS
  <2>1. op.pc = "idle"
    BY DEF Init, Idle
  <2> QED BY <2>1 DEF PurgeInv, DownIsIdle, Loop, InHand, StartPCs, CompensationPCs, AfterPCs
<1>2. ASSUME IInv, PurgeInv /\ DownIsIdle, [Next]_vars
      PROVE  (PurgeInv /\ DownIsIdle)' /\ [A]_vars
  <2>1. CASE Next
    BY <1>2, <2>1, AdvanceInductive, DownStaysIdle
  <2>2. CASE UNCHANGED vars
    BY <1>2, <2>2 DEF vars, PurgeInv, DownIsIdle, Loop, InHand, LiveSpaces, LiveSpace
  <2> QED BY <1>2, <2>1, <2>2
<1> QED BY <1>1, <1>2, RepairInvariant, PTL DEF Spec, OperationAdvances
=============================================================================
