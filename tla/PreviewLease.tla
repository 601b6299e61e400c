---------------------------- MODULE PreviewLease ----------------------------
(***************************************************************************)
(* What Mirage promises of a link, whatever fails: the abstract            *)
(* specification that Lifecycle implements.                                *)
(*                                                                         *)
(* A lease is absent, private, public or gone, and has a worker, the       *)
(* process group recorded for it.  A lease is public only while a worker   *)
(* is recorded; a recorded worker is forgotten only after it ended and     *)
(* never while the lease is public; a lease is gone only once it is        *)
(* private and has no worker, and then it stays gone.                      *)
(***************************************************************************)
CONSTANT Leases

VARIABLE lease

Phase  == {"absent", "private", "public", "gone"}
Worker == {"none", "running", "ended"}
Lease  == [phase: Phase, worker: Worker]

Init == lease = [k \in Leases |-> [phase |-> "absent", worker |-> "none"]]

Kept(a, b)     == a.worker = b.worker
Register(a, b) == a.phase = "absent" /\ b.phase = "private" /\ Kept(a, b)
Publish(a, b)  == a.phase = "private" /\ b.phase = "public" /\ a.worker # "none" /\ Kept(a, b)
Withdraw(a, b) == a.phase = "public" /\ b.phase = "private" /\ Kept(a, b)
Retire(a, b)   == a.phase = "private" /\ a.worker = "none" /\ b.phase = "gone" /\ Kept(a, b)
Attach(a, b)   == a.phase = "private" /\ b.phase = "private" /\ a.worker = "none"
End(a, b)      == a.phase = b.phase /\ a.worker = "running" /\ b.worker = "ended"
Forget(a, b)   == a.phase = "private" /\ b.phase = "private" /\ a.worker = "ended" /\ b.worker = "none"

Move(a, b) == \/ a = b \/ Register(a, b) \/ Publish(a, b) \/ Withdraw(a, b)
              \/ Retire(a, b) \/ Attach(a, b) \/ End(a, b) \/ Forget(a, b)

\* One step may move many leases: the proxy is reconciled in one call.
Next == /\ lease' \in [Leases -> Lease]
        /\ \A k \in Leases : Move(lease[k], lease'[k])

Spec == Init /\ [][Next]_lease
=============================================================================
