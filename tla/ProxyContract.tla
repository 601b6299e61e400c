--------------------------- MODULE ProxyContract ---------------------------
(***************************************************************************)
(* What the reverse proxy promises to the rest of Mirage (ports.Proxy):    *)
(* one call at a time changes the table of owned routes towards a target.  *)
(* Whatever fails, each entry is at any moment what it was when the call   *)
(* was made or what the call wants, and a call that succeeds has reached   *)
(* its target.  Lifecycle relies on no more than this.                     *)
(***************************************************************************)
CONSTANTS Links, Upstreams, None

VARIABLES table, call

vars == <<table, call>>

Table == [Links -> Upstreams \union {None}]
Free(b) == [busy |-> FALSE, ok |-> b, old |-> [l \in Links |-> None], target |-> [l \in Links |-> None]]

Init == table \in Table /\ call = Free(TRUE)

Accept(t) == /\ ~call.busy
             /\ call' = [busy |-> TRUE, ok |-> TRUE, old |-> table, target |-> t]
             /\ UNCHANGED table

\* Entries go to the target, or back where they were when a call is undone.
Between == table' \in {t \in Table : \A l \in Links : t[l] \in {table[l], call.old[l], call.target[l]}}

Move    == call.busy /\ Between /\ UNCHANGED call
Succeed == call.busy /\ table' = call.target /\ call' = Free(TRUE)
Fail    == call.busy /\ Between /\ call' = Free(FALSE)

Next == (\E t \in Table : Accept(t)) \/ Move \/ Succeed \/ Fail

Spec == Init /\ [][Next]_vars
=============================================================================
