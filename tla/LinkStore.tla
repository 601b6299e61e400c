----------------------------- MODULE LinkStore -----------------------------
(***************************************************************************)
(* The repository of spaces and links (internal/adapters/outbound/libsql). *)
(*                                                                         *)
(* A link slot stands for one (space, name) pair and a space slot for one  *)
(* alias: the UNIQUE constraints of the schema also cover archived rows,   *)
(* so a slot goes free -> live -> archived and is never used twice.        *)
(* "archived" is deleted_at IS NOT NULL; every statement of the store but  *)
(* the inserts is restricted to rows that are still live.                  *)
(***************************************************************************)
EXTENDS Naturals

CONSTANTS Links,    \* link slots: one (space, name) pair each
          Spaces,   \* space slots: one alias each
          Ports,    \* loopback TCP ports
          Procs,    \* process identities (pid:generation)
          NoPort,   \* allocated_port IS NULL, and a health URL with {port}
          FixedPort, \* the port a client wrote into the health URL itself
          NoProc,   \* process_identity IS NULL
          NoSpace   \* the space of a slot that was never used

ASSUME StoreAssumption ==
  /\ NoPort \notin Ports
  /\ FixedPort \notin Ports \union {NoPort}
  /\ NoProc \notin Procs
  /\ NoSpace \notin Spaces

VARIABLES spaces, rows

store == <<spaces, rows>>

Slot == {"free", "live", "archived"}

\* domain.LinkStatus; "stopping" is declared but no code ever writes it.
Status == {"creating", "starting", "healthy", "active", "deleted", "expired", "failed"}

SpaceRow == [slot: Slot, exp: Nat]

\* probe is the port inside the persisted health URL: NoPort as long as the
\* URL still holds the literal {port} placeholder, FixedPort if it never did.
LinkRow == [slot: Slot, space: Spaces \union {NoSpace}, status: Status,
            port: Ports \union {NoPort}, proc: Procs \union {NoProc},
            probe: Ports \union {NoPort, FixedPort}, exp: Nat]

FreeSpace == [slot |-> "free", exp |-> 0]
FreeLink  == [slot |-> "free", space |-> NoSpace, status |-> "creating",
              port |-> NoPort, proc |-> NoProc, probe |-> NoPort, exp |-> 0]

StoreTypeOK == /\ spaces \in [Spaces -> SpaceRow]
               /\ rows \in [Links -> LinkRow]

StoreInit == /\ spaces = [s \in Spaces |-> FreeSpace]
             /\ rows = [k \in Links |-> FreeLink]

\* domain.Expired: the exact expiry instant is already terminal.
Expired(exp, t) == exp <= t

LiveLink(k)  == rows[k].slot = "live"
LiveSpace(s) == spaces[s].slot = "live"

----------------------------------------------------------------------------
(* Queries *)

ListLinks(s)           == {k \in Links : LiveLink(k) /\ rows[k].space = s}
\* Mutant: only active links are swept.
ActiveExpired(t)       == {k \in Links : /\ LiveLink(k) /\ rows[k].status = "active"
                                         /\ Expired(rows[k].exp, t)}
ExpiredLinks(t)        == {k \in Links : LiveLink(k) /\ Expired(rows[k].exp, t)}
ExpiredSpaces(t)       == {s \in Spaces : LiveSpace(s) /\ Expired(spaces[s].exp, t)}
\* Mutant: a failed link is taken for a terminal one.
ReconcilableLinks(t)   == {k \in Links : /\ LiveLink(k)
                                         /\ ~Expired(rows[k].exp, t)
                                         /\ rows[k].status \notin {"deleted", "expired", "failed"}}
ReconciliationLinks(t) == {k \in Links : /\ LiveLink(k)
                                         /\ ~Expired(rows[k].exp, t)
                                         /\ rows[k].status \notin {"deleted", "expired"}}

----------------------------------------------------------------------------
(* Statements that commit *)

InsertSpace(s, exp) == /\ spaces' = [spaces EXCEPT ![s] = [slot |-> "live", exp |-> exp]]
                       /\ UNCHANGED rows

InsertLink(k, l) == /\ rows' = [rows EXCEPT ![k] = l]
                    /\ UNCHANGED spaces

\* SaveLink rewrites the mutable columns of a live row with the caller's copy.
SaveLink(k, l) == /\ rows' = [rows EXCEPT ![k] = IF @.slot = "live" THEN l ELSE @]
                  /\ UNCHANGED spaces

\* DeleteLink keeps the row and hides it from every later statement.
ArchivedRow(l) == [l EXCEPT !.slot = "archived", !.status = "deleted"]

DeleteLink(k) == /\ rows' = [rows EXCEPT ![k] = IF @.slot = "live" THEN ArchivedRow(@) ELSE @]
                 /\ UNCHANGED spaces

\* DeleteSpace archives the space and whatever links it still has, in one
\* transaction.
DeleteSpace(s) ==
  /\ spaces' = [spaces EXCEPT ![s].slot = "archived"]
  /\ rows' = [k \in Links |-> IF k \in ListLinks(s) THEN ArchivedRow(rows[k]) ELSE rows[k]]
=============================================================================
