----------------------------- MODULE Migration -----------------------------
(***************************************************************************)
(* Opening the database (internal/adapters/outbound/libsql, Open and       *)
(* migrate): several processes, of the same or of different releases, lock *)
(* the database, look at its schema version and bring it up to their own.  *)
(* SQLite makes a transaction that does not commit leave no trace.         *)
(***************************************************************************)
EXTENDS Naturals

CONSTANTS Openers,  \* processes that open one database file
          Version,  \* the schema version each was built with
          Newest,   \* no release goes beyond this version
          Nobody    \* no process holds the write lock

ASSUME MigrationAssumption ==
  /\ Newest \in Nat
  /\ Version \in [Openers -> 1 .. Newest]
  /\ Nobody \notin Openers

VARIABLES schema,   \* the highest version in the ledger of the file
          writer,   \* who holds the write lock
          draft,    \* the version that its transaction has reached
          opening   \* where each process is

migration == <<schema, writer, draft, opening>>

MigrationTypeOK ==
  /\ schema \in 0 .. Newest
  /\ writer \in Openers \union {Nobody}
  /\ draft \in 0 .. Newest
  /\ opening \in [Openers -> {"waiting", "upgrading", "opened", "failed", "closed"}]

MigrationInit ==
  /\ schema \in 0 .. Newest /\ draft = 0 /\ writer = Nobody
  /\ opening = [p \in Openers |-> "waiting"]

Moves(p, from, to) == opening[p] = from /\ opening' = [opening EXCEPT ![p] = to]

\* BEGIN IMMEDIATE, and only then the look at the version.
Begin(p) ==
  /\ writer = Nobody /\ Moves(p, "waiting", "upgrading")
  /\ writer' = p /\ draft' = schema
  /\ UNCHANGED schema

\* The lock stays taken for ten seconds, or the file cannot be used.
GiveUp(p) == Moves(p, "waiting", "failed") /\ UNCHANGED <<schema, writer, draft>>

\* The statements of the next version.
Upgrade(p) ==
  /\ opening[p] = "upgrading" /\ draft < Version[p]
  /\ draft' = draft + 1
  /\ UNCHANGED <<schema, writer, opening>>

\* Mutant: a newer schema is not refused.
CommitsAnyway(p) == draft >= Version[p]

MayCommit(p) == draft = Version[p]

Commit(p) ==
  /\ MayCommit(p) /\ Moves(p, "upgrading", "opened")
  /\ schema' = draft /\ writer' = Nobody /\ draft' = 0

\* The version is newer than this release, a statement or the COMMIT fails, or
\* the process dies: the transaction is rolled back.
Rollback(p) ==
  /\ Moves(p, "upgrading", "failed")
  /\ writer' = Nobody /\ draft' = 0
  /\ UNCHANGED schema

OpenStep(p) == Begin(p) \/ GiveUp(p) \/ Upgrade(p) \/ Commit(p) \/ Rollback(p)

-----------------------------------------------------------------------------
Opens(p) == opening[p] = "upgrading" /\ opening'[p] = "opened"
OwnSchema(p) == schema' = Version[p] /\ schema' >= schema

\* Whoever opens the database finds it, at that moment, at exactly the version
\* it was built for, with several processes at it and whatever the file held;
\* no open takes the file back.
OpensOwnSchema == [][\A p \in Openers : Opens(p) => OwnSchema(p)]_migration
=============================================================================
