----------------------------- MODULE MCDaemon -----------------------------
(* A daemon and a process of an older release at one database, for TLC. *)
EXTENDS Daemon

Releases == [p \in Openers |-> IF p = Self THEN Newest ELSE Newest - 1]
=============================================================================
