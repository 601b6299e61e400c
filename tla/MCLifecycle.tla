---------------------------- MODULE MCLifecycle ----------------------------
(* Small instances of Lifecycle for TLC. *)
EXTENDS Lifecycle, TLC

Symmetry == Permutations(Links) \union Permutations(Ports) \union Permutations(Procs)

\* Failing calls, cancelled operations, crashes and stops: any three in one
\* behaviour.
ThreeMishaps == spent.faults + spent.cancels + spent.crashes + spent.stops <= 3
=============================================================================
