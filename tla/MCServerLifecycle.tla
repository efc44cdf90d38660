-------------------------- MODULE MCServerLifecycle --------------------------
(* Instances of ServerLifecycle for TLC. *)
EXTENDS ServerLifecycleInv, TLC

\* Connections are interchangeable: nothing but equality is asked of them.
Symmetry == Permutations(Connections)
=============================================================================
