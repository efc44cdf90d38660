------------------------------ MODULE MCPublish ------------------------------
(* Instances of Publish for TLC. *)
EXTENDS PublishInv, TLC

\* Runs are interchangeable: nothing but equality is asked of them.
Symmetry == Permutations(Runs)
=============================================================================
