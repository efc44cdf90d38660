---------------------------- MODULE MCToolCalls ----------------------------
(* Instances of ToolCalls for TLC. *)
EXTENDS ToolCallsInv, TLC

\* Calls are interchangeable: nothing but equality is asked of them.
Symmetry == Permutations(Calls)

AllRequests == Kinds
\* One kind of each shape: fnRead ends like fnWrite, list like query.
LiveRequests == Kinds \ {"fnRead", "list"}
AllFeatures == WriteFeatures
=============================================================================
