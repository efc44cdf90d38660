------------------------------ MODULE PolicyInv ------------------------------
(* The inductive invariant of Policy. *)
EXTENDS Policy, ScannerInv

\* The stations of a statement that is not rejected, in their order.
AtTables == {"tables", "accepted"}
AfterNodes == {"features", "schemas"} \cup AtTables
AfterParse == {"kind", "nodes"} \cup AfterNodes
AfterSource == {"parse"} \cup AfterParse
AfterScan == {"source"} \cup AfterSource
BeforeNodes == {"start", "scan", "source", "parse", "kind"}
Stations == {"start", "scan", "rejected"} \cup AfterScan

StationInv ==
    /\ pc \in Stations
    /\ pc # "rejected" => code = "none"
    /\ pc \in AfterSource => source \in Sources
    /\ pc \in AfterParse => stmt \in Statements
    /\ pc \in Stations \ (AtTables \cup {"rejected"}) => visible = <<>> /\ tables = 0
    /\ pc = "tables" => source.restricted

\* The scope of a block has, in lower case, every name that MySQL sees there.
Seen(s, b) == s.outer[b] \cup {s.cte[c] : c \in Bodies(s, b)}

ScopeInv ==
    pc = "tables" =>
       /\ visible \in Seq(SUBSET Names)
       /\ Block <= Len(stmt.parent)
       /\ \A b \in 1..Block : \A n \in Seen(stmt, b) : Lower[n] \in visible[b]

\* What has been looked at is inside.
CheckedInv ==
    pc = "tables" =>
       /\ Block > 0 => \A i \in DOMAIN stmt.direct : IsInside(stmt.direct[i])
       /\ \A b \in 1..(Block - 1) : \A i \in DOMAIN stmt.tables[b] : IsInside(stmt.tables[b][i])
       /\ tables \in Nat
       /\ \A i \in 1..tables : IsInside(TablesHere[i])

PolicyInvariant ==
    StationInv /\ ScopeInv /\ CheckedInv /\ ReachesOnlyAllowed /\ RejectedForCause

-----------------------------------------------------------------------------
(* What the nodes need, from a scan that agrees with the lexical units.      *)

SpellingInv ==
    /\ scan # "found" => found = "none"
    /\ pc \in AfterScan => ~apart
    /\ pc \in AfterParse => (apart <=> \E i \in DOMAIN stmt.nodes : "apart" \in stmt.nodes[i].marks)

NodesInv ==
    /\ nodes \in Nat
    /\ pc \in BeforeNodes => nodes = 0
    /\ pc = "nodes" => \A i \in 1..nodes : NodeCode(stmt.nodes[i]) = "none"
    /\ pc \in AfterNodes => \A i \in DOMAIN stmt.nodes : NodeCode(stmt.nodes[i]) = "none"
=============================================================================
