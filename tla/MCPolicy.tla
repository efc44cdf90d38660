------------------------------ MODULE MCPolicy ------------------------------
(* An instance of Policy for TLC. *)
EXTENDS PolicyInv

MCSpaces == {" ", "newline"}
MCLetters == {"f", "x"}
MCSymFn == {<<"f">>}

\* Every text up to a length over a few characters that mean something together.
TextsOver(chars, length) == UNION {[1..k -> chars] : k \in 0..length}
MCTexts ==
    TextsOver({"quote", "backslash", "/", "*", "!"}, 6)
    \cup TextsOver({"quote", "backslash", "f", " ", "("}, 6)
    \cup TextsOver({"/", "*", "f", "(", "!"}, 6)
    \cup TextsOver({"#", "-", " ", "newline", "f", "("}, 5)
    \cup TextsOver({"tick", "f", " ", "(", "x"}, 5)
    \cup TextsOver({"f", "1", "(", " ", "double"}, 5)
    \cup TextsOver({"/", "*", "+", "quote", "double"}, 5)

MCSchemas == {"in", "out"}
MCNames == {"a", "A", "b", "dual"}
MCLower == [n \in MCNames |-> IF n = "A" THEN "a" ELSE n]

Source(tool, version, default, allowed, restricted, features, folds) ==
    [tool |-> tool, version |-> version, default |-> default, allowed |-> allowed,
     restricted |-> restricted, features |-> features, folds |-> folds]
Everything == MCSchemas \cup {"None"}
MCSources ==
    {Source("query", 80021, d, {"in"}, TRUE, {}, f) : d \in {"in", "None"}, f \in BOOLEAN}
    \cup {Source("execute", v, "in", {"in"}, TRUE, {"write", "ddl"}, TRUE) : v \in {50705, 80004}}
    \cup {Source("query", v, "in", {"in"}, TRUE, {}, TRUE) : v \in {50708, 80002}}
    \cup {Source("execute", 80014, "None", {"in"}, TRUE, {"write"}, FALSE),
          Source("query", 80016, "None", Everything, TRUE, {}, TRUE),
          Source("query", 50700, "out", Everything, FALSE, {}, TRUE)}

-----------------------------------------------------------------------------
Ref(schema, name, kind) == [schema |-> schema, name |-> name, kind |-> kind]

\* Blocks in the order of the calls: what follows a block until its last child is in it.
Parents(n) ==
    {p \in [1..n -> 0..(n - 1)] :
       /\ p[1] = 0
       /\ \A b \in 2..n : p[b] \in 1..(b - 1) /\ \A c \in (p[b] + 1)..(b - 1) : p[c] >= p[b]}

\* The bodies of a WITH come before the other blocks.
Ctes(p, names) ==
    {e \in [DOMAIN p -> names \cup {"None"}] :
       /\ e[1] = "None"
       /\ \A b, c \in DOMAIN p : b < c /\ p[b] = p[c] /\ e[c] # "None" => e[b] # "None"}

Statement(class, root, ns, direct, p, e, r, t) ==
    LET s == [class |-> class, root |-> root, nodes |-> ns, direct |-> direct,
              parent |-> p, cte |-> e, recursive |-> r, tables |-> t]
        outer[b \in DOMAIN p] == IF b = 1 THEN {} ELSE outer[p[b]] \cup SeenInParent(s, b)
    IN [class |-> class, root |-> root, nodes |-> ns, direct |-> direct,
        parent |-> p, cte |-> e, recursive |-> r, tables |-> t, outer |-> outer]

\* Queries of some blocks, in one of which a table is named.
Queries(n, names, refs) ==
    UNION {{Statement("read", "select", <<>>, <<>>, p, e, [b \in 1..n |-> r],
                      [b \in 1..n |-> IF b = at0 THEN <<t>> ELSE <<>>]) :
              e \in Ctes(p, names), r \in BOOLEAN, at0 \in 1..n, t \in refs} : p \in Parents(n)}

FromRefs == {Ref(s, n, "from") : s \in {"None", "in", "out"}, n \in {"a", "A", "b", "dual"}}
FewRefs == {Ref("None", "a", "from"), Ref("out", "a", "from"), Ref("None", "b", "from")}

\* One block, with tables that are read, written or referred to.
Plain(class, root, ns, direct, t) ==
    Statement(class, root, ns, direct, <<0>>, <<"None">>, <<FALSE>>, <<t>>)

NamedRefs == {Ref(s, n, "named") : s \in {"None", "in", "out"}, n \in {"a", "dual"}}
Commands ==
    {Plain("ddl", "other", <<>>, <<d>>, <<t>>) :
        d \in NamedRefs \cup {Ref("None", "a", "database"), Ref("in", "a", "database"), Ref("out", "a", "database")},
        t \in NamedRefs}
    \cup {Plain("write", "other", <<>>, <<>>, <<Ref("in", "a", "from"), t>>) : t \in FromRefs}
    \cup {Plain(c, r, <<>>, <<>>, <<>>) :
            c \in {"read", "write", "ddl", "other"},
            r \in {"union", "other", "partial", "stored_program", "temporary"}}

NodeOf(kind, name, marks) == [kind |-> kind, name |-> name, marks |-> marks]
Nodes ==
    {NodeOf("select", "select", m) : m \in SUBSET {"into", "lock"}}
    \cup {NodeOf("option", "option", m) : m \in {{}, {"unsafe"}}}
    \cup {NodeOf("builtin", n, {}) : n \in DOMAIN NodeSince}
    \cup {NodeOf("builtin", n, {"over"}) : n \in WindowFunctions}
    \cup {NodeOf("builtin", "aggregate", {"apart"})}
    \cup {NodeOf("call", n, m) : n \in {"sleep", "abs", "json_depth", "current_role", "stored"}, m \in {{}, {"qualified"}}}
    \cup {NodeOf("call", "mid", m) : m \in {{}, {"apart"}}}
    \cup {NodeOf(k, k, {}) : k \in {"assignment", "locking_function", "gtid_wait", "nextval", "other"}}
WithNodes ==
    {Plain(c, r, <<NodeOf("other", "other", {}), n>>, <<>>, <<>>) :
        c \in {"read", "write"}, r \in {"select", "other"}, n \in Nodes}

MCStatements ==
    Queries(1, {}, FromRefs) \cup Queries(2, {"a", "A", "b"}, FromRefs)
    \cup Queries(3, {"a", "A", "b"}, FromRefs) \cup Queries(4, {"a", "b"}, FewRefs)
    \cup Commands \cup WithNodes
=============================================================================
