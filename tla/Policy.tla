------------------------------- MODULE Policy -------------------------------
(***************************************************************************)
(* How a statement is authorized before it reaches MySQL                   *)
(* (internal/policy and internal/mcpserver/query_tools.go): its text is    *)
(* scanned, parsed by Vitess, every node of the tree is checked against    *)
(* the version of the server, and every table against the allowed schemas, *)
(* block by block, with the names of common table expressions in scope.    *)
(*                                                                         *)
(* The parser is external: from a text without a finding it makes any      *)
(* statement whose calls are spelled like those of the text, or fails. The *)
(* text is forgotten then, and only now does a source have to be chosen.   *)
(* What a source allows is a set here; SchemaFilter decides membership.    *)
(*                                                                         *)
(* A statement is the nodes that matter, in the order of the walk, and its *)
(* query blocks in the order in which validateSchemaScope is called for    *)
(* them: a block before the blocks in it, and the bodies of its WITH       *)
(* before the others. outer holds the names of common table expressions    *)
(* that MySQL, by its own rules, lets a block see from outside.            *)
(***************************************************************************)
EXTENDS Scanner

CONSTANTS
    Texts, MaxSQLBytes,
    Schemas, Names, None,
    Lower,         \* strings.ToLower of a name
    Dual,          \* the name of the virtual table, in lower case
    Sources,       \* the sources, with their tool, features and server
    Statements

(* Functions and nodes by the version from which MySQL has them              *)
(* (internal/policy/functions.go); of each group of names, one.              *)

DangerousFunctions == {"sleep", "get_lock"}
CommonFunctions == {"abs", "mid", "system_user"}
VersionedFunctions == [json_depth |-> 50708, current_role |-> 80000]

NodeSince ==
    [any_value |-> 50705, json_core |-> 50708, json_57 |-> 50722, json_arrayagg |-> 50722,
     json_storage_free |-> 80002, json_table |-> 80004, regexp |-> 80004,
     performance_schema |-> 80016, json_advanced |-> 80017, json_value |-> 80021, aggregate |-> 0]

\* What may have an OVER clause: WindowFunc of the parser.
WindowFunctions == {"aggregate", "json_arrayagg"}
WindowSince(name) == IF name = "json_arrayagg" THEN 80014 ELSE 80002

-----------------------------------------------------------------------------
(* Statements.                                                               *)

Node == [kind : STRING, name : STRING, marks : SUBSET STRING]
TableRef == [schema : Schemas \cup {None}, name : Names, kind : {"from", "named", "database"}]

Blocks(s) == 1..Len(s.parent)

\* The bodies of the WITH clause of block b.
Bodies(s, b) == {c \in Blocks(s) : s.parent[c] = b /\ s.cte[c] # None}

\* What MySQL lets block b see of the names of its parent's WITH: the names
\* before its own if it is a body, and its own if that is RECURSIVE.
SeenInParent(s, b) ==
    {s.cte[c] : c \in {d \in Bodies(s, s.parent[b]) :
                          \/ s.cte[b] = None
                          \/ d < b
                          \/ d = b /\ s.recursive[s.parent[b]]}}

-----------------------------------------------------------------------------
ASSUME TextsAssumption == \A t \in Texts : t \in Seq(STRING \ {"end"})
ASSUME NamesAssumption == None \notin Schemas \cup Names /\ Lower \in [Names -> Names] /\ Dual \in Names
ASSUME StatementsAssumption ==
    \A s \in Statements :
       /\ s.parent \in Seq(Nat) /\ s.parent # <<>> /\ s.parent[1] = 0
       /\ \A b \in 2..Len(s.parent) : s.parent[b] \in 1..(b - 1)
       /\ s.cte \in [Blocks(s) -> Names \cup {None}] /\ s.cte[1] = None
       /\ s.recursive \in [Blocks(s) -> BOOLEAN]
       /\ s.tables \in [Blocks(s) -> Seq(TableRef)]
       /\ s.nodes \in Seq(Node)
       /\ \A i \in DOMAIN s.nodes :
             LET n == s.nodes[i]
             IN /\ n.kind = "builtin" => n.name \in DOMAIN NodeSince
                /\ "over" \in n.marks => n.kind = "builtin" /\ n.name \in WindowFunctions
                /\ "qualified" \in n.marks => n.kind = "call"
       /\ s.direct \in Seq({t \in TableRef : t.kind # "from"})
       /\ s.outer \in [Blocks(s) -> SUBSET Names]
       /\ s.outer[1] = {}
       /\ \A b \in 2..Len(s.parent) : s.outer[b] = s.outer[s.parent[b]] \cup SeenInParent(s, b)
\* The configuration is rejected if it does not allow the default database.
ASSUME SourcesAssumption ==
    \A r \in Sources :
       /\ r.version \in Nat
       /\ r.default \in r.allowed \cup {None}
       /\ ~r.restricted => Schemas \cup {None} \subseteq r.allowed

VARIABLES
    source,        \* whose tool is called
    pc,
    apart,         \* the text has, as the server reads it, a call that is no built-in for it
    stmt,
    nodes,         \* how many nodes have been checked
    visible,       \* visibleCTEs of every block that has been entered
    tables,        \* how many tables of the last one have been checked
    code           \* why the statement is rejected

policyVars == <<source, apart, stmt, nodes, visible, tables>>
vars == <<scanVars, source, pc, apart, stmt, nodes, visible, tables, code>>

None0 == [none |-> TRUE]   \* no source and no statement yet

-----------------------------------------------------------------------------
(* Faults, as in Scanner.                                                    *)

\* An OVER clause is not looked at.
MinimumOfName(n) == IF n.kind = "builtin" THEN NodeSince[n.name] ELSE 0

\* The name of a common table expression hides a qualified table, too.
PassesByName(t, names) ==
    \/ t.kind = "from" /\ (Lower[t.name] = Dual \/ Lower[t.name] \in names)
    \/ (IF t.schema = None /\ t.kind # "database" THEN source.default ELSE t.schema) \in source.allowed

\* The names of a WITH are in scope after its bodies only.
VisibleAfterBodies(b) ==
    {Lower[stmt.cte[c]] : c \in Bodies(stmt, b)} \cup
    LET p == stmt.parent[b]
        q == IF stmt.cte[b] = None THEN p ELSE stmt.parent[p]
    IN IF q = 0 THEN {} ELSE visible[q]

-----------------------------------------------------------------------------
Init ==
    /\ ScanInit
    /\ source = None0 /\ stmt = None0
    /\ pc = "start" /\ apart = FALSE
    /\ nodes = 0 /\ visible = <<>> /\ tables = 0
    /\ code = "none"

\* A step of pc alone.
Move(from, to) ==
    /\ pc = from
    /\ pc' = to
    /\ UNCHANGED <<scanVars, policyVars, code>>

Reject(c) ==
    /\ pc' = "rejected" /\ code' = c
    /\ UNCHANGED <<scanVars, policyVars>>

\* validateSQLInput; the arguments are data.
Acceptable(t) == (\E i \in DOMAIN t : t[i] \notin Spaces) /\ Len(t) <= MaxSQLBytes

Receive(t) ==
    /\ pc = "start" /\ Acceptable(t)
    /\ StartScan(t)
    /\ pc' = "scan"
    /\ UNCHANGED <<policyVars, code>>

BadInput == pc = "start" /\ Reject("input")

Scanning ==
    /\ pc = "scan"
    /\ ScanStep
    /\ UNCHANGED <<pc, policyVars, code>>

ScanFinds ==
    /\ pc = "scan" /\ scan = "found"
    /\ Reject(IF found = "comment" THEN "unsafe_comment" ELSE "unapproved_function")

ScanClean ==
    /\ pc = "scan" /\ scan = "clean"
    /\ apart' \in {HasAmbiguousCall(text, esc) : esc \in BOOLEAN}
    /\ text' = <<>> /\ scan' = "over"
    /\ pc' = "source"
    /\ UNCHANGED <<escapes, at, state, found, source, stmt, nodes, visible, tables, code>>

OfSource(r) ==
    /\ pc = "source"
    /\ source' = r
    /\ pc' = "parse"
    /\ UNCHANGED <<scanVars, apart, stmt, nodes, visible, tables, code>>

-----------------------------------------------------------------------------
(* Parsing, and the kinds of statements a tool takes.                        *)

\* The splitter or the parser fails or panics, or there are several statements.
ParseFails == pc = "parse" /\ \E c \in {"invalid_sql", "multiple_statements"} : Reject(c)

Parse(s) ==
    /\ pc = "parse"
    /\ apart <=> \E i \in DOMAIN s.nodes : "apart" \in s.nodes[i].marks
    /\ stmt' = s
    /\ pc' = "kind"
    /\ UNCHANGED <<scanVars, source, apart, nodes, visible, tables, code>>

\* validateFullyParsedDDL, isSelectRoot, and the head of validateCommandAST
KindCode ==
    CASE stmt.root = "partial" -> "invalid_sql"
      [] stmt.root # "partial" /\ source.tool = "query" ->
           IF stmt.root \in {"select", "union"} THEN "none" ELSE "not_read_query"
      [] OTHER ->
           IF stmt.class \notin {"write", "ddl"} THEN "not_command"
           ELSE IF stmt.root = "stored_program" THEN "stored_program_ddl"
           ELSE IF stmt.root = "temporary" THEN "temporary_object"
           ELSE "none"

KindFits == pc = "kind" /\ KindCode = "none" /\ Move("kind", "nodes")
KindWrong == pc = "kind" /\ KindCode # "none" /\ Reject(KindCode)

-----------------------------------------------------------------------------
(* The walk over the nodes: validateReadAST and validateCommandAST.          *)

\* minimumVersionForBuiltinNode
MinimumVersion(n) ==
    IF n.kind # "builtin" THEN 0
    ELSE IF "over" \in n.marks THEN WindowSince(n.name)
    ELSE NodeSince[n.name]

\* isSafeBuiltinFunction
Safe(name) ==
    \/ name \in CommonFunctions
    \/ name \in DOMAIN VersionedFunctions /\ source.version >= VersionedFunctions[name]

CallCode(n) ==
    IF "qualified" \in n.marks THEN "qualified_function"
    ELSE IF n.name \in DangerousFunctions THEN "dangerous_function"
    ELSE IF ~Safe(n.name) THEN "unapproved_function"
    ELSE "none"

NodeCode(n) ==
    CASE n.kind = "select" ->
           IF "into" \in n.marks THEN "select_into"
           ELSE IF "lock" \in n.marks THEN "locking_read" ELSE "none"
      [] n.kind = "option" ->
           IF source.tool = "execute" /\ "unsafe" \in n.marks THEN "unsafe_table_option" ELSE "none"
      [] n.kind = "builtin" ->
           IF source.version < MinimumVersion(n) THEN "unapproved_function" ELSE "none"
      [] n.kind = "call" -> CallCode(n)
      [] n.kind = "assignment" -> "user_variable_assignment"
      [] n.kind \in {"locking_function", "gtid_wait"} -> "dangerous_function"
      [] n.kind = "nextval" -> "sequence_operation"
      [] OTHER -> "none"

NodeFits ==
    /\ pc = "nodes" /\ nodes < Len(stmt.nodes)
    /\ NodeCode(stmt.nodes[nodes + 1]) = "none"
    /\ nodes' = nodes + 1
    /\ UNCHANGED <<scanVars, source, pc, apart, stmt, visible, tables, code>>

NodeWrong ==
    /\ pc = "nodes" /\ nodes < Len(stmt.nodes)
    /\ NodeCode(stmt.nodes[nodes + 1]) # "none"
    /\ Reject(NodeCode(stmt.nodes[nodes + 1]))

NodesEnd == pc = "nodes" /\ nodes = Len(stmt.nodes) /\ Move("nodes", "features")

\* The handler of mysql.execute looks at the features before the schemas.
Enabled == source.tool = "execute" => stmt.class \in source.features

Feature == pc = "features" /\ Enabled /\ Move("features", "schemas")
Disabled == pc = "features" /\ ~Enabled /\ Reject("disabled")

-----------------------------------------------------------------------------
(* The tables: ValidateAllowedSchemas.                                       *)

Unrestricted == pc = "schemas" /\ ~source.restricted /\ Move("schemas", "accepted")
Restricted == pc = "schemas" /\ source.restricted /\ Move("schemas", "tables")

Block == Len(visible)

\* What validateDirectCommandSchemas checks, and then what each block names.
TablesHere == IF Block = 0 THEN stmt.direct ELSE stmt.tables[Block]
NamesHere == IF Block = 0 THEN {} ELSE visible[Block]

\* validatePhysicalTable and validateSchemaName
Passes(t, names) ==
    \/ t.kind = "from" /\ t.schema = None /\ (Lower[t.name] = Dual \/ Lower[t.name] \in names)
    \/ (IF t.schema = None /\ t.kind # "database" THEN source.default ELSE t.schema) \in source.allowed

TablePasses ==
    /\ pc = "tables" /\ tables < Len(TablesHere)
    /\ Passes(TablesHere[tables + 1], NamesHere)
    /\ tables' = tables + 1
    /\ UNCHANGED <<scanVars, source, pc, apart, stmt, nodes, visible, code>>

TableFails ==
    /\ pc = "tables" /\ tables < Len(TablesHere)
    /\ ~Passes(TablesHere[tables + 1], NamesHere)
    /\ Reject("schema_not_allowed")

\* cloneNames of what is inherited, and every name of the WITH clause.
VisibleIn(b) ==
    {Lower[stmt.cte[c]] : c \in Bodies(stmt, b)} \cup
    IF stmt.parent[b] = 0 THEN {} ELSE visible[stmt.parent[b]]

EnterBlock ==
    /\ pc = "tables" /\ tables = Len(TablesHere)
    /\ Block < Len(stmt.parent)
    /\ visible' = Append(visible, VisibleIn(Block + 1))
    /\ tables' = 0
    /\ UNCHANGED <<scanVars, source, pc, apart, stmt, nodes, code>>

TablesEnd ==
    /\ pc = "tables" /\ tables = Len(TablesHere) /\ Block = Len(stmt.parent)
    /\ Move("tables", "accepted")

Next ==
    \/ pc = "start" /\ \E t \in Texts : Receive(t)
    \/ BadInput \/ Scanning \/ ScanFinds \/ ScanClean
    \/ \E r \in Sources : OfSource(r)
    \/ ParseFails
    \/ pc = "parse" /\ \E s \in Statements : Parse(s)
    \/ KindFits \/ KindWrong \/ NodeFits \/ NodeWrong \/ NodesEnd \/ Feature \/ Disabled
    \/ Unrestricted \/ Restricted \/ TablePasses \/ TableFails \/ EnterBlock \/ TablesEnd

Spec == Init /\ [][Next]_vars

-----------------------------------------------------------------------------
(* What MySQL makes of an accepted statement.                                *)

\* Whether n denotes the name m of a common table expression: lower_case_table_names.
SameName(n, m) == n = m \/ (source.folds /\ Lower[n] = Lower[m])

\* Table t of block b of statement s is none of the names that are in scope.
IsPhysical(b, t) ==
    \/ t.kind # "from" \/ t.schema # None
    \/ /\ Lower[t.name] # Dual
       /\ \A m \in stmt.outer[b] \cup {stmt.cte[c] : c \in Bodies(stmt, b)} : ~SameName(t.name, m)

\* A table is outside of what the source allows, or its schema is unknown.
IsOutside(t) ==
    IF t.schema # None THEN t.schema \notin source.allowed
    ELSE t.kind = "database" \/ source.default = None

\* A table without a schema is in the default database, or MySQL finds none.
IsInside(t) ==
    IF t.schema # None THEN t.schema \in source.allowed
    ELSE source.default \in source.allowed \cup {None}

\* Every table that MySQL reads or writes for an accepted statement is in an
\* allowed schema, however common table expressions hide or shadow its name.
ReachesOnlyAllowed ==
    pc = "accepted" =>
       /\ \A i \in DOMAIN stmt.direct : IsInside(stmt.direct[i])
       /\ \A b \in Blocks(stmt) : \A i \in DOMAIN stmt.tables[b] :
             IsPhysical(b, stmt.tables[b][i]) => IsInside(stmt.tables[b][i])

\* A statement is rejected for its schemas only if MySQL would go outside of
\* them: no reference to a common table expression is taken for a table.
RejectedForCause ==
    code = "schema_not_allowed" =>
       \/ \E i \in DOMAIN stmt.direct : IsOutside(stmt.direct[i])
       \/ \E b \in Blocks(stmt) : \E i \in DOMAIN stmt.tables[b] :
             IsPhysical(b, stmt.tables[b][i]) /\ IsOutside(stmt.tables[b][i])

\* MySQL takes a name for its own function if its version has it, with OVER if
\* it says so, if it is not qualified, and not apart from its parenthesis.
IsServerBuiltin(n) ==
    /\ {"qualified", "apart"} \cap n.marks = {}
    /\ n.kind = "builtin" => /\ source.version >= NodeSince[n.name]
                             /\ "over" \in n.marks => source.version >= WindowSince(n.name)
    /\ n.kind = "call" => Safe(n.name)

\* No function of an accepted statement is a stored one for this server: not
\* by its version, by the spelling that the parser drops, or by a window.
OnlyServerBuiltins ==
    pc = "accepted" => \A i \in DOMAIN stmt.nodes : IsServerBuiltin(stmt.nodes[i])
=============================================================================
