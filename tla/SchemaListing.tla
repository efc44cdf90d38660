---------------------------- MODULE SchemaListing ----------------------------
(***************************************************************************)
(* One call of a metadata tool (internal/mcpserver/metadata_tools.go and   *)
(* internal/database/metadata.go): the schema it names is authorized, or   *)
(* the schemas MySQL lists are filtered; the rows are read up to a bound   *)
(* that is one more than a client gets, and cut to max_rows.               *)
(*                                                                         *)
(* Whether a schema is allowed is decided by Source.SchemaAllowed with the *)
(* loop of SchemaFilter, whose variables and steps are part of this        *)
(* module, and for the list of schemas by MySQL with LIKE before the bound *)
(* is applied. What the other lists hold is chosen when they are read:     *)
(* others may change the tables at any time.                               *)
(***************************************************************************)
EXTENDS SchemaFilter

CONSTANTS
    Filters,    \* the allow-lists of a source: exact names, and patterns in order
    Catalogs,   \* the schemas of a server, in the order of their names
    Rows,       \* the rows of the other lists
    Answers,    \* what those lists may hold
    Requested,  \* the schemas a client may name
    MaxRows,    \* the values of max_rows
    MaxInt      \* the largest int

\* Loading the configuration validates both lists.
ASSUME FiltersAssumption ==
    \A f \in Filters : /\ f.exact \subseteq {n \in Seq(Chars) : Validate(n)}
                       /\ f.patterns \in Seq({p \in Seq(Chars) : Validate(p)})
\* No list of a server is longer than an int counts: a bound of MaxInt cuts nothing.
ASSUME ListsAssumption ==
    /\ Catalogs \subseteq Seq(Seq(Chars)) /\ Answers \subseteq Seq(Rows)
    /\ \A list \in Catalogs \cup Answers : Len(list) <= MaxInt
ASSUME RequestedAssumption == Requested \subseteq Seq(Chars)
ASSUME MaxRowsAssumption == MaxInt \in Nat /\ MaxRows \subseteq 1..MaxInt

VARIABLES
    filter, maxRows,           \* the source
    pc,                        \* where the call is
    op, schema,                \* the tool, and the schema it is called for
    subject,                   \* the schema SchemaAllowed is asked about
    tried,                     \* how many patterns Allows has tried on it
    answer,                    \* what MySQL has to look through for the query
    fetched,                   \* how much of it has been read
    listed,                    \* the list of the service
    filtered,                  \* the list of the handler
    truncated

sourceVars == <<filter, maxRows>>
callVars == <<op, schema>>
allowsVars == <<subject, tried>>
rowVars == <<answer, fetched>>
listVars == <<listed, filtered, truncated>>
vars == <<filterVars, sourceVars, pc, callVars, allowsVars, rowVars, listVars>>

Ops == {"schemas", "tables", "describe_table", "indexes", "constraints"}
PCs == {"start", "allows", "matching", "identify", "table", "query", "rows", "err", "filter",
        "trim", "done", "refused", "failed"}

Restricted == filter.exact # {} \/ filter.patterns # <<>>

\* The look-ahead row by which the handler knows that there is more.
ServiceRows == IF maxRows < MaxInt THEN maxRows + 1 ELSE maxRows

-----------------------------------------------------------------------------
Init ==
    /\ FilterInit
    /\ filter \in Filters /\ maxRows \in MaxRows
    /\ pc = "start"
    /\ op = "schemas" /\ schema = <<>>
    /\ subject = <<>> /\ tried = 0
    /\ answer = <<>> /\ fetched = 0
    /\ listed = <<>> /\ filtered = <<>> /\ truncated = FALSE

AskSchemas ==
    /\ pc = "start"
    /\ pc' = "query"
    /\ UNCHANGED <<filterVars, sourceVars, callVars, allowsVars, rowVars, listVars>>

\* requireAllowedSchema
AskInSchema(o, s) ==
    /\ pc = "start"
    /\ op' = o /\ schema' = s
    /\ subject' = s /\ tried' = 0
    /\ pc' = IF s = <<>> THEN "refused" ELSE "allows"
    /\ UNCHANGED <<filterVars, sourceVars, rowVars, listVars>>

-----------------------------------------------------------------------------
(* Source.SchemaAllowed: Allows of internal/schemafilter.                    *)

\* What its callers do with the answer.
Verdict(allowed) ==
    IF op = "schemas"
    THEN /\ filtered' = IF allowed THEN Append(filtered, subject) ELSE filtered
         /\ pc' = "filter"
    ELSE /\ pc' = IF allowed THEN "identify" ELSE "refused"
         /\ UNCHANGED filtered

AllowsAtOnce ==
    /\ pc = "allows"
    /\ ~Restricted \/ (tried = 0 /\ subject \in filter.exact)
    /\ Verdict(TRUE)
    /\ UNCHANGED <<filterVars, sourceVars, callVars, allowsVars, rowVars, listed, truncated>>

TryPattern ==
    /\ pc = "allows"
    /\ subject \notin filter.exact
    /\ tried < Len(filter.patterns)
    /\ StartMatch(filter.patterns[tried + 1], subject)
    /\ tried' = tried + 1
    /\ pc' = "matching"
    /\ UNCHANGED <<sourceVars, callVars, subject, rowVars, listVars>>

Matching ==
    /\ pc = "matching"
    /\ MatchStep
    /\ UNCHANGED <<pc, sourceVars, callVars, allowsVars, rowVars, listVars>>

Matched ==
    /\ pc = "matching"
    /\ phase = "done"
    /\ IF result THEN Verdict(TRUE) ELSE pc' = "allows" /\ UNCHANGED filtered
    /\ UNCHANGED <<filterVars, sourceVars, callVars, allowsVars, rowVars, listed, truncated>>

Disallowed ==
    /\ pc = "allows"
    /\ Restricted /\ subject \notin filter.exact
    /\ tried = Len(filter.patterns)
    /\ Verdict(FALSE)
    /\ UNCHANGED <<filterVars, sourceVars, callVars, allowsVars, rowVars, listed, truncated>>

-----------------------------------------------------------------------------
(* The queries and their rows.                                               *)

Move(from, to) ==
    /\ pc = from
    /\ pc' = to
    /\ UNCHANGED <<filterVars, sourceVars, callVars, allowsVars, rowVars, listVars>>

\* validateIdentifier of the schema, which a pattern may have let pass, and of the table.
Identify ==
    /\ Len(schema) <= MaxSchemaRunes
    /\ Move("identify", IF op = "describe_table" THEN "table" ELSE "query")
IdentifyFails ==
    /\ Len(schema) <= MaxSchemaRunes => op # "tables"
    /\ Move("identify", "failed")

\* DescribeTable reads the table before its columns.
TableFound == Move("table", "query")
TableFails == Move("table", "failed")

\* listSchemas of ListSchemasAllowed: the WHERE clause of the allow-list.
Where(n) ==
    \/ ~Restricted
    \/ n \in filter.exact
    \/ \E i \in DOMAIN filter.patterns : Like(ToSQLLike(filter.patterns[i]), n)

Query ==
    /\ pc = "query"
    /\ answer' \in IF op = "schemas" THEN Catalogs ELSE Answers
    /\ pc' = "rows"
    /\ UNCHANGED <<filterVars, sourceVars, callVars, allowsVars, fetched, listVars>>

\* MySQL skips what the WHERE clause does not select.
NextRow ==
    /\ pc = "rows"
    /\ fetched < Len(answer)
    /\ fetched' = fetched + 1
    /\ IF op = "schemas" /\ ~Where(answer[fetched']) THEN UNCHANGED <<pc, listed>>
       ELSE IF Len(listed) >= ServiceRows THEN pc' = "err" /\ UNCHANGED listed
       ELSE listed' = Append(listed, answer[fetched']) /\ UNCHANGED pc
    /\ UNCHANGED <<filterVars, sourceVars, callVars, allowsVars, answer, filtered, truncated>>

RowsEnd == fetched = Len(answer) /\ Move("rows", "err")

\* QueryContext, Scan and rows.Err: MySQL, the driver or the context.
Broken == \E from \in {"query", "rows", "err"} : Move(from, "failed")

\* The list is taken over by the handler.
Returned ==
    /\ pc = "err"
    /\ IF op = "schemas" THEN pc' = "filter" /\ UNCHANGED filtered
       ELSE pc' = "trim" /\ filtered' = listed
    /\ tried' = 0
    /\ fetched' = 0
    /\ UNCHANGED <<filterVars, sourceVars, callVars, subject, answer, listed, truncated>>

\* The loop of mysql.metadata.schemas; fetched counts the schemas it has seen.
NextSchema ==
    /\ pc = "filter"
    /\ fetched < Len(listed)
    /\ fetched' = fetched + 1
    /\ subject' = listed[fetched']
    /\ tried' = 0
    /\ pc' = "allows"
    /\ UNCHANGED <<filterVars, sourceVars, callVars, answer, listVars>>

SchemasEnd == fetched = Len(listed) /\ Move("filter", "trim")

\* trimMetadataRows
Trim ==
    /\ pc = "trim"
    /\ truncated' = (Len(filtered) > maxRows)
    /\ filtered' = IF Len(filtered) > maxRows THEN SubSeq(filtered, 1, maxRows) ELSE filtered
    /\ pc' = "done"
    /\ UNCHANGED <<filterVars, sourceVars, callVars, allowsVars, rowVars, listed>>

Next ==
    \/ AskSchemas
    \/ \E o \in Ops \ {"schemas"}, s \in Requested : AskInSchema(o, s)
    \/ AllowsAtOnce \/ TryPattern \/ Matching \/ Matched \/ Disallowed
    \/ Identify \/ IdentifyFails \/ TableFound \/ TableFails
    \/ Query \/ NextRow \/ RowsEnd \/ Broken \/ Returned
    \/ NextSchema \/ SchemasEnd \/ Trim

Spec == Init /\ [][Next]_vars

-----------------------------------------------------------------------------
\* What a list is made of.
Row == IF op = "schemas" THEN Seq(Chars) ELSE Rows

TypeOK ==
    /\ FilterTypeOK
    /\ filter \in Filters /\ maxRows \in MaxRows
    /\ pc \in PCs
    /\ op \in Ops /\ schema \in Seq(Chars)
    /\ subject \in Seq(Chars) /\ tried \in 0..Len(filter.patterns)
    /\ answer \in Seq(Row)
    /\ listed \in Seq(Row)
    /\ filtered \in Seq(Row)
    /\ fetched \in Nat
    /\ truncated \in BOOLEAN

\* Whether the allow-list admits a schema, by the meaning of its patterns.
Allowed(n) ==
    \/ ~Restricted
    \/ n \in filter.exact
    \/ \E i \in DOMAIN filter.patterns : Matches(filter.patterns[i], n)

\* Admitted(s)[i] is what it admits of the first i of the schemas s, in their order.
Admitted(s) ==
    LET kept[i \in 0..Len(s)] ==
          IF i = 0 THEN <<>>
          ELSE IF Allowed(s[i]) THEN Append(kept[i - 1], s[i]) ELSE kept[i - 1]
    IN kept

\* All that a call could list, and the first k of it.
Whole == IF op = "schemas" THEN Admitted(answer)[Len(answer)] ELSE answer
Leading(k) == SubSeq(Whole, 1, Min({k, Len(Whole)}))

\* A listing holds the first max_rows of what the allow-list admits, none of
\* anything else, and is marked as truncated exactly if there is more, although
\* MySQL filters by LIKE, the server by Match, and a bound lies between the two.
\* The other tools answer exactly for the schemas it admits.
ListingExact ==
    /\ pc = "done" => filtered = Leading(maxRows) /\ (truncated <=> Len(Whole) > maxRows)
    /\ op # "schemas" /\ pc \in {"query", "rows", "err", "trim", "done"} => Allowed(schema)
    /\ pc = "refused" => schema = <<>> \/ ~Allowed(schema)
=============================================================================
