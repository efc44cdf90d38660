------------------------------- MODULE Access -------------------------------
(***************************************************************************)
(* From config.yaml to the tools: which configurations are accepted, which *)
(* secrets are then resolved, which MySQL accounts are used for which      *)
(* pools and services, and which tools a client finds.                     *)
(*                                                                         *)
(* LoadForServe (internal/config) decodes, completes and validates the     *)
(* file, reduces it to the data source of a stdio session and resolves the *)
(* secrets. OpenRegistry (internal/datasource) validates it again and      *)
(* opens one source after the other; NewServer (internal/mcpserver)        *)
(* registers the tools of each. MySQL may refuse a pool at any time, and   *)
(* the version it reports is found out in between.                         *)
(***************************************************************************)
EXTENDS Integers, Sequences, FiniteSets

CONSTANTS
    Files,       \* the configurations a file may hold, decoded over Defaults
    Requested,   \* the names --datasource may give
    Names,       \* the names of data sources
    Schemas,     \* the schemas of MySQL
    Routines,    \* the names of stored functions, case folded
    MaxInt,      \* the largest int
    None

Roles == {"read", "write", "monitor"}
Features == {"dml", "ddl", "admin", "function_write"}
Monitors == {"enabled", "sessions", "locks", "top_queries", "replication", "innodb_status"}

\* A credential names an account and the places its password is taken from: a
\* literal, a reference ${ENV_NAME}, password_env and password_file. The first
\* two are values of one field.
Sources == {"literal", "reference", "password_env", "password_file"}
Credential == [username : BOOLEAN,
               sources : {s \in SUBSET Sources : ~({"literal", "reference"} \subseteq s)}]
FunctionAllow == [schema : Schemas, routine : Routines, effect : {"", "read", "write"}]
\* The schemas that the names and patterns of the allow-list match.
Datasource ==
    [name : Names, readOnly : BOOLEAN, credentials : [Roles -> Credential],
     restricted : BOOLEAN, allowed : SUBSET Schemas, default : Schemas \cup {None},
     maxOpen : Int, maxIdle : Int,
     monitoring : SUBSET Monitors, monitorTimeout : Int, functions : Seq(FunctionAllow)]
Auth == [mode : {"none", "token"}, sources : SUBSET {"token_env", "token_file"}]
Config ==
    [transport : {"stdio", "http"}, readOnly : BOOLEAN, features : SUBSET Features, auth : Auth,
     queryTimeout : Int, defaultRows : Int, maxRows : Int, maxConcurrency : Int,
     datasources : Seq(Datasource)]

\* What VERSION() and performance_schema of a server may say. A version may lack
\* its third part.
Versions == [family : {"5.7", "8", "other"}, patch : BOOLEAN]

ASSUME FilesAssumption == Files \subseteq Config
ASSUME RequestedAssumption == Requested \subseteq Names \cup {None}
ASSUME NoneAssumption == None \notin Names \cup Schemas \cup Roles
ASSUME MaxIntAssumption == MaxInt \in Nat \ {0}

\* The pools and services of a source. Each stands for the account it works
\* with; monitorDB may be the pool readDB.
Handles == {"readDB", "writeDB", "monitorDB", "Query", "Metadata", "Command", "Admin",
            "FunctionsReader", "FunctionsWriter", "Monitor"}
NoSource == [h \in Handles |-> None]

VARIABLES
    requested,  \* --datasource
    pc,
    cfg,        \* the configuration
    resolved,   \* the secrets whose values are known; the token is <<None, None>>
    at,         \* the source whose secrets are being resolved
    registry,   \* the sources that are open
    source,     \* the one that is being opened
    version,    \* its version, and whether performance_schema is on
    performanceSchema,
    endpoints,  \* the tools of every source
    cause       \* why startup failed

openVars == <<registry, source, version, performanceSchema>>
vars == <<requested, pc, cfg, resolved, at, openVars, endpoints, cause>>

\* The stages of openSource.
Stages == {"readers", "version", "executors", "writers", "commands", "functions", "monitoring",
           "capability", "take"}

TokenSecret == <<None, None>>
SecretOf(d, role) == <<d.name, role>>
Secrets == (Names \X Roles) \cup {TokenSecret}

PCs == {"load", "select", "token", "read", "write", "monitor", "revalidate", "readers", "version",
        "executors", "writers", "commands", "functions", "monitoring", "capability", "take",
        "register", "serving", "failed"}

-----------------------------------------------------------------------------
(* What a configuration says.                                                *)

Configured(c) == c.username \/ c.sources # {}
ReadOnly(c, d) == c.readOnly \/ d.readOnly

-----------------------------------------------------------------------------
(* Faults: definitions as a plausible mistake would have them. No            *)
(* specification uses them; each breaks a property stated below when it      *)
(* replaces the definition it is named after.                                *)

\* Writing is taken to need a credential for DML and DDL only.
ValidWriterNarrow(c, d) ==
    {"dml", "ddl"} \cap c.features # {} /\ ~ReadOnly(c, d) => Configured(d.credentials["write"])

\* The sources are not reduced to the one that is served.
ServedAll(c) == c.datasources

\* The look-ahead row may overflow.
MetadataRowsWrapped(c) == IF c.maxRows + 1 > MaxInt THEN -MaxInt - 1 ELSE c.maxRows + 1

\* The features alone decide.
WritableByFeature(c, d) == c.features # {}

\* A tool for statements wherever there is a pool that writes.
CommandsOfPool(c) == c.features # {}

\* The sources are counted before the new one is among them.
TakeMiscounted ==
    /\ pc = "take"
    /\ registry' = Append(registry, [handles |-> source, version |-> version,
                                     performanceSchema |-> performanceSchema])
    /\ source' = NoSource
    /\ pc' = IF Len(registry) = Len(cfg.datasources) THEN "register" ELSE "readers"
    /\ UNCHANGED <<requested, cfg, resolved, at, version, performanceSchema, endpoints, cause>>

-----------------------------------------------------------------------------
(* The rules of Validate.                                                    *)

ValidCredential(c, required) ==
    required \/ Configured(c) => c.username /\ Cardinality(c.sources) = 1

Allows(d, schema) == ~d.restricted \/ schema \in d.allowed

ValidAuth(auth, token) ==
    IF auth.mode = "none" THEN auth.sources = {} /\ ~token ELSE Cardinality(auth.sources) = 1

ValidLimits(c) ==
    /\ c.queryTimeout > 0
    /\ c.defaultRows > 0 /\ c.maxRows > 0 /\ c.defaultRows <= c.maxRows
    /\ c.maxConcurrency > 0

\* A credential that a write feature will need on a source that is not read-only.
ValidWriter(c, d) ==
    c.features # {} /\ ~ReadOnly(c, d) => Configured(d.credentials["write"])

ValidMonitoring(d) ==
    /\ d.monitorTimeout > 0
    /\ d.monitoring # {} => "enabled" \in d.monitoring

ValidFunctions(c, d) ==
    /\ \A n \in DOMAIN d.functions :
          /\ d.functions[n].effect # ""
          /\ d.functions[n].effect = "write" =>
                "function_write" \in c.features /\ ~ReadOnly(c, d)
    /\ \A m, n \in DOMAIN d.functions :
          m # n => <<d.functions[m].schema, d.functions[m].routine>>
                     # <<d.functions[n].schema, d.functions[n].routine>>

\* What a source may name lies inside its allow-list.
ValidSchemas(d) ==
    /\ d.default # None => Allows(d, d.default)
    /\ \A n \in DOMAIN d.functions : Allows(d, d.functions[n].schema)

ValidDatasource(c, d) ==
    /\ ValidSchemas(d)
    /\ \A role \in Roles : ValidCredential(d.credentials[role], role = "read")
    /\ ValidWriter(c, d)
    /\ d.maxOpen > 0 /\ d.maxIdle >= 0 /\ d.maxIdle <= d.maxOpen
    /\ ValidMonitoring(d)
    /\ ValidFunctions(c, d)

\* Validate, with the token known or not.
Valid(c, token) ==
    /\ ~(c.readOnly /\ c.features # {})
    /\ c.transport = "stdio" => c.auth.mode = "none" /\ c.auth.sources = {} /\ ~token
    /\ ValidAuth(c.auth, token)
    /\ ValidLimits(c)
    /\ c.datasources # <<>>
    /\ \A n \in DOMAIN c.datasources : ValidDatasource(c, c.datasources[n])
    /\ \A m, n \in DOMAIN c.datasources : m # n => c.datasources[m].name # c.datasources[n].name

\* applyDatasourceDefaults
Default(value, default) == IF value = 0 THEN default ELSE value
DatasourceDefaults(d) ==
    [d EXCEPT !.maxOpen = Default(d.maxOpen, 10), !.maxIdle = Default(d.maxIdle, 5),
              !.monitorTimeout = Default(d.monitorTimeout, 5)]
WithDefaults(c) ==
    [c EXCEPT !.datasources =
        [n \in DOMAIN c.datasources |-> DatasourceDefaults(c.datasources[n])]]

-----------------------------------------------------------------------------
(* Loading.                                                                  *)

Fail(kind, secret) ==
    /\ pc' = "failed"
    /\ cause' = [kind |-> kind, secret |-> secret]

\* An error of OpenRegistry: the source and the sources before it are closed.
FailOpen(kind) ==
    /\ Fail(kind, TokenSecret)
    /\ registry' = <<>> /\ source' = NoSource
    /\ UNCHANGED <<requested, cfg, resolved, at, version, performanceSchema, endpoints>>

Init ==
    /\ cfg \in Files
    /\ requested \in Requested
    /\ pc = "load"
    /\ resolved = {} /\ at = 1
    /\ registry = <<>> /\ source = NoSource
    /\ version = None /\ performanceSchema = FALSE
    /\ endpoints = <<>>
    /\ cause = [kind |-> "none", secret |-> TokenSecret]

\* loadUnresolved
Load ==
    /\ pc = "load"
    /\ cfg' = WithDefaults(cfg)
    /\ IF Valid(cfg', FALSE) THEN pc' = "select" /\ UNCHANGED cause ELSE Fail("invalid", TokenSecret)
    /\ UNCHANGED <<requested, resolved, at, openVars, endpoints>>

\* selectStdioDatasource
Matching(c) == {n \in DOMAIN c.datasources : requested \in {None, c.datasources[n].name}}
Served(c) ==
    IF c.transport = "http" THEN c.datasources
    ELSE <<c.datasources[CHOOSE n \in Matching(c) : TRUE]>>

\* Only stdio takes --datasource, and needs it among several sources.
Select ==
    /\ pc = "select"
    /\ IF \/ cfg.transport = "http" /\ requested # None
          \/ cfg.transport = "stdio" /\ Cardinality(Matching(cfg)) # 1
       THEN Fail("selection", TokenSecret) /\ UNCHANGED cfg
       ELSE /\ cfg' = [cfg EXCEPT !.datasources = Served(cfg)]
            /\ pc' = "token"
            /\ UNCHANGED cause
    /\ UNCHANGED <<requested, resolved, at, openVars, endpoints>>

\* The token of an HTTP server, the first secret.
TokenUsed(c) == c.transport = "http" /\ c.auth.mode = "token"

\* resolveSecret: a variable or a file may be missing, or be unfit.
ResolveToken ==
    /\ pc = "token"
    /\ \/ TokenUsed(cfg) /\ Fail("secret", TokenSecret) /\ UNCHANGED resolved
       \/ /\ resolved' = IF TokenUsed(cfg) THEN {TokenSecret} ELSE {}
          /\ pc' = "read"
          /\ UNCHANGED cause
    /\ UNCHANGED <<requested, cfg, at, openVars, endpoints>>

\* Then the credentials that are configured, role by role and source by source.
AfterRole ==
    CASE pc = "read" -> pc' = "write" /\ at' = at
      [] pc = "write" -> pc' = "monitor" /\ at' = at
      [] pc = "monitor" -> /\ at' = at + 1
                           /\ pc' = IF at < Len(cfg.datasources) THEN "read" ELSE "revalidate"

\* resolveCredential: a literal password is always there.
ResolveCredential ==
    /\ pc \in Roles
    /\ LET d == cfg.datasources[at]
           credential == d.credentials[pc]
       IN \/ /\ pc = "read" \/ Configured(credential)
             /\ \/ /\ "literal" \notin credential.sources
                   /\ Fail("secret", SecretOf(d, pc))
                   /\ UNCHANGED <<resolved, at>>
                \/ /\ resolved' = resolved \cup {SecretOf(d, pc)}
                   /\ AfterRole
                   /\ UNCHANGED cause
          \/ /\ ~(pc = "read" \/ Configured(credential))
             /\ AfterRole
             /\ UNCHANGED <<resolved, cause>>
    /\ UNCHANGED <<requested, cfg, openVars, endpoints>>

-----------------------------------------------------------------------------
(* Opening.                                                                  *)

Opening == cfg.datasources[Len(registry) + 1]
Writable(c, d) == c.features # {} /\ ~ReadOnly(c, d)

\* OpenRegistry validates what Load validated before the secrets were known.
Revalidate ==
    /\ pc = "revalidate"
    /\ IF Valid(cfg, TokenSecret \in resolved)
       THEN pc' = "readers" /\ UNCHANGED <<cause, requested, cfg, resolved, at, openVars, endpoints>>
       ELSE FailOpen("internal")

\* OpenMySQLPool: the server may refuse the account. "mysql" also stands for what
\* makeTLSConfig refuses: files it cannot read, or verify-full on a socket without
\* a server_name, which Validate does not ask for.
Pool(h, role, timeout, next) ==
    IF timeout <= 0 THEN FailOpen("internal")
    ELSE \/ FailOpen("mysql")
         \/ /\ source' = [source EXCEPT ![h] = role]
            /\ pc' = next
            /\ UNCHANGED <<requested, cfg, resolved, at, registry, version, performanceSchema, endpoints, cause>>

\* A step of openSource that sets handles of the source.
Set(handles, next) ==
    /\ source' = handles
    /\ pc' = next
    /\ UNCHANGED <<requested, cfg, resolved, at, registry, version, performanceSchema, endpoints, cause>>

OpenReader == pc = "readers" /\ Pool("readDB", "read", cfg.queryTimeout, "version")

\* DetectVersion
DetectVersion ==
    /\ pc = "version"
    /\ \/ FailOpen("mysql")
       \/ /\ \E v \in Versions : v.family # "other" /\ version' = v
          /\ pc' = "executors"
          /\ UNCHANGED <<requested, cfg, resolved, at, registry, source, performanceSchema, endpoints, cause>>

\* The bound of the metadata lists: one row more than a client gets.
MetadataRows(c) == IF c.maxRows < MaxInt THEN c.maxRows + 1 ELSE c.maxRows

\* NewQueryExecutor and NewMetadataServiceWithMaxRows
NewReaders ==
    /\ pc = "executors"
    /\ IF cfg.queryTimeout < 0 \/ cfg.maxRows < 0 \/ MetadataRows(cfg) <= 0
       THEN FailOpen("internal")
       ELSE Set([source EXCEPT !["Query"] = source["readDB"], !["Metadata"] = source["readDB"]],
                "writers")

Commands(c) == c.features \cap {"dml", "ddl"} # {}

OpenWriter ==
    /\ pc = "writers"
    /\ IF Writable(cfg, Opening) THEN Pool("writeDB", "write", cfg.queryTimeout, "commands")
       ELSE Set(source, "functions")

\* NewCommandExecutor and NewAdminService
NewWriters ==
    /\ pc = "commands"
    /\ Set([source EXCEPT !["Command"] = IF Commands(cfg) THEN source["writeDB"] ELSE None,
                          !["Admin"] = IF "admin" \in cfg.features THEN source["writeDB"] ELSE None],
           "functions")

\* NewFunctionService
NewFunctions ==
    /\ pc = "functions"
    /\ LET functions == Opening.functions
           writer == IF ReadOnly(cfg, Opening) \/ "function_write" \notin cfg.features
                     THEN None ELSE source["writeDB"]
           Key(n) == <<functions[n].schema, functions[n].routine>>
       IN IF \/ \E n \in DOMAIN functions :
                   \/ functions[n].effect = ""
                   \/ functions[n].effect = "write" /\ writer = None
             \/ \E m, n \in DOMAIN functions : m # n /\ Key(m) = Key(n)
          THEN FailOpen("internal")
          ELSE Set([source EXCEPT !["FunctionsReader"] = source["readDB"],
                                  !["FunctionsWriter"] = writer],
                   "monitoring")

\* Monitoring falls back to the pool that reads.
OpenMonitor ==
    /\ pc = "monitoring"
    /\ IF "enabled" \notin Opening.monitoring THEN Set(source, "take")
       ELSE IF Configured(Opening.credentials["monitor"])
       THEN Pool("monitorDB", "monitor", Opening.monitorTimeout, "capability")
       ELSE Set([source EXCEPT !["monitorDB"] = source["readDB"]], "capability")

\* DetectPerformanceSchema and ParseCapability, which wants a full version.
NewMonitor ==
    /\ pc = "capability"
    /\ \/ FailOpen("mysql")
       \/ /\ version.patch
          /\ performanceSchema' \in BOOLEAN
          /\ source' = [source EXCEPT !["Monitor"] = source["monitorDB"]]
          /\ pc' = "take"
          /\ UNCHANGED <<requested, cfg, resolved, at, registry, version, endpoints, cause>>

\* OpenRegistry takes the source over and goes on with the next.
Take ==
    /\ pc = "take"
    /\ registry' = Append(registry, [handles |-> source, version |-> version,
                                     performanceSchema |-> performanceSchema])
    /\ source' = NoSource
    /\ pc' = IF Len(registry') = Len(cfg.datasources) THEN "register" ELSE "readers"
    /\ UNCHANGED <<requested, cfg, resolved, at, version, performanceSchema, endpoints, cause>>

-----------------------------------------------------------------------------
(* The tools, named without their prefixes, with the accounts they use.      *)

Tool(name, readOnlyHint, accounts) ==
    [name |-> name, readOnlyHint |-> readOnlyHint, accounts |-> accounts]

QueryTools(h) ==
    {Tool("info", TRUE, {})}
    \cup {Tool(name, TRUE, {h["Query"]}) : name \in {"query", "explain"}}
    \cup {Tool("execute", FALSE, {account}) : account \in {h["Command"]} \ {None}}

MetadataTools(h) ==
    {Tool(name, TRUE, {h["Metadata"]}) :
        name \in {"schemas", "tables", "describe_table", "indexes", "constraints"}}

AdminTools(h) == {Tool("kill_query", FALSE, {account}) : account \in {h["Admin"]} \ {None}}

\* MySQL 8 shows locks in performance_schema only.
SupportsLocks(opened) == opened.version.family = "5.7" \/ opened.performanceSchema

MonitorTools(opened, d) ==
    LET names == {"overview", "storage"}
                   \cup (d.monitoring \cap {"sessions", "replication", "innodb_status"})
                   \cup (IF SupportsLocks(opened) THEN d.monitoring \cap {"locks"} ELSE {})
                   \cup (IF opened.performanceSchema THEN d.monitoring \cap {"top_queries"} ELSE {})
    IN {Tool(name, TRUE, {opened.handles["Monitor"]}) :
           name \in IF opened.handles["Monitor"] = None THEN {} ELSE names}

Effects(d) == {d.functions[n].effect : n \in DOMAIN d.functions}
HasWriteFunction(d) == "write" \in Effects(d)

\* A call uses the reader or the writer by the effect of the function.
FunctionTools(h, d) ==
    IF d.functions = <<>> THEN {}
    ELSE {Tool(name, TRUE, {h["FunctionsReader"]}) : name \in {"function_list", "function_describe"}}
         \cup {Tool("function_call", ~HasWriteFunction(d),
                    {IF effect = "write" THEN h["FunctionsWriter"] ELSE h["FunctionsReader"]
                       : effect \in Effects(d)})}

\* mysql.info: the features of the source that are on.
Info(h, c, d) ==
    (IF h["Command"] # None THEN c.features \cap {"dml", "ddl"} ELSE {})
    \cup (IF h["Monitor"] # None THEN {"monitoring"} ELSE {})
    \cup (IF d.functions # <<>> THEN {"stored_function"} ELSE {})
    \cup (IF HasWriteFunction(d) /\ ~ReadOnly(c, d) THEN c.features \cap {"function_write"} ELSE {})
    \cup (IF h["Admin"] # None THEN {"admin"} ELSE {})

\* NewServer for every source of the registry.
Endpoint(opened, c, d) ==
    [tools |-> QueryTools(opened.handles) \cup MetadataTools(opened.handles)
                 \cup MonitorTools(opened, d) \cup FunctionTools(opened.handles, d)
                 \cup AdminTools(opened.handles),
     info  |-> Info(opened.handles, c, d)]

Register ==
    /\ pc = "register"
    /\ IF \E n \in DOMAIN registry : None \in {registry[n].handles["Query"], registry[n].handles["Metadata"]}
       THEN FailOpen("internal")
       ELSE /\ endpoints' = [n \in DOMAIN registry |-> Endpoint(registry[n], cfg, cfg.datasources[n])]
            /\ pc' = "serving"
            /\ UNCHANGED <<requested, cfg, resolved, at, openVars, cause>>

-----------------------------------------------------------------------------
Next ==
    \/ Load \/ Select \/ ResolveToken \/ ResolveCredential \/ Revalidate
    \/ OpenReader \/ DetectVersion \/ NewReaders \/ OpenWriter \/ NewWriters
    \/ NewFunctions \/ OpenMonitor \/ NewMonitor \/ Take
    \/ Register

Spec == Init /\ [][Next]_vars

-----------------------------------------------------------------------------
(* Properties.                                                               *)

HandleValues == Roles \cup {None}
Opened == [handles : [Handles -> HandleValues], version : Versions, performanceSchema : BOOLEAN]
CauseType == [kind : {"none", "invalid", "selection", "secret", "mysql", "internal"}, secret : Secrets]

TypeOK ==
    /\ requested \in Requested
    /\ pc \in PCs
    /\ cfg \in Config
    /\ resolved \subseteq Secrets
    /\ at \in Nat \ {0}
    /\ registry \in Seq(Opened)
    /\ Len(registry) <= Len(cfg.datasources)
    /\ pc \in Stages => Len(registry) < Len(cfg.datasources)
    /\ source \in [Handles -> HandleValues]
    /\ version \in Versions \cup {None}
    /\ performanceSchema \in BOOLEAN
    /\ cause \in CauseType
    /\ DOMAIN endpoints \subseteq DOMAIN registry

\* What Validate accepts, the rest of the program can work with: OpenRegistry
\* accepts it once more, with the secrets, and no constructor of a service
\* refuses it. Only a secret, --datasource, MySQL or the TLS settings, which are
\* not modelled, can stop the server then.
AcceptedStarts == cause.kind # "internal"

\* A pool is opened with an account that is configured and whose password is
\* known, whatever rule of Validate, of resolveSecrets and of openSource has
\* led to it.
Accounts(handles) == {handles[h] : h \in Handles} \ {None}
OpenedWithSecret ==
    \A n \in 1..Len(cfg.datasources) :
       LET d == cfg.datasources[n]
           accounts == IF n <= Len(registry) THEN Accounts(registry[n].handles)
                       ELSE IF n = Len(registry) + 1 THEN Accounts(source) ELSE {}
       IN \A role \in accounts : d.credentials[role].username /\ SecretOf(d, role) \in resolved

\* README.md:363: what writes needs a source that is not read-only and its own
\* feature; a tool that says it only reads has no account that writes.
ToolNeeds(tool) ==
    CASE tool.name = "execute" -> {"dml", "ddl"}
      [] tool.name = "kill_query" -> {"admin"}
      [] tool.name = "function_call" -> {"function_write"}
      [] OTHER -> {}
WriteIsGated ==
    \A n \in DOMAIN endpoints : \A tool \in endpoints[n].tools :
       LET d == cfg.datasources[n]
       IN /\ tool.accounts \subseteq Roles
          /\ tool.readOnlyHint <=> "write" \notin tool.accounts
          /\ "write" \in tool.accounts =>
                /\ ~cfg.readOnly /\ ~d.readOnly
                /\ ToolNeeds(tool) \cap cfg.features # {}

\* load.go:67: the secret of a source that is not served cannot stop the server.
OnlyServedSecrets ==
    cause.kind = "secret" /\ cause.secret # TokenSecret =>
       cfg.transport = "http" \/ requested \in {None, cause.secret[1]}

\* README.md:375-395: the tools of a source follow from the configuration and
\* the server, and mysql.info tells which features they come from.
Documented(c, d, opened) ==
    LET Given(condition, names) == IF condition THEN names ELSE {}
        monitored == "enabled" \in d.monitoring
        writable == ~c.readOnly /\ ~d.readOnly
    IN {"info", "query", "explain", "schemas", "tables", "describe_table", "indexes", "constraints"}
       \cup Given(writable /\ c.features \cap {"dml", "ddl"} # {}, {"execute"})
       \cup Given(writable /\ "admin" \in c.features, {"kill_query"})
       \cup Given(monitored, {"overview", "storage"})
       \cup {flag \in d.monitoring : flag \in {"sessions", "replication", "innodb_status"}}
       \cup Given("locks" \in d.monitoring /\ (opened.performanceSchema \/ opened.version.family = "5.7"),
                  {"locks"})
       \cup Given("top_queries" \in d.monitoring /\ opened.performanceSchema, {"top_queries"})
       \cup Given(Len(d.functions) > 0, {"function_list", "function_describe", "function_call"})

ToolsDocumented ==
    \A n \in DOMAIN endpoints :
       LET names == {tool.name : tool \in endpoints[n].tools}
           writes == {tool.name : tool \in {t \in endpoints[n].tools : ~t.readOnlyHint}}
           info == endpoints[n].info
       IN /\ names = Documented(cfg, cfg.datasources[n], registry[n])
          /\ "execute" \in writes <=> {"dml", "ddl"} \cap info # {}
          /\ "kill_query" \in writes <=> "admin" \in info
          /\ "function_call" \in writes <=> "function_write" \in info
          /\ "overview" \in names <=> "monitoring" \in info
          /\ "function_call" \in names <=> "stored_function" \in info

\* README.md:388: mysql.monitor.locks is there if monitoring.locks is.
LocksAsDocumented ==
    \A n \in DOMAIN endpoints :
       "locks" \in cfg.datasources[n].monitoring =>
          \E tool \in endpoints[n].tools : tool.name = "locks"
=============================================================================
