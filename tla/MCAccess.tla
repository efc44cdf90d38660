------------------------------ MODULE MCAccess ------------------------------
(* Instances of Access for TLC. *)
EXTENDS AccessInv

CONSTANTS a, b, s1, s2, f, g

Good == [username |-> TRUE, sources |-> {"password_env"}]
Absent == [username |-> FALSE, sources |-> {}]
Base == [name |-> a, readOnly |-> FALSE,
         credentials |-> [read |-> Good, write |-> Good, monitor |-> Absent],
         restricted |-> TRUE, allowed |-> {s1}, default |-> s1,
         maxOpen |-> 0, maxIdle |-> 0, monitoring |-> {}, monitorTimeout |-> 0, functions |-> <<>>]
Server == [transport |-> "stdio", readOnly |-> FALSE, features |-> {},
           auth |-> [mode |-> "none", sources |-> {}],
           queryTimeout |-> 10, defaultRows |-> 2, maxRows |-> 3, maxConcurrency |-> 4,
           datasources |-> <<Base>>]
Function(schema, effect) == [schema |-> schema, routine |-> IF effect = "write" THEN g ELSE f, effect |-> effect]

\* Every combination of what decides on writing, for one source.
WriteFiles ==
    {[Server EXCEPT !.readOnly = global, !.features = features,
                    !.datasources = <<[Base EXCEPT !.readOnly = local, !.functions = functions,
                                                   !.credentials["write"] = writer,
                                                   !.monitoring = flags]>>]
       : global \in BOOLEAN, local \in BOOLEAN, features \in SUBSET Features,
         functions \in {<<>>, <<Function(s1, "read")>>, <<Function(s1, "write")>>,
                       <<Function(s1, "write"), Function(s1, "read")>>},
         writer \in {Good, Absent}, flags \in {{}, {"enabled", "locks"}}}

\* Monitoring, with an account of its own and without, and functions.
MonitorFiles ==
    {[Server EXCEPT !.datasources = <<[Base EXCEPT !.monitoring = flags, !.credentials["monitor"] = monitor,
                                                   !.functions = functions]>>]
       : flags \in {{}, {"locks"}, {"enabled", "locks", "top_queries"}, {"enabled", "sessions"}},
         monitor \in {Good, Absent, [Good EXCEPT !.username = FALSE]},
         functions \in {<<>>, <<Function(s2, "read")>>, <<Function(s1, "read"), Function(s1, "read")>>}}

\* Two sources under both transports, with and without a token.
Second == [Base EXCEPT !.name = b, !.default = None, !.restricted = FALSE, !.allowed = {},
                       !.credentials["read"].sources = {"literal"}]
SourceFiles ==
    {[Server EXCEPT !.transport = transport, !.auth = auth, !.features = features, !.datasources = sources]
       : transport \in {"stdio", "http"},
         auth \in {[mode |-> "none", sources |-> {}], [mode |-> "token", sources |-> {"token_env"}],
                   [mode |-> "token", sources |-> {"token_env", "token_file"}]},
         features \in {{}, {"dml"}},
         sources \in {<<Base, Second>>, <<Second, Base>>, <<Base, Base>>, <<>>}}

\* Limits and pools at their boundaries, and what a source names.
EdgeFiles ==
    {[Server EXCEPT !.defaultRows = r[1], !.maxRows = r[2]] : r \in {<<0, 3>>, <<4, 3>>, <<2, 7>>}}
    \cup {[Server EXCEPT !.queryTimeout = 0], [Server EXCEPT !.maxConcurrency = 0]}
    \cup {[Server EXCEPT !.datasources = <<[Base EXCEPT !.maxOpen = p[1], !.maxIdle = p[2]]>>]
            : p \in {<<3, 0>>, <<-1, 0>>, <<3, 3>>}}
    \cup {[Server EXCEPT !.datasources = <<[Base EXCEPT !.monitorTimeout = -1, !.default = s2]>>]}

MCFiles == WriteFiles \cup MonitorFiles \cup SourceFiles \cup EdgeFiles
MCRequested == {None, a, b}
=============================================================================
