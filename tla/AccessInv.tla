------------------------------ MODULE AccessInv ------------------------------
(***************************************************************************)
(* The inductive invariant of Access: the handles of a source are those    *)
(* that its configuration leads to, as far as openSource has come, and     *)
(* every secret they need has been resolved.                               *)
(***************************************************************************)
EXTENDS Access

\* The handles of a source once it is open.
Final(c, d) ==
    LET If(condition, account) == IF condition THEN account ELSE None
        monitor == If("enabled" \in d.monitoring,
                      IF Configured(d.credentials["monitor"]) THEN "monitor" ELSE "read")
    IN [readDB |-> "read", Query |-> "read", Metadata |-> "read", FunctionsReader |-> "read",
        writeDB |-> If(Writable(c, d), "write"),
        Command |-> If(Writable(c, d) /\ Commands(c), "write"),
        Admin |-> If(Writable(c, d) /\ "admin" \in c.features, "write"),
        FunctionsWriter |-> If(Writable(c, d) /\ "function_write" \in c.features, "write"),
        monitorDB |-> monitor, Monitor |-> monitor]

\* The handles that are set before a stage.
Done(stage) ==
    LET After(stages, handles) == IF stage \in stages THEN {} ELSE handles
    IN After({"readers"}, {"readDB"})
       \cup After({"readers", "version", "executors"}, {"Query", "Metadata"})
       \cup After({"readers", "version", "executors", "writers"}, {"writeDB"})
       \cup After({"readers", "version", "executors", "writers", "commands"}, {"Command", "Admin"})
       \cup After({"readers", "version", "executors", "writers", "commands", "functions"},
                  {"FunctionsReader", "FunctionsWriter"})
       \cup (IF stage \in {"capability", "take"} THEN {"monitorDB"} ELSE {})
       \cup (IF stage = "take" THEN {"Monitor"} ELSE {})

Partial(stage, c, d) == [h \in Handles |-> IF h \in Done(stage) THEN Final(c, d)[h] ELSE None]

Later == Stages \cup {"register", "serving"}

\* The configuration is valid from Load on, also with the token.
ValidInv ==
    /\ pc \notin {"load", "failed"} => Valid(cfg, TokenSecret \in resolved)
    /\ pc \in {"load", "select", "token"} => resolved = {} /\ at = 1

\* Of several sources stdio keeps the one it serves.
ServedInv ==
    pc \notin {"load", "select", "failed"} /\ cfg.transport = "stdio" =>
       \A n \in DOMAIN cfg.datasources : requested \in {None, cfg.datasources[n].name}

Needed(d, role) == role = "read" \/ Configured(d.credentials[role])
Resolved(n, roles) ==
    \A role \in roles :
       Needed(cfg.datasources[n], role) => SecretOf(cfg.datasources[n], role) \in resolved

\* Secrets are resolved source by source and role by role.
SecretInv ==
    /\ pc \in Roles =>
          /\ at \in DOMAIN cfg.datasources
          /\ \A n \in 1..(at - 1) : Resolved(n, Roles)
          /\ pc # "read" => Resolved(at, {"read"})
          /\ pc = "monitor" => Resolved(at, {"write"})
    /\ pc \in {"revalidate"} \cup Later => \A n \in DOMAIN cfg.datasources : Resolved(n, Roles)

SourceInv ==
    /\ pc \in Stages =>
          /\ source = Partial(pc, cfg, Opening)
          /\ pc = "commands" => Writable(cfg, Opening)
          /\ pc = "capability" => "enabled" \in Opening.monitoring
    /\ pc \notin Stages => source = NoSource
    /\ pc \in Stages \ {"readers", "version"} => version \in Versions

RegistryInv ==
    /\ pc \notin Later => registry = <<>>
    /\ pc \in {"register", "serving"} => Len(registry) = Len(cfg.datasources)
    /\ \A n \in DOMAIN registry : registry[n].handles = Final(cfg, cfg.datasources[n])

EndpointsInv ==
    /\ pc # "serving" => endpoints = <<>>
    /\ pc = "serving" =>
          endpoints = [n \in DOMAIN registry |-> Endpoint(registry[n], cfg, cfg.datasources[n])]

CauseInv == pc # "failed" => cause.kind = "none"

IInv ==
    /\ TypeOK
    /\ ValidInv /\ ServedInv /\ SecretInv /\ SourceInv /\ RegistryInv /\ EndpointsInv
    /\ CauseInv /\ AcceptedStarts /\ OnlyServedSecrets
=============================================================================
