---------------------------- MODULE AccessProofs ----------------------------
(***************************************************************************)
(* Proofs about Access: for every configuration, server and order of       *)
(* failures, the invariants of the way from a configuration to the tools.  *)
(***************************************************************************)
EXTENDS AccessInv, FiniteSetTheorems, TLAPS

USE RequestedAssumption, NoneAssumption

-----------------------------------------------------------------------------
(* Configurations.                                                           *)

LEMMA DatasourceDefaultsType ==
  ASSUME NEW d \in Datasource
  PROVE  DatasourceDefaults(d) \in Datasource
  <1>1. ASSUME NEW x \in Int, NEW y \in Int, NEW z \in Int
        PROVE  [d EXCEPT !.maxOpen = x, !.maxIdle = y, !.monitorTimeout = z] \in Datasource
    BY DEF Datasource
  <1>2. d.maxOpen \in Int /\ d.maxIdle \in Int /\ d.monitorTimeout \in Int
    BY DEF Datasource
  <1>3. /\ Default(d.maxOpen, 10) \in Int
        /\ Default(d.maxIdle, 5) \in Int
        /\ Default(d.monitorTimeout, 5) \in Int
    BY <1>2 DEF Default
  <1> QED
    BY <1>1, <1>3 DEF DatasourceDefaults

LEMMA SeqField ==
  ASSUME NEW c \in Config
  PROVE  /\ c.datasources \in Seq(Datasource)
         /\ \A s \in Seq(Datasource) : [c EXCEPT !.datasources = s] \in Config
  BY DEF Config

LEMMA DefaultsType ==
  ASSUME NEW c \in Config
  PROVE  WithDefaults(c) \in Config
  <1> DEFINE s == [n \in DOMAIN c.datasources |-> DatasourceDefaults(c.datasources[n])]
  <1>1. c.datasources \in Seq(Datasource)
    BY SeqField
  <1>2. \A n \in 1..Len(c.datasources) : DatasourceDefaults(c.datasources[n]) \in Datasource
    BY <1>1, DatasourceDefaultsType
  <1>3. s \in Seq(Datasource)
    BY <1>1, <1>2
  <1> QED
    BY <1>3, SeqField DEF WithDefaults

\* The token of an HTTP server does not make a valid configuration invalid.
LEMMA ValidWithToken ==
  ASSUME NEW c \in Config, Valid(c, FALSE), TokenUsed(c)
  PROVE  Valid(c, TRUE)
  <1>1. c.transport # "stdio" /\ c.auth.mode # "none"
    BY DEF TokenUsed
  <1>2. ValidAuth(c.auth, FALSE)
    BY DEF Valid
  <1>3. ValidAuth(c.auth, TRUE)
    BY <1>1, <1>2 DEF ValidAuth
  <1> QED
    BY <1>1, <1>3 DEF Valid

\* Nor does leaving out other sources.
LEMMA ValidServed ==
  ASSUME NEW c \in Config, Valid(c, FALSE), NEW n \in DOMAIN c.datasources
  PROVE  LET r == [c EXCEPT !.datasources = <<c.datasources[n]>>]
         IN r \in Config /\ Valid(r, FALSE)
  <1> DEFINE r == [c EXCEPT !.datasources = <<c.datasources[n]>>]
  <1>1. c.datasources[n] \in Datasource
    BY SeqField
  <1>2. r \in Config
    <2>1. <<c.datasources[n]>> \in Seq(Datasource)
      BY <1>1
    <2> QED
      BY <2>1, SeqField
  <1>3. /\ r.readOnly = c.readOnly /\ r.features = c.features /\ r.transport = c.transport
        /\ r.auth = c.auth /\ r.queryTimeout = c.queryTimeout /\ r.defaultRows = c.defaultRows
        /\ r.maxRows = c.maxRows /\ r.maxConcurrency = c.maxConcurrency
        /\ r.datasources = <<c.datasources[n]>>
    BY DEF Config
  <1>4. ValidDatasource(c, c.datasources[n])
    BY DEF Valid
  <1>5. ValidDatasource(r, c.datasources[n])
    BY <1>3, <1>4 DEF ValidDatasource, ValidWriter, ValidFunctions, ReadOnly
  <1>6. ValidLimits(r)
    BY <1>3 DEF Valid, ValidLimits
  <1>7. r.datasources # <<>> /\ \A m \in DOMAIN r.datasources : m = 1 /\ r.datasources[m] = c.datasources[n]
    BY <1>3
  <1> HIDE DEF r
  <1>8. Valid(r, FALSE)
    <2>1. /\ ~(r.readOnly /\ r.features # {})
          /\ r.transport = "stdio" => r.auth.mode = "none" /\ r.auth.sources = {}
          /\ ValidAuth(r.auth, FALSE)
      BY <1>3 DEF Valid
    <2>2. \A m \in DOMAIN r.datasources : ValidDatasource(r, r.datasources[m])
      BY <1>5, <1>7
    <2> QED
      BY <1>6, <1>7, <2>1, <2>2 DEF Valid
  <1> QED
    BY <1>2, <1>8 DEF r

-----------------------------------------------------------------------------
(* Handles.                                                                  *)

LEMMA FinalType ==
  ASSUME NEW c, NEW d
  PROVE  Final(c, d) \in [Handles -> HandleValues]
  BY DEF Final, Handles, HandleValues, Roles

LEMMA PartialType ==
  ASSUME NEW c, NEW d, NEW stage
  PROVE  Partial(stage, c, d) \in [Handles -> HandleValues]
  BY FinalType DEF Partial, HandleValues

LEMMA PartialEnds ==
  ASSUME NEW c, NEW d
  PROVE  Partial("readers", c, d) = NoSource /\ Partial("take", c, d) = Final(c, d)
  <1>1. Done("readers") = {}
    BY DEF Done
  <1>2. Done("take") = Handles
    BY DEF Done, Handles
  <1> QED
    BY <1>1, <1>2, FinalType DEF Partial, NoSource

-----------------------------------------------------------------------------
(* Why startup failed.                                                       *)

\* Startup goes on and has not failed.
LEMMA CauseKept ==
  ASSUME IInv, pc # "failed", cause' = cause
  PROVE  CauseInv' /\ AcceptedStarts' /\ OnlyServedSecrets'
  <1>1. cause.kind = "none"
    BY DEF IInv, CauseInv
  <1>2. cause'.kind = "none"
    BY <1>1
  <1>3. CauseInv' /\ AcceptedStarts'
    BY <1>2 DEF CauseInv, AcceptedStarts
  <1>4. OnlyServedSecrets'
    BY <1>2 DEF OnlyServedSecrets
  <1> QED
    BY <1>3, <1>4

\* It fails, and not for a credential.
LEMMA CauseGiven ==
  ASSUME NEW kind \in {"invalid", "selection", "mysql"} \cup {"secret"},
         pc' = "failed", cause' = [kind |-> kind, secret |-> TokenSecret]
  PROVE  CauseInv' /\ AcceptedStarts' /\ OnlyServedSecrets' /\ cause' \in CauseType
  <1>1. cause'.kind = kind /\ cause'.secret = TokenSecret /\ kind # "internal"
    OBVIOUS
  <1>2. CauseInv' /\ AcceptedStarts'
    BY <1>1 DEF CauseInv, AcceptedStarts
  <1>3. OnlyServedSecrets'
    BY <1>1 DEF OnlyServedSecrets
  <1>4. TokenSecret \in Secrets
    BY DEF Secrets
  <1> QED
    BY <1>2, <1>3, <1>4 DEF CauseType

-----------------------------------------------------------------------------
(* The steps of openSource.                                                  *)

LEMMA StageStep ==
  ASSUME IInv, pc \in Stages \cup {"revalidate"}, pc' \in Stages, Len(registry) < Len(cfg.datasources),
         UNCHANGED <<requested, cfg, resolved, at, registry, endpoints, cause>>,
         version' \in Versions \cup {None}, performanceSchema' \in BOOLEAN,
         source' = Partial(pc', cfg, Opening),
         pc' = "commands" => Writable(cfg, Opening),
         pc' = "capability" => "enabled" \in Opening.monitoring,
         pc' \in Stages \ {"readers", "version"} => version' \in Versions
  PROVE  IInv'
  <1>1. Stages \subseteq PCs /\ Stages \cap (Roles \cup {"load", "select", "token", "failed", "revalidate",
                                                         "register", "serving"}) = {}
          /\ pc # "failed"
    BY DEF Stages, PCs, Roles
  <1>2. TypeOK'
    BY <1>1, PartialType DEF IInv, TypeOK
  <1>3. ValidInv' /\ ServedInv' /\ SecretInv'
    BY <1>1 DEF IInv, ValidInv, ServedInv, SecretInv, Resolved, Later
  <1>4. SourceInv'
    BY <1>1 DEF SourceInv, Opening
  <1>5. RegistryInv' /\ EndpointsInv'
    BY <1>1 DEF IInv, RegistryInv, EndpointsInv, Later
  <1>6. CauseInv' /\ AcceptedStarts' /\ OnlyServedSecrets'
    BY <1>1, CauseKept
  <1> QED
    BY <1>2, <1>3, <1>4, <1>5, <1>6 DEF IInv

LEMMA FailOpenStep ==
  ASSUME IInv, pc # "serving", FailOpen("mysql")
  PROVE  IInv'
  <1>1. TypeOK'
    <2>1. NoSource \in [Handles -> HandleValues] /\ <<>> \in Seq(Opened)
      BY DEF NoSource, HandleValues
    <2>2. DOMAIN endpoints = {}
      BY DEF IInv, EndpointsInv
    <2>3. TokenSecret \in Secrets
      BY DEF Secrets
    <2> QED
      BY <2>1, <2>2, <2>3 DEF IInv, TypeOK, CauseType, FailOpen, Fail, PCs, Stages
  <1>2. ValidInv' /\ ServedInv' /\ SecretInv'
    BY DEF FailOpen, Fail, ValidInv, ServedInv, SecretInv, Later, Stages, Roles
  <1>3. SourceInv'
    BY DEF FailOpen, Fail, SourceInv, Stages
  <1>4. RegistryInv' /\ EndpointsInv'
    BY DEF IInv, FailOpen, Fail, RegistryInv, EndpointsInv, Later, Stages
  <1>5. CauseInv' /\ AcceptedStarts' /\ OnlyServedSecrets'
    BY CauseGiven DEF FailOpen, Fail
  <1> QED
    BY <1>1, <1>2, <1>3, <1>4, <1>5 DEF IInv

-----------------------------------------------------------------------------
(* Loading.                                                                  *)

LEMMA InitInv == Init => IInv
  <1> SUFFICES ASSUME Init PROVE IInv
    OBVIOUS
  <1>1. TypeOK
    <2>1. NoSource \in [Handles -> HandleValues] /\ <<>> \in Seq(Opened) /\ cfg \in Config
      BY FilesAssumption DEF NoSource, HandleValues, Init
    <2>2. Len(cfg.datasources) \in Nat
      BY <2>1, SeqField
    <2>3. cause \in CauseType
      BY DEF Secrets, CauseType, Init
    <2>4. registry = <<>> /\ endpoints = <<>> /\ Len(registry) = 0
      BY DEF Init
    <2>5. pc \in PCs \ Stages /\ requested \in Requested /\ resolved \subseteq Secrets /\ at \in Nat \ {0}
      BY DEF Init, PCs, Stages
    <2>8. version \in Versions \cup {None}
      BY DEF Init
    <2>9. performanceSchema \in BOOLEAN
      BY DEF Init
    <2>6. DOMAIN endpoints \subseteq DOMAIN registry
      BY <2>4
    <2>7. source \in [Handles -> HandleValues] /\ registry \in Seq(Opened)
      BY <2>1, <2>4 DEF Init
    <2> QED
      BY <2>1, <2>2, <2>3, <2>4, <2>5, <2>6, <2>7, <2>8, <2>9 DEF TypeOK
  <1>2. ValidInv /\ ServedInv /\ SecretInv /\ SourceInv /\ RegistryInv /\ EndpointsInv
    BY DEF Init, ValidInv, ServedInv, SecretInv, SourceInv, RegistryInv, EndpointsInv, Later, Stages, Roles
  <1> QED
    BY <1>1, <1>2 DEF Init, IInv, CauseInv, AcceptedStarts, OnlyServedSecrets

\* Before openSource nothing is open: a step there leaves the rest as it is.
LEMMA EarlyStep ==
  ASSUME IInv, pc \in {"load", "select", "token", "read", "write", "monitor"},
         pc' \in {"select", "token", "read", "write", "monitor", "revalidate", "failed"},
         UNCHANGED <<openVars, endpoints>>
  PROVE  SourceInv' /\ RegistryInv' /\ EndpointsInv' /\ registry' = <<>> /\ pc' \in PCs \ Stages
  <1>1. registry = <<>> /\ source = NoSource /\ endpoints = <<>>
    BY DEF IInv, RegistryInv, SourceInv, EndpointsInv, Later, Stages
  <1> QED
    BY <1>1 DEF openVars, SourceInv, RegistryInv, EndpointsInv, Later, Stages, PCs

LEMMA LoadInv == IInv /\ Load => IInv'
  <1> SUFFICES ASSUME IInv, Load PROVE IInv'
    OBVIOUS
  <1>1. cfg' \in Config
    BY DefaultsType DEF IInv, TypeOK, Load
  <1>2. pc' \in {"select", "failed"} /\ resolved = {} /\ at = 1
    BY DEF Load, Fail, IInv, ValidInv
  <1>3. SourceInv' /\ RegistryInv' /\ EndpointsInv' /\ registry' = <<>> /\ pc' \in PCs \ Stages
    BY <1>2, EarlyStep DEF Load
  <1>4. TypeOK'
    <2>1. Len(cfg'.datasources) \in Nat /\ TokenSecret \in Secrets
      BY <1>1, SeqField DEF Secrets
    <2>2. cause' \in CauseType
      <3>1. CASE cause' = cause
        BY <3>1 DEF IInv, TypeOK
      <3>2. CASE cause' = [kind |-> "invalid", secret |-> TokenSecret]
        BY <2>1, <3>2 DEF CauseType
      <3> QED
        BY <3>1, <3>2 DEF Load, Fail
    <2> QED
      BY <1>1, <1>2, <1>3, <2>1, <2>2 DEF IInv, TypeOK, Load, openVars
  <1>5. ValidInv'
    <2>1. pc' = "select" => Valid(cfg', FALSE)
      BY DEF Load, Fail
    <2>2. (TokenSecret \in resolved') = FALSE /\ resolved' = {} /\ at' = 1
      BY <1>2 DEF Load
    <2> QED
      BY <2>1, <2>2, <1>2 DEF ValidInv
  <1>6. ServedInv' /\ SecretInv'
    BY <1>2 DEF ServedInv, SecretInv, Later, Stages, Roles
  <1>7. CauseInv' /\ AcceptedStarts' /\ OnlyServedSecrets'
    BY CauseKept, CauseGiven DEF Load, Fail
  <1> QED
    BY <1>3, <1>4, <1>5, <1>6, <1>7 DEF IInv

LEMMA SelectInv == IInv /\ Select => IInv'
  <1> SUFFICES ASSUME IInv, Select PROVE IInv'
    OBVIOUS
  <1> DEFINE refused == \/ cfg.transport = "http" /\ requested # None
                        \/ cfg.transport = "stdio" /\ Cardinality(Matching(cfg)) # 1
  <1>1. cfg \in Config /\ Valid(cfg, FALSE) /\ resolved = {} /\ at = 1
    <2>1. (TokenSecret \in {}) = FALSE
      OBVIOUS
    <2> QED
      BY <2>1 DEF IInv, TypeOK, ValidInv, Select
  <1>2. CASE refused
    <2>1. pc' = "failed" /\ cause' = [kind |-> "selection", secret |-> TokenSecret]
            /\ UNCHANGED <<cfg, requested, resolved, at, openVars, endpoints>>
      BY <1>2 DEF Select, Fail
    <2>2. SourceInv' /\ RegistryInv' /\ EndpointsInv' /\ registry' = <<>>
      BY <2>1, EarlyStep DEF Select
    <2>3. TypeOK'
      BY <2>1 DEF IInv, TypeOK, CauseType, PCs, Stages, openVars, Secrets
    <2>4. ValidInv' /\ ServedInv' /\ SecretInv'
      BY <2>1 DEF ValidInv, ServedInv, SecretInv, Later, Stages, Roles
    <2>5. CauseInv' /\ AcceptedStarts' /\ OnlyServedSecrets'
      BY <2>1, CauseGiven
    <2> QED
      BY <2>2, <2>3, <2>4, <2>5 DEF IInv
  <1>3. CASE ~refused
    <2>1. pc' = "token" /\ cfg' = [cfg EXCEPT !.datasources = Served(cfg)]
            /\ UNCHANGED <<cause, requested, resolved, at, openVars, endpoints>>
      BY <1>3 DEF Select
    <2>2. SourceInv' /\ RegistryInv' /\ EndpointsInv' /\ registry' = <<>>
      BY <2>1, EarlyStep DEF Select
    <2>3. /\ cfg' \in Config /\ Valid(cfg', FALSE)
          /\ cfg'.transport = "stdio" =>
                \A n \in DOMAIN cfg'.datasources : requested \in {None, cfg'.datasources[n].name}
      <3>1. CASE cfg.transport = "http"
        <4>1. cfg' = cfg
          BY <1>1, <2>1, <3>1 DEF Served, Config
        <4> QED
          BY <1>1, <3>1, <4>1
      <3>2. CASE cfg.transport = "stdio"
        <4>1. PICK m : Matching(cfg) = {m}
          <5>1. IsFiniteSet(Matching(cfg))
            <6>1. Matching(cfg) \subseteq 1..Len(cfg.datasources) /\ Len(cfg.datasources) \in Nat
              BY <1>1, SeqField DEF Matching
            <6>2. IsFiniteSet(1..Len(cfg.datasources))
              BY <6>1, FS_Interval
            <6> QED
              BY <6>1, <6>2, FS_Subset
          <5>2. Cardinality(Matching(cfg)) = 1
            BY <1>3, <3>2
          <5> QED
            BY <5>1, <5>2, FS_Singleton
        <4>2. m \in DOMAIN cfg.datasources /\ requested \in {None, cfg.datasources[m].name}
          BY <4>1 DEF Matching
        <4>3. cfg' = [cfg EXCEPT !.datasources = <<cfg.datasources[m]>>]
          BY <2>1, <3>2, <4>1 DEF Served
        <4>4. cfg' \in Config /\ Valid(cfg', FALSE)
          BY <1>1, <4>2, <4>3, ValidServed
        <4>5. cfg'.datasources = <<cfg.datasources[m]>>
          BY <1>1, <4>3 DEF Config
        <4>6. \A n \in DOMAIN cfg'.datasources : cfg'.datasources[n] = cfg.datasources[m]
          BY <4>5
        <4> QED
          BY <4>2, <4>4, <4>6
      <3> QED
        BY <1>1, <3>1, <3>2 DEF Config
    <2>4. TypeOK'
      <3>1. Len(cfg'.datasources) \in Nat
        BY <2>3, SeqField
      <3> QED
        BY <2>1, <2>2, <2>3, <3>1 DEF IInv, TypeOK, PCs, Stages, openVars
    <2>5. ValidInv'
      <3>1. (TokenSecret \in resolved') = FALSE /\ resolved' = {} /\ at' = 1
        BY <1>1, <2>1
      <3> QED
        BY <2>1, <2>3, <3>1 DEF ValidInv
    <2>6. ServedInv' /\ SecretInv'
      BY <2>1, <2>3 DEF ServedInv, SecretInv, Later, Stages, Roles
    <2>7. CauseInv' /\ AcceptedStarts' /\ OnlyServedSecrets'
      BY <2>1, CauseKept DEF Select
    <2> QED
      BY <2>2, <2>4, <2>5, <2>6, <2>7 DEF IInv
  <1> QED
    BY <1>2, <1>3

LEMMA ResolveTokenInv == IInv /\ ResolveToken => IInv'
  <1> SUFFICES ASSUME IInv, ResolveToken PROVE IInv'
    OBVIOUS
  <1>1. cfg \in Config /\ Valid(cfg, FALSE) /\ resolved = {} /\ at = 1
    <2>1. (TokenSecret \in {}) = FALSE
      OBVIOUS
    <2> QED
      BY <2>1 DEF IInv, TypeOK, ValidInv, ResolveToken
  <1>2. UNCHANGED <<requested, cfg, at, openVars, endpoints>>
    BY DEF ResolveToken
  <1>3. TokenSecret \in Secrets
    BY DEF Secrets
  <1>4. CASE Fail("secret", TokenSecret) /\ UNCHANGED resolved
    <2>1. pc' = "failed" /\ cause' = [kind |-> "secret", secret |-> TokenSecret]
      BY <1>4 DEF Fail
    <2>2. CauseInv' /\ AcceptedStarts' /\ OnlyServedSecrets' /\ cause' \in CauseType
      BY <2>1, CauseGiven
    <2>3. SourceInv' /\ RegistryInv' /\ EndpointsInv' /\ registry' = <<>> /\ pc' \in PCs \ Stages
      BY <1>2, <2>1, EarlyStep DEF ResolveToken
    <2>4. TypeOK'
      BY <1>2, <1>4, <2>2, <2>3 DEF IInv, TypeOK, openVars
    <2>5. ValidInv' /\ ServedInv' /\ SecretInv'
      BY <2>1 DEF ValidInv, ServedInv, SecretInv, Later, Stages, Roles
    <2> QED
      BY <2>2, <2>3, <2>4, <2>5 DEF IInv
  <1>5. CASE resolved' = (IF TokenUsed(cfg) THEN {TokenSecret} ELSE {}) /\ pc' = "read" /\ UNCHANGED cause
    <2>1. CauseInv' /\ AcceptedStarts' /\ OnlyServedSecrets'
      BY <1>5, CauseKept DEF ResolveToken
    <2>2. SourceInv' /\ RegistryInv' /\ EndpointsInv' /\ registry' = <<>> /\ pc' \in PCs \ Stages
      BY <1>2, <1>5, EarlyStep DEF ResolveToken
    <2>3. TypeOK'
      BY <1>2, <1>3, <1>5, <2>2 DEF IInv, TypeOK, openVars
    <2>4. ValidInv'
      <3>1. CASE TokenUsed(cfg)
        <4>1. (TokenSecret \in resolved') = TRUE
          BY <1>5, <3>1
        <4>2. Valid(cfg, TRUE)
          BY <1>1, <3>1, ValidWithToken
        <4> QED
          BY <1>2, <1>5, <4>1, <4>2 DEF ValidInv
      <3>2. CASE ~TokenUsed(cfg)
        <4>1. (TokenSecret \in resolved') = FALSE
          BY <1>5, <3>2
        <4> QED
          BY <1>1, <1>2, <1>5, <4>1 DEF ValidInv
      <3> QED
        BY <3>1, <3>2
    <2>5. ServedInv'
      BY <1>2, <1>5 DEF IInv, ServedInv, ResolveToken
    <2>6. SecretInv'
      <3>1. 1 \in DOMAIN cfg.datasources
        <4>1. cfg.datasources \in Seq(Datasource) /\ cfg.datasources # <<>>
          BY <1>1, SeqField DEF Valid
        <4> QED
          BY <4>1
      <3>2. 1..(at' - 1) = {}
        BY <1>1, <1>2
      <3> QED
        BY <1>1, <1>2, <1>5, <3>1, <3>2 DEF SecretInv, Later, Stages, Roles
    <2> QED
      BY <2>1, <2>2, <2>3, <2>4, <2>5, <2>6 DEF IInv
  <1> QED
    BY <1>4, <1>5 DEF ResolveToken

\* A credential has been passed over or resolved.
LEMMA RolePassed ==
  ASSUME IInv, pc \in Roles, AfterRole, UNCHANGED <<requested, cfg, openVars, endpoints, cause>>,
         resolved \subseteq resolved', resolved' \subseteq resolved \cup (Names \X Roles),
         Needed(cfg.datasources[at], pc) => SecretOf(cfg.datasources[at], pc) \in resolved'
  PROVE  IInv'
  <1>1. cfg \in Config /\ at \in DOMAIN cfg.datasources /\ Len(cfg.datasources) \in Nat
          /\ DOMAIN cfg.datasources = 1..Len(cfg.datasources)
    BY SeqField DEF IInv, TypeOK, SecretInv
  <1>2. pc' \in {"read", "write", "monitor", "revalidate"}
    BY DEF AfterRole, Roles
  <1>3. SourceInv' /\ RegistryInv' /\ EndpointsInv' /\ registry' = <<>> /\ pc' \in PCs \ Stages
    BY <1>2, EarlyStep DEF Roles
  <1>4. CauseInv' /\ AcceptedStarts' /\ OnlyServedSecrets'
    BY CauseKept DEF Roles
  <1>5. TypeOK'
    <2>1. resolved' \subseteq Secrets
      BY DEF IInv, TypeOK, Secrets
    <2>2. at' \in Nat \ {0}
      <3>1. at \in Nat \ {0}
        BY DEF IInv, TypeOK
      <3>2. at' = at \/ at' = at + 1
        BY DEF AfterRole, Roles
      <3> QED
        BY <3>1, <3>2
    <2> QED
      BY <1>1, <1>3, <2>1, <2>2 DEF IInv, TypeOK, openVars
  <1>6. ValidInv'
    <2>1. TokenSecret \notin Names \X Roles
      BY DEF TokenSecret
    <2>2. (TokenSecret \in resolved') = (TokenSecret \in resolved)
      BY <2>1
    <2>3. Valid(cfg, TokenSecret \in resolved)
      BY DEF IInv, ValidInv, Roles
    <2> QED
      BY <1>2, <2>2, <2>3 DEF ValidInv
  <1>7. ServedInv'
    BY DEF IInv, ServedInv, Roles
  <1>8. SecretInv'
    <2>1. \A n \in 1..(at - 1) : Resolved(n, Roles)'
      BY DEF IInv, SecretInv, Resolved
    <2>2. CASE pc = "read"
      <3>1. pc' = "write" /\ at' = at
        BY <2>2 DEF AfterRole
      <3> QED
        BY <1>1, <2>1, <2>2, <3>1 DEF SecretInv, Resolved, Later, Stages, Roles
    <2>3. CASE pc = "write"
      <3>1. pc' = "monitor" /\ at' = at
        BY <2>3 DEF AfterRole
      <3> QED
        BY <1>1, <2>1, <2>3, <3>1 DEF IInv, SecretInv, Resolved, Later, Stages, Roles
    <2>4. CASE pc = "monitor"
      <3>1. at' = at + 1 /\ pc' = IF at < Len(cfg.datasources) THEN "read" ELSE "revalidate"
        BY <2>4 DEF AfterRole
      <3>2. Resolved(at, {"read"}) /\ Resolved(at, {"write"})
        BY <2>4 DEF IInv, SecretInv, Roles
      <3>3. \A role \in Roles : Needed(cfg.datasources[at], role) => SecretOf(cfg.datasources[at], role) \in resolved'
        BY <2>4, <3>2 DEF Resolved, Roles
      <3>4. \A n \in 1..at : \A role \in Roles :
               Needed(cfg.datasources[n], role) => SecretOf(cfg.datasources[n], role) \in resolved'
        <4>1. \A n \in 1..at : n \in 1..(at - 1) \/ n = at
          BY <1>1
        <4> QED
          BY <2>1, <3>3, <4>1 DEF Resolved
      <3>5. CASE at < Len(cfg.datasources)
        <4>1. pc' = "read" /\ at' \in DOMAIN cfg.datasources /\ 1..(at' - 1) = 1..at
          BY <1>1, <3>1, <3>5
        <4> QED
          BY <3>4, <4>1 DEF SecretInv, Resolved, Later, Stages
      <3>6. CASE ~(at < Len(cfg.datasources))
        <4>1. pc' = "revalidate" /\ DOMAIN cfg.datasources = 1..at
          BY <1>1, <3>1, <3>6
        <4> QED
          BY <3>4, <4>1 DEF SecretInv, Resolved, Roles
      <3> QED
        BY <3>5, <3>6
    <2> QED
      BY <2>2, <2>3, <2>4 DEF Roles
  <1> QED
    BY <1>3, <1>4, <1>5, <1>6, <1>7, <1>8 DEF IInv

LEMMA ResolveCredentialInv == IInv /\ ResolveCredential => IInv'
  <1> SUFFICES ASSUME IInv, ResolveCredential PROVE IInv'
    OBVIOUS
  <1> DEFINE d == cfg.datasources[at]
  <1>1. pc \in Roles /\ UNCHANGED <<requested, cfg, openVars, endpoints>>
    BY DEF ResolveCredential
  <1>2. d \in Datasource /\ at \in DOMAIN cfg.datasources
    BY <1>1, SeqField DEF IInv, TypeOK, SecretInv
  <1>3. SecretOf(d, pc) \in Names \X Roles
    BY <1>1, <1>2 DEF SecretOf, Datasource
  <1>4. CASE Fail("secret", SecretOf(d, pc)) /\ UNCHANGED <<resolved, at>>
    <2>1. pc' = "failed" /\ cause' = [kind |-> "secret", secret |-> SecretOf(d, pc)]
      BY <1>4 DEF Fail
    <2>2. cause' \in CauseType /\ CauseInv' /\ AcceptedStarts'
      BY <1>3, <2>1 DEF CauseType, Secrets, CauseInv, AcceptedStarts
    <2>3. SourceInv' /\ RegistryInv' /\ EndpointsInv' /\ registry' = <<>> /\ pc' \in PCs \ Stages
      BY <1>1, <2>1, EarlyStep DEF Roles
    <2>4. TypeOK'
      BY <1>1, <1>4, <2>2, <2>3 DEF IInv, TypeOK, openVars
    <2>5. ValidInv' /\ ServedInv' /\ SecretInv'
      BY <2>1 DEF ValidInv, ServedInv, SecretInv, Later, Stages, Roles
    <2>6. OnlyServedSecrets'
      <3>1. cause'.secret[1] = d.name
        BY <2>1 DEF SecretOf
      <3>2. cfg.transport = "stdio" => requested \in {None, d.name}
        BY <1>1, <1>2 DEF IInv, ServedInv, Roles
      <3>3. cfg.transport \in {"stdio", "http"}
        BY DEF IInv, TypeOK, Config
      <3> QED
        BY <1>1, <3>1, <3>2, <3>3 DEF OnlyServedSecrets
    <2> QED
      BY <2>2, <2>3, <2>4, <2>5, <2>6 DEF IInv
  <1>5. CASE resolved' = resolved \cup {SecretOf(d, pc)} /\ AfterRole /\ UNCHANGED cause
    BY <1>1, <1>3, <1>5, RolePassed
  <1>6. CASE ~(pc = "read" \/ Configured(d.credentials[pc])) /\ AfterRole /\ UNCHANGED <<resolved, cause>>
    BY <1>1, <1>6, RolePassed DEF Needed
  <1> QED
    BY <1>4, <1>5, <1>6 DEF ResolveCredential

-----------------------------------------------------------------------------
(* Opening.                                                                  *)

LEMMA RevalidateInv == IInv /\ Revalidate => IInv'
  <1> SUFFICES ASSUME IInv, Revalidate PROVE IInv'
    OBVIOUS
  <1>1. Valid(cfg, TokenSecret \in resolved)
    BY DEF IInv, ValidInv, Revalidate
  <1>2. pc' = "readers" /\ UNCHANGED <<cause, requested, cfg, resolved, at, openVars, endpoints>>
    BY <1>1 DEF Revalidate
  <1>3. Len(registry) < Len(cfg.datasources)
    <2>1. registry = <<>>
      BY DEF IInv, RegistryInv, Revalidate, Later, Stages
    <2>2. cfg.datasources \in Seq(Datasource) /\ cfg.datasources # <<>>
      BY <1>1, SeqField DEF IInv, TypeOK, Valid
    <2> QED
      BY <2>1, <2>2
  <1>4. source' = Partial("readers", cfg, Opening)
    BY <1>2, PartialEnds DEF IInv, SourceInv, Revalidate, Stages, openVars
  <1>5. version \in Versions \cup {None} /\ performanceSchema \in BOOLEAN
    BY DEF IInv, TypeOK
  <1>6. pc' \in Stages
    BY <1>2 DEF Stages
  <1> QED
    BY <1>2, <1>3, <1>4, <1>5, <1>6, StageStep DEF Revalidate, openVars

\* The source that is being opened obeys the rules of Validate.
LEMMA OpeningValid ==
  ASSUME IInv, pc \in Stages
  PROVE  /\ cfg \in Config /\ Len(registry) < Len(cfg.datasources)
         /\ Len(registry) + 1 \in DOMAIN cfg.datasources
         /\ ValidDatasource(cfg, Opening) /\ ValidLimits(cfg)
         /\ source = Partial(pc, cfg, Opening)
         /\ version \in Versions \cup {None} /\ performanceSchema \in BOOLEAN
  <1>1. /\ cfg \in Config /\ Len(registry) < Len(cfg.datasources)
        /\ version \in Versions \cup {None} /\ performanceSchema \in BOOLEAN
        /\ registry \in Seq(Opened) /\ cfg.datasources \in Seq(Datasource)
    BY SeqField DEF IInv, TypeOK
  <1>2. source = Partial(pc, cfg, Opening)
    BY DEF IInv, SourceInv
  <1>3. Valid(cfg, TokenSecret \in resolved)
    BY DEF IInv, ValidInv, Stages
  <1>4. Len(registry) + 1 \in DOMAIN cfg.datasources
    BY <1>1
  <1> QED
    BY <1>1, <1>2, <1>3, <1>4 DEF Valid, Opening

\* A pool with the account that belongs to it opens, or MySQL refuses it.
LEMMA PoolStep ==
  ASSUME IInv, pc \in Stages, NEW h \in Handles, NEW role, NEW timeout, NEW next,
         Pool(h, role, timeout, next), ~(timeout <= 0), next \in Stages, role = Final(cfg, Opening)[h],
         Done(next) = Done(pc) \cup {h},
         next = "commands" => Writable(cfg, Opening),
         next = "capability" => "enabled" \in Opening.monitoring,
         next \in Stages \ {"readers", "version"} => version \in Versions
  PROVE  IInv'
  <1>1. CASE FailOpen("mysql")
    BY <1>1, FailOpenStep DEF Stages
  <1>2. CASE /\ source' = [source EXCEPT ![h] = role] /\ pc' = next
             /\ UNCHANGED <<requested, cfg, resolved, at, registry, version, performanceSchema, endpoints, cause>>
    <2>1. source = Partial(pc, cfg, Opening) /\ Len(registry) < Len(cfg.datasources)
            /\ version \in Versions \cup {None} /\ performanceSchema \in BOOLEAN
      BY OpeningValid
    <2>2. source' = Partial(next, cfg, Opening)
      BY <1>2, <2>1 DEF Partial
    <2> QED
      BY <1>2, <2>1, <2>2, StageStep
  <1> QED
    BY <1>1, <1>2 DEF Pool

\* The same for a stage that opens no pool.
LEMMA SetStep ==
  ASSUME IInv, pc \in Stages, NEW f, NEW next, Set(f, next), next \in Stages,
         f = Partial(next, cfg, Opening),
         next \notin {"commands", "capability"} \/ (next = "capability" /\ "enabled" \in Opening.monitoring),
         next \in Stages \ {"readers", "version"} => version \in Versions
  PROVE  IInv'
  <1>1. Len(registry) < Len(cfg.datasources) /\ version \in Versions \cup {None} /\ performanceSchema \in BOOLEAN
    BY OpeningValid
  <1> QED
    BY <1>1, StageStep DEF Set

LEMMA OpenReaderInv == IInv /\ OpenReader => IInv'
  <1> SUFFICES ASSUME IInv, OpenReader PROVE IInv'
    OBVIOUS
  <1>1. pc = "readers" /\ pc \in Stages /\ Pool("readDB", "read", cfg.queryTimeout, "version")
    BY DEF OpenReader, Stages
  <1>2. ~(cfg.queryTimeout <= 0)
    BY <1>1, OpeningValid DEF ValidLimits, Config
  <1>3. "read" = Final(cfg, Opening)["readDB"]
    BY DEF Final
  <1>4. Done("version") = Done("readers") \cup {"readDB"}
    BY DEF Done
  <1>5. "version" \in Stages /\ "readDB" \in Handles
    BY DEF Stages, Handles
  <1> QED
    BY <1>1, <1>2, <1>3, <1>4, <1>5, PoolStep

LEMMA DetectVersionInv == IInv /\ DetectVersion => IInv'
  <1> SUFFICES ASSUME IInv, DetectVersion PROVE IInv'
    OBVIOUS
  <1>1. pc = "version" /\ pc \in Stages
    BY DEF DetectVersion, Stages
  <1>2. CASE FailOpen("mysql")
    BY <1>1, <1>2, FailOpenStep
  <1>3. CASE /\ \E v \in Versions : v.family # "other" /\ version' = v
             /\ pc' = "executors"
             /\ UNCHANGED <<requested, cfg, resolved, at, registry, source, performanceSchema, endpoints, cause>>
    <2>1. version' \in Versions
      BY <1>3
    <2>3. Done("executors") = Done("version")
      BY DEF Done
    <2>4. source' = Partial("executors", cfg, Opening)
      BY <1>1, <1>3, <2>3, OpeningValid DEF Partial
    <2> QED
      BY <1>1, <1>3, <2>1, <2>4, OpeningValid, StageStep DEF Stages
  <1> QED
    BY <1>2, <1>3 DEF DetectVersion

LEMMA NewReadersInv == IInv /\ NewReaders => IInv'
  <1> SUFFICES ASSUME IInv, NewReaders PROVE IInv'
    OBVIOUS
  <1>1. pc = "executors" /\ pc \in Stages
    BY DEF NewReaders, Stages
  <1>2. ~(cfg.queryTimeout < 0 \/ cfg.maxRows < 0 \/ MetadataRows(cfg) <= 0)
    <2>1. cfg.queryTimeout \in Int /\ cfg.maxRows \in Int /\ cfg.queryTimeout > 0 /\ cfg.maxRows > 0
      BY <1>1, OpeningValid DEF ValidLimits, Config
    <2> QED
      BY <2>1 DEF MetadataRows
  <1> DEFINE f == [source EXCEPT !["Query"] = source["readDB"], !["Metadata"] = source["readDB"]]
  <1>3. Set(f, "writers")
    BY <1>2 DEF NewReaders
  <1>4. f = Partial("writers", cfg, Opening)
    <2>1. Done("executors") = {"readDB"} /\ Done("writers") = {"readDB", "Query", "Metadata"}
      BY DEF Done
    <2>2. source = Partial("executors", cfg, Opening)
      BY <1>1, OpeningValid
    <2>3. "readDB" \in Handles /\ "Query" \in Handles /\ "Metadata" \in Handles
      BY DEF Handles
    <2>4. Final(cfg, Opening)["readDB"] = "read" /\ Final(cfg, Opening)["Query"] = "read"
            /\ Final(cfg, Opening)["Metadata"] = "read"
      BY DEF Final
    <2> QED
      BY <2>1, <2>2, <2>3, <2>4 DEF Partial
  <1>5. version \in Versions
    BY <1>1 DEF IInv, SourceInv
  <1> HIDE DEF f
  <1> QED
    BY <1>1, <1>3, <1>4, <1>5, SetStep DEF Stages

LEMMA OpenWriterInv == IInv /\ OpenWriter => IInv'
  <1> SUFFICES ASSUME IInv, OpenWriter PROVE IInv'
    OBVIOUS
  <1>1. pc = "writers" /\ pc \in Stages
    BY DEF OpenWriter, Stages
  <1>2. version \in Versions
    BY <1>1 DEF IInv, SourceInv
  <1>3. CASE Writable(cfg, Opening)
    <2>1. ~(cfg.queryTimeout <= 0)
      BY <1>1, OpeningValid DEF ValidLimits, Config
    <2>2. "write" = Final(cfg, Opening)["writeDB"]
      BY <1>3 DEF Final
    <2>3. Done("commands") = Done("writers") \cup {"writeDB"}
      BY DEF Done
    <2>4. "commands" \in Stages /\ "writeDB" \in Handles
      BY DEF Stages, Handles
    <2>5. Pool("writeDB", "write", cfg.queryTimeout, "commands")
      BY <1>3 DEF OpenWriter
    <2> QED
      BY <1>1, <1>2, <1>3, <2>1, <2>2, <2>3, <2>4, <2>5, PoolStep
  <1>4. CASE ~Writable(cfg, Opening)
    <2>1. source = Partial("functions", cfg, Opening)
      <3>1. Done("functions") = Done("writers") \cup {"writeDB", "Command", "Admin"}
        BY DEF Done
      <3>2. \A h \in {"writeDB", "Command", "Admin"} : Final(cfg, Opening)[h] = None
        BY <1>4 DEF Final
      <3>3. source = Partial("writers", cfg, Opening)
        BY <1>1, OpeningValid
      <3> QED
        BY <3>1, <3>2, <3>3 DEF Partial
    <2>2. Set(source, "functions")
      BY <1>4 DEF OpenWriter
    <2> QED
      BY <1>1, <1>2, <2>1, <2>2, SetStep DEF Stages
  <1> QED
    BY <1>3, <1>4

LEMMA NewWritersInv == IInv /\ NewWriters => IInv'
  <1> SUFFICES ASSUME IInv, NewWriters PROVE IInv'
    OBVIOUS
  <1>1. pc = "commands" /\ pc \in Stages
    BY DEF NewWriters, Stages
  <1>2. version \in Versions /\ Writable(cfg, Opening)
    BY <1>1 DEF IInv, SourceInv
  <1> DEFINE command == IF Commands(cfg) THEN source["writeDB"] ELSE None
             admin == IF "admin" \in cfg.features THEN source["writeDB"] ELSE None
             f == [source EXCEPT !["Command"] = command, !["Admin"] = admin]
  <1>3. Set(f, "functions")
    BY DEF NewWriters
  <1>4. f = Partial("functions", cfg, Opening)
    <2>1. Done("functions") = Done("commands") \cup {"Command", "Admin"} /\ "writeDB" \in Done("commands")
      BY DEF Done
    <2>2. source = Partial("commands", cfg, Opening)
      BY <1>1, OpeningValid
    <2>3. "writeDB" \in Handles /\ "Command" \in Handles /\ "Admin" \in Handles
      BY DEF Handles
    <2>4. source["writeDB"] = "write"
      BY <1>2, <2>1, <2>2, <2>3 DEF Partial, Final
    <2>5. command = Final(cfg, Opening)["Command"] /\ admin = Final(cfg, Opening)["Admin"]
      BY <1>2, <2>4 DEF Final
    <2> HIDE DEF command, admin
    <2> QED
      BY <2>1, <2>2, <2>3, <2>5 DEF Partial
  <1> HIDE DEF f
  <1> QED
    BY <1>1, <1>2, <1>3, <1>4, SetStep DEF Stages

LEMMA NewFunctionsInv == IInv /\ NewFunctions => IInv'
  <1> SUFFICES ASSUME IInv, NewFunctions PROVE IInv'
    OBVIOUS
  <1>1. pc = "functions" /\ pc \in Stages
    BY DEF NewFunctions, Stages
  <1>2. version \in Versions
    BY <1>1 DEF IInv, SourceInv
  <1> DEFINE functions == Opening.functions
             writer == IF ReadOnly(cfg, Opening) \/ "function_write" \notin cfg.features
                       THEN None ELSE source["writeDB"]
             Key(n) == <<functions[n].schema, functions[n].routine>>
             f == [source EXCEPT !["FunctionsReader"] = source["readDB"], !["FunctionsWriter"] = writer]
  <1>3. /\ Done("monitoring") = Done("functions") \cup {"FunctionsReader", "FunctionsWriter"}
        /\ "writeDB" \in Done("functions") /\ "readDB" \in Done("functions")
    BY DEF Done
  <1>4. source = Partial("functions", cfg, Opening)
    BY <1>1, OpeningValid
  <1>5. {"readDB", "writeDB", "FunctionsReader", "FunctionsWriter"} \subseteq Handles
    BY DEF Handles
  <1>6. source["readDB"] = "read" /\ source["writeDB"] = IF Writable(cfg, Opening) THEN "write" ELSE None
    BY <1>3, <1>4, <1>5 DEF Partial, Final
  <1>7. writer = Final(cfg, Opening)["FunctionsWriter"]
    BY <1>6 DEF Final, Writable
  <1>8. f = Partial("monitoring", cfg, Opening)
    <2>1. source["readDB"] = Final(cfg, Opening)["FunctionsReader"]
      BY <1>6 DEF Final
    <2> HIDE DEF writer
    <2> QED
      BY <1>3, <1>4, <1>5, <1>7, <2>1 DEF Partial
  <1>9. ~(\/ \E n \in DOMAIN functions :
               \/ functions[n].effect = ""
               \/ functions[n].effect = "write" /\ writer = None
          \/ \E m, n \in DOMAIN functions : m # n /\ Key(m) = Key(n))
    <2>1. ValidFunctions(cfg, Opening)
      BY <1>1, OpeningValid DEF ValidDatasource
    <2>2. ASSUME NEW n \in DOMAIN functions, functions[n].effect = "write"
          PROVE  writer # None
      <3>1. "function_write" \in cfg.features /\ ~ReadOnly(cfg, Opening)
        BY <2>1, <2>2 DEF ValidFunctions
      <3>2. writer = "write"
        BY <1>6, <3>1 DEF Writable
      <3> QED
        BY <3>2 DEF Roles
    <2> HIDE DEF writer
    <2> QED
      BY <2>1, <2>2 DEF ValidFunctions
  <1>10. Set(f, "monitoring")
    BY <1>9 DEF NewFunctions
  <1> HIDE DEF f
  <1> QED
    BY <1>1, <1>2, <1>8, <1>10, SetStep DEF Stages

LEMMA OpenMonitorInv == IInv /\ OpenMonitor => IInv'
  <1> SUFFICES ASSUME IInv, OpenMonitor PROVE IInv'
    OBVIOUS
  <1>1. pc = "monitoring" /\ pc \in Stages
    BY DEF OpenMonitor, Stages
  <1>2. version \in Versions
    BY <1>1 DEF IInv, SourceInv
  <1>3. source = Partial("monitoring", cfg, Opening)
    BY <1>1, OpeningValid
  <1>4. /\ Done("capability") = Done("monitoring") \cup {"monitorDB"}
        /\ Done("take") = Done("capability") \cup {"Monitor"} /\ "readDB" \in Done("monitoring")
    BY DEF Done
  <1>5. CASE "enabled" \notin Opening.monitoring
    <2>1. Final(cfg, Opening)["monitorDB"] = None /\ Final(cfg, Opening)["Monitor"] = None
      BY <1>5 DEF Final
    <2>2. source = Partial("take", cfg, Opening)
      BY <1>3, <1>4, <2>1 DEF Partial
    <2>3. Set(source, "take")
      BY <1>5 DEF OpenMonitor
    <2> QED
      BY <1>1, <1>2, <2>2, <2>3, SetStep DEF Stages
  <1>6. CASE "enabled" \in Opening.monitoring /\ Configured(Opening.credentials["monitor"])
    <2>1. ~(Opening.monitorTimeout <= 0)
      <3>1. Opening \in Datasource
        BY <1>1, OpeningValid, SeqField DEF Opening
      <3> QED
        BY <1>1, <3>1, OpeningValid DEF ValidDatasource, ValidMonitoring, Datasource
    <2>2. "monitor" = Final(cfg, Opening)["monitorDB"]
      BY <1>6 DEF Final
    <2>3. Pool("monitorDB", "monitor", Opening.monitorTimeout, "capability")
      BY <1>6 DEF OpenMonitor
    <2>4. "capability" \in Stages /\ "monitorDB" \in Handles
      BY DEF Stages, Handles
    <2> QED
      BY <1>1, <1>2, <1>4, <1>6, <2>1, <2>2, <2>3, <2>4, PoolStep
  <1>7. CASE "enabled" \in Opening.monitoring /\ ~Configured(Opening.credentials["monitor"])
    <2> DEFINE f == [source EXCEPT !["monitorDB"] = source["readDB"]]
    <2>1. "readDB" \in Handles /\ "monitorDB" \in Handles
      BY DEF Handles
    <2>2. Final(cfg, Opening)["monitorDB"] = "read" /\ Final(cfg, Opening)["readDB"] = "read"
      BY <1>7 DEF Final
    <2>3. f = Partial("capability", cfg, Opening)
      BY <1>3, <1>4, <2>1, <2>2 DEF Partial
    <2>4. Set(f, "capability")
      BY <1>7 DEF OpenMonitor
    <2> HIDE DEF f
    <2> QED
      BY <1>1, <1>2, <1>7, <2>3, <2>4, SetStep DEF Stages
  <1> QED
    BY <1>5, <1>6, <1>7

LEMMA NewMonitorInv == IInv /\ NewMonitor => IInv'
  <1> SUFFICES ASSUME IInv, NewMonitor PROVE IInv'
    OBVIOUS
  <1>1. pc = "capability" /\ pc \in Stages
    BY DEF NewMonitor, Stages
  <1>2. CASE FailOpen("mysql")
    BY <1>1, <1>2, FailOpenStep
  <1>3. CASE /\ performanceSchema' \in BOOLEAN
             /\ source' = [source EXCEPT !["Monitor"] = source["monitorDB"]]
             /\ pc' = "take"
             /\ UNCHANGED <<requested, cfg, resolved, at, registry, version, endpoints, cause>>
    <2>1. version \in Versions
      BY <1>1 DEF IInv, SourceInv
    <2>2. source' = Partial("take", cfg, Opening)
      <3>1. Done("take") = Done("capability") \cup {"Monitor"} /\ "monitorDB" \in Done("capability")
        BY DEF Done
      <3>2. "monitorDB" \in Handles /\ "Monitor" \in Handles
        BY DEF Handles
      <3>3. Final(cfg, Opening)["monitorDB"] = Final(cfg, Opening)["Monitor"]
        BY DEF Final
      <3>4. source = Partial("capability", cfg, Opening)
        BY <1>1, OpeningValid
      <3> QED
        BY <1>3, <3>1, <3>2, <3>3, <3>4 DEF Partial
    <2> QED
      BY <1>1, <1>3, <2>1, <2>2, OpeningValid, StageStep DEF Stages
  <1> QED
    BY <1>2, <1>3 DEF NewMonitor

\* A source that is open is the next of the registry.
LEMMA TakeInv == IInv /\ Take => IInv'
  <1> SUFFICES ASSUME IInv, Take PROVE IInv'
    OBVIOUS
  <1> DEFINE opened == [handles |-> source, version |-> version, performanceSchema |-> performanceSchema]
             k == Len(registry)
  <1>1. /\ pc = "take" /\ pc \in Stages
        /\ registry' = Append(registry, opened) /\ source' = NoSource
        /\ pc' = IF Len(registry') = Len(cfg.datasources) THEN "register" ELSE "readers"
        /\ UNCHANGED <<requested, cfg, resolved, at, version, performanceSchema, endpoints, cause>>
    BY DEF Take, Stages
  <1>2. /\ cfg \in Config /\ k < Len(cfg.datasources) /\ k + 1 \in DOMAIN cfg.datasources
        /\ source = Final(cfg, Opening)
        /\ registry \in Seq(Opened) /\ cfg.datasources \in Seq(Datasource) /\ k \in Nat
    BY <1>1, OpeningValid, PartialEnds, SeqField DEF IInv, TypeOK
  <1>3. opened \in Opened /\ opened.handles = source
    <2>1. version \in Versions
      BY <1>1 DEF IInv, SourceInv
    <2>2. source \in [Handles -> HandleValues] /\ performanceSchema \in BOOLEAN
      BY DEF IInv, TypeOK
    <2> QED
      BY <2>1, <2>2 DEF Opened
  <1> HIDE DEF opened
  <1>4. /\ registry' \in Seq(Opened) /\ Len(registry') = k + 1
        /\ \A n \in DOMAIN registry : registry'[n] = registry[n]
        /\ registry'[k + 1] = opened
        /\ DOMAIN registry' = 1..(k + 1) /\ DOMAIN registry = 1..k
    BY <1>1, <1>2, <1>3
  <1>5. pc' \in {"register", "readers"} /\ (pc' = "register" <=> k + 1 = Len(cfg.datasources))
    BY <1>1, <1>4
  <1>6. endpoints = <<>>
    BY <1>1 DEF IInv, EndpointsInv
  <1>7. TypeOK'
    <2>1. NoSource \in [Handles -> HandleValues]
      BY DEF NoSource, HandleValues
    <2>2. Len(cfg.datasources) \in Nat
      BY <1>2
    <2>3. Len(registry') <= Len(cfg.datasources) /\ (pc' = "readers" => Len(registry') < Len(cfg.datasources))
      BY <1>2, <1>4, <1>5, <2>2
    <2>4. DOMAIN endpoints \subseteq DOMAIN registry'
      BY <1>6
    <2> QED
      BY <1>1, <1>4, <1>5, <2>1, <2>3, <2>4 DEF IInv, TypeOK, PCs, Stages
  <1>8. ValidInv' /\ ServedInv' /\ SecretInv'
    BY <1>1, <1>5 DEF IInv, ValidInv, ServedInv, SecretInv, Resolved, Later, Stages, Roles
  <1>9. SourceInv'
    <2>1. Partial("readers", cfg, Opening') = NoSource
      BY PartialEnds
    <2>2. cfg' = cfg /\ source' = NoSource
      BY <1>1
    <2>3. CASE pc' = "readers"
      BY <2>1, <2>2, <2>3 DEF SourceInv, Stages
    <2>4. CASE pc' = "register"
      BY <2>2, <2>4 DEF SourceInv, Stages
    <2> QED
      BY <1>5, <2>3, <2>4
  <1>10. RegistryInv'
    <2>1. opened.handles = Final(cfg, cfg.datasources[k + 1])
      BY <1>2, <1>3 DEF Opening
    <2>2. \A n \in 1..k : registry[n].handles = Final(cfg, cfg.datasources[n])
      BY <1>4 DEF IInv, RegistryInv
    <2>3. \A n \in 1..(k + 1) : n \in 1..k \/ n = k + 1
      BY <1>2
    <2>4. \A n \in DOMAIN registry' : registry'[n].handles = Final(cfg, cfg.datasources[n])
      BY <1>4, <2>1, <2>2, <2>3
    <2> QED
      BY <1>1, <1>4, <1>5, <2>4 DEF RegistryInv, Later, Stages
  <1>11. EndpointsInv'
    BY <1>1, <1>5, <1>6 DEF EndpointsInv
  <1>12. CauseInv' /\ AcceptedStarts' /\ OnlyServedSecrets'
    BY <1>1, CauseKept
  <1> QED
    BY <1>7, <1>8, <1>9, <1>10, <1>11, <1>12 DEF IInv

LEMMA RegisterInv == IInv /\ Register => IInv'
  <1> SUFFICES ASSUME IInv, Register PROVE IInv'
    OBVIOUS
  <1>1. ~(\E n \in DOMAIN registry : None \in {registry[n].handles["Query"], registry[n].handles["Metadata"]})
    <2>1. \A n \in DOMAIN registry : registry[n].handles = Final(cfg, cfg.datasources[n])
      BY DEF IInv, RegistryInv
    <2>2. \A c, d : Final(c, d)["Query"] = "read" /\ Final(c, d)["Metadata"] = "read" /\ None # "read"
      BY DEF Final, Roles
    <2> QED
      BY <2>1, <2>2
  <1>2. /\ pc = "register" /\ pc' = "serving"
        /\ endpoints' = [n \in DOMAIN registry |-> Endpoint(registry[n], cfg, cfg.datasources[n])]
        /\ UNCHANGED <<requested, cfg, resolved, at, openVars, cause>>
    BY <1>1 DEF Register
  <1>3. TypeOK'
    BY <1>2 DEF IInv, TypeOK, PCs, Stages, openVars
  <1>4. ValidInv' /\ ServedInv' /\ SecretInv'
    BY <1>2 DEF IInv, ValidInv, ServedInv, SecretInv, Resolved, Later, Stages, Roles
  <1>5. SourceInv' /\ RegistryInv'
    BY <1>2 DEF IInv, SourceInv, RegistryInv, Later, Stages, openVars
  <1>6. EndpointsInv'
    BY <1>2 DEF EndpointsInv, openVars
  <1>7. CauseInv' /\ AcceptedStarts' /\ OnlyServedSecrets'
    BY <1>2, CauseKept
  <1> QED
    BY <1>3, <1>4, <1>5, <1>6, <1>7 DEF IInv

-----------------------------------------------------------------------------
(* The theorems.                                                             *)

\* Every step keeps the invariant, for every set of configurations.
THEOREM Inductive == Spec => []IInv
  <1>1. IInv /\ [Next]_vars => IInv'
    <2> SUFFICES ASSUME IInv, [Next]_vars PROVE IInv'
      OBVIOUS
    <2>1. CASE UNCHANGED vars
      BY <2>1 DEF vars, openVars, IInv, TypeOK, ValidInv, ServedInv, SecretInv, Resolved, SourceInv, Opening,
                  RegistryInv, EndpointsInv, CauseInv, AcceptedStarts, OnlyServedSecrets
    <2>2. CASE Next
      BY <2>2, LoadInv, SelectInv, ResolveTokenInv, ResolveCredentialInv, RevalidateInv, OpenReaderInv,
         DetectVersionInv, NewReadersInv, OpenWriterInv, NewWritersInv, NewFunctionsInv, OpenMonitorInv,
         NewMonitorInv, TakeInv, RegisterInv DEF Next
    <2> QED
      BY <2>1, <2>2
  <1> QED
    BY <1>1, InitInv, PTL DEF Spec

\* Every variable keeps its type.
THEOREM TypeCorrect == Spec => []TypeOK
  BY Inductive, PTL DEF IInv

\* A configuration that Validate accepts never stops the server later: neither
\* the second Validate, with the secrets, nor a constructor refuses it.
THEOREM AcceptedStartsAlways == Spec => []AcceptedStarts
  BY Inductive, PTL DEF IInv

\* The secret of a source that is not served cannot stop the server.
THEOREM OnlyServedSecretsAlways == Spec => []OnlyServedSecrets
  BY Inductive, PTL DEF IInv

\* Every account that openSource uses is one that the rules require to be there.
LEMMA AccountsNeeded ==
  ASSUME NEW c, NEW d, ValidWriter(c, d), NEW h \in Handles, Final(c, d)[h] # None
  PROVE  Final(c, d)[h] \in Roles /\ Needed(d, Final(c, d)[h])
  BY DEF Final, Handles, Needed, ValidWriter, Writable, Roles

\* A pool is only opened with an account that is configured and whose password
\* is known.
THEOREM OpenedWithSecretAlways == Spec => []OpenedWithSecret
  <1>1. IInv => OpenedWithSecret
    <2> SUFFICES ASSUME IInv, NEW n \in 1..Len(cfg.datasources),
                        NEW role \in IF n <= Len(registry) THEN Accounts(registry[n].handles)
                                     ELSE IF n = Len(registry) + 1 THEN Accounts(source) ELSE {}
                 PROVE  /\ cfg.datasources[n].credentials[role].username
                        /\ SecretOf(cfg.datasources[n], role) \in resolved
      BY DEF OpenedWithSecret
    <2>0. PICK h \in Handles :
             /\ role # None
             /\ \/ n <= Len(registry) /\ role = registry[n].handles[h]
                \/ n = Len(registry) + 1 /\ role = source[h]
      BY DEF Accounts
    <2> DEFINE d == cfg.datasources[n]
    <2>1. cfg.datasources \in Seq(Datasource) /\ registry \in Seq(Opened) /\ n \in DOMAIN cfg.datasources
      BY SeqField DEF IInv, TypeOK
    <2>2. role = Final(cfg, d)[h] /\ pc \in Later
      <3>1. CASE n <= Len(registry) /\ role = registry[n].handles[h]
        <4>1. n \in DOMAIN registry /\ registry # <<>>
          BY <2>1, <3>1
        <4> QED
          BY <3>1, <4>1 DEF IInv, RegistryInv
      <3>2. CASE n = Len(registry) + 1 /\ role = source[h]
        <4>1. source # NoSource
          BY <2>0, <3>2 DEF NoSource
        <4>2. pc \in Stages /\ source = Partial(pc, cfg, Opening)
          BY <4>1 DEF IInv, SourceInv
        <4>3. role = Final(cfg, Opening)[h]
          BY <2>0, <3>2, <4>2 DEF Partial
        <4> QED
          BY <3>2, <4>2, <4>3 DEF Opening, Later
      <3> QED
        BY <2>0, <3>1, <3>2
    <2>3. ValidDatasource(cfg, d)
      <3>1. Valid(cfg, TokenSecret \in resolved)
        BY <2>2 DEF IInv, ValidInv, Later, Stages
      <3> QED
        BY <2>1, <3>1 DEF Valid
    <2>4. role \in Roles /\ Needed(d, role)
      BY <2>0, <2>2, <2>3, AccountsNeeded DEF ValidDatasource
    <2>5. SecretOf(d, role) \in resolved
      BY <2>1, <2>2, <2>4 DEF IInv, SecretInv, Resolved
    <2>6. d.credentials[role].username
      BY <2>3, <2>4 DEF ValidDatasource, ValidCredential, Needed
    <2> QED
      BY <2>5, <2>6
  <1> QED
    BY <1>1, Inductive, PTL

\* What writes needs a source that is not read-only and its own feature; a tool
\* that says it only reads has no account that writes.
THEOREM WriteIsGatedAlways == Spec => []WriteIsGated
  <1>1. IInv => WriteIsGated
    <2> SUFFICES ASSUME IInv, NEW n \in DOMAIN endpoints, NEW tool \in endpoints[n].tools
                 PROVE  LET d == cfg.datasources[n]
                        IN /\ tool.accounts \subseteq Roles
                           /\ tool.readOnlyHint <=> "write" \notin tool.accounts
                           /\ "write" \in tool.accounts =>
                                 /\ ~cfg.readOnly /\ ~d.readOnly
                                 /\ ToolNeeds(tool) \cap cfg.features # {}
      BY DEF WriteIsGated
    <2> DEFINE d == cfg.datasources[n]
               h == registry[n].handles
    <2>1. /\ n \in DOMAIN registry /\ n \in DOMAIN cfg.datasources
          /\ endpoints[n] = Endpoint(registry[n], cfg, d) /\ pc = "serving"
      <3>1. endpoints # <<>>
        OBVIOUS
      <3>2. pc = "serving" /\ endpoints = [m \in DOMAIN registry |-> Endpoint(registry[m], cfg, cfg.datasources[m])]
        BY <3>1 DEF IInv, EndpointsInv
      <3>3. Len(registry) = Len(cfg.datasources) /\ registry \in Seq(Opened) /\ cfg.datasources \in Seq(Datasource)
        BY <3>2, SeqField DEF IInv, RegistryInv, TypeOK
      <3> QED
        BY <3>2, <3>3
    <2>2. h = Final(cfg, d)
      BY <2>1 DEF IInv, RegistryInv
    <2>3. d \in Datasource /\ ValidFunctions(cfg, d)
      <3>1. Valid(cfg, TokenSecret \in resolved)
        BY <2>1 DEF IInv, ValidInv
      <3> QED
        BY <2>1, <3>1, SeqField DEF IInv, TypeOK, Valid, ValidDatasource
    <2>4. \A x \in {"Query", "Metadata", "FunctionsReader"} : h[x] = "read"
      BY <2>2 DEF Final
    <2>5. h["Monitor"] \in {None, "read", "monitor"}
      BY <2>2 DEF Final
    <2>6. None \notin Roles /\ Roles = {"read", "write", "monitor"}
      BY DEF Roles
    <2> HIDE DEF d, h
    <2>7. CASE tool \in QueryTools(h)
      <3>1. CASE tool = Tool("info", TRUE, {})
        BY <3>1 DEF Tool, ToolNeeds
      <3>2. CASE \E name \in {"query", "explain"} : tool = Tool(name, TRUE, {h["Query"]})
        <4>1. tool.readOnlyHint = TRUE /\ tool.accounts = {"read"}
          BY <2>4, <3>2 DEF Tool
        <4> QED
          BY <2>6, <4>1
      <3>3. CASE \E account \in {h["Command"]} \ {None} : tool = Tool("execute", FALSE, {account})
        <4>1. h["Command"] = "write" /\ Writable(cfg, d) /\ Commands(cfg)
          BY <2>2, <3>3 DEF Final
        <4>2. tool.readOnlyHint = FALSE /\ tool.accounts = {"write"} /\ tool.name = "execute"
          BY <3>3, <4>1 DEF Tool
        <4>3. ToolNeeds(tool) = {"dml", "ddl"}
          BY <4>2 DEF ToolNeeds
        <4>4. ToolNeeds(tool) \cap cfg.features # {}
          BY <4>1, <4>3 DEF Commands
        <4> QED
          BY <2>6, <4>1, <4>2, <4>4 DEF Writable, ReadOnly, d
      <3> QED
        BY <2>7, <3>1, <3>2, <3>3 DEF QueryTools
    <2>8. CASE tool \in MetadataTools(h)
      <3>1. tool.readOnlyHint = TRUE /\ tool.accounts = {"read"}
        BY <2>4, <2>8 DEF MetadataTools, Tool
      <3> QED
        BY <2>6, <3>1
    <2>9. CASE tool \in MonitorTools(registry[n], d)
      <3>1. tool.readOnlyHint = TRUE /\ tool.accounts = {h["Monitor"]} /\ h["Monitor"] # None
        BY <2>9 DEF MonitorTools, Tool, h
      <3> QED
        BY <2>5, <2>6, <3>1
    <2>10. CASE tool \in FunctionTools(h, d)
      <3>1. CASE \E name \in {"function_list", "function_describe"} : tool = Tool(name, TRUE, {h["FunctionsReader"]})
        <4>1. tool.readOnlyHint = TRUE /\ tool.accounts = {"read"}
          BY <2>4, <3>1 DEF Tool
        <4> QED
          BY <2>6, <4>1
      <3>2. CASE tool = Tool("function_call", ~HasWriteFunction(d),
                             {IF effect = "write" THEN h["FunctionsWriter"] ELSE h["FunctionsReader"]
                                : effect \in Effects(d)})
        <4>1. /\ tool.readOnlyHint = ~HasWriteFunction(d) /\ tool.name = "function_call"
              /\ tool.accounts = {IF effect = "write" THEN h["FunctionsWriter"] ELSE h["FunctionsReader"]
                                     : effect \in Effects(d)}
          BY <3>2 DEF Tool
        <4>2. CASE ~HasWriteFunction(d)
          <5>1. \A x \in tool.accounts : x = "read"
            BY <2>4, <4>1, <4>2 DEF HasWriteFunction
          <5>2. tool.readOnlyHint
            BY <4>1, <4>2
          <5> QED
            BY <2>6, <5>1, <5>2
        <4>3. CASE HasWriteFunction(d)
          <5>1. "function_write" \in cfg.features /\ ~ReadOnly(cfg, d)
            BY <2>3, <4>3 DEF HasWriteFunction, Effects, ValidFunctions
          <5>2. h["FunctionsWriter"] = "write"
            BY <2>2, <5>1 DEF Final, Writable
          <5>3. "write" \in tool.accounts /\ \A x \in tool.accounts : x \in {"read", "write"}
            BY <2>4, <4>1, <4>3, <5>2 DEF HasWriteFunction
          <5>4. ~tool.readOnlyHint
            BY <4>1, <4>3
          <5>5. ToolNeeds(tool) = {"function_write"}
            BY <4>1 DEF ToolNeeds
          <5> QED
            BY <2>6, <5>1, <5>3, <5>4, <5>5 DEF ReadOnly, d
        <4> QED
          BY <4>2, <4>3
      <3> QED
        BY <2>10, <3>1, <3>2 DEF FunctionTools
    <2>11. CASE tool \in AdminTools(h)
      <3>1. h["Admin"] = "write" /\ Writable(cfg, d) /\ "admin" \in cfg.features
        BY <2>2, <2>11 DEF AdminTools, Final
      <3>2. tool.readOnlyHint = FALSE /\ tool.accounts = {"write"} /\ tool.name = "kill_query"
        BY <2>11, <3>1 DEF AdminTools, Tool
      <3>3. ToolNeeds(tool) = {"admin"}
        BY <3>2 DEF ToolNeeds
      <3> QED
        BY <2>6, <3>1, <3>2, <3>3 DEF Writable, ReadOnly, d
    <2>12. tool \in QueryTools(h) \cup MetadataTools(h) \cup MonitorTools(registry[n], d)
                     \cup FunctionTools(h, d) \cup AdminTools(h)
      <3>1. endpoints[n].tools = QueryTools(h) \cup MetadataTools(h) \cup MonitorTools(registry[n], d)
                                   \cup FunctionTools(h, d) \cup AdminTools(h)
        BY <2>1 DEF Endpoint, d, h
      <3> QED
        BY <3>1
    <2> QED
      BY <2>7, <2>8, <2>9, <2>10, <2>11, <2>12 DEF d
  <1> QED
    BY <1>1, Inductive, PTL

-----------------------------------------------------------------------------
(* The tools of a source.                                                    *)

NamesOf(tools) == {tool.name : tool \in tools}
WritersOf(tools) == {tool.name : tool \in {t \in tools : ~t.readOnlyHint}}

\* Tools that only read, and one that writes if there is a handle for it.
Readers(names, accounts) == {Tool(name, TRUE, accounts) : name \in names}
Writer(name, handle) == {Tool(name, FALSE, {account}) : account \in {handle} \ {None}}

LEMMA NamesOfUnion ==
  ASSUME NEW S, NEW T
  PROVE  /\ NamesOf(S \cup T) = NamesOf(S) \cup NamesOf(T)
         /\ WritersOf(S \cup T) = WritersOf(S) \cup WritersOf(T)
  <1>1. ASSUME NEW x
        PROVE  /\ x \in NamesOf(S \cup T) <=> x \in NamesOf(S) \/ x \in NamesOf(T)
               /\ x \in WritersOf(S \cup T) <=> x \in WritersOf(S) \/ x \in WritersOf(T)
    BY Zenon DEF NamesOf, WritersOf
  <1> QED
    BY <1>1, Zenon

LEMMA ReadersNamed ==
  ASSUME NEW N, NEW accounts
  PROVE  NamesOf(Readers(N, accounts)) = N /\ WritersOf(Readers(N, accounts)) = {}
  <1>1. \A t \in Readers(N, accounts) : t.name \in N /\ t.readOnlyHint = TRUE
    BY DEF Readers, Tool
  <1>2. \A x \in N : \E t \in Readers(N, accounts) : t.name = x
    <2> TAKE x \in N
    <2>1. Tool(x, TRUE, accounts) \in Readers(N, accounts) /\ Tool(x, TRUE, accounts).name = x
      BY DEF Readers, Tool
    <2> QED
      BY <2>1
  <1> QED
    BY <1>1, <1>2, Zenon DEF NamesOf, WritersOf

LEMMA WriterNamed ==
  ASSUME NEW name, NEW handle
  PROVE  /\ NamesOf(Writer(name, handle)) = IF handle = None THEN {} ELSE {name}
         /\ WritersOf(Writer(name, handle)) = IF handle = None THEN {} ELSE {name}
  <1>1. CASE handle = None
    <2>1. Writer(name, handle) = {}
      BY <1>1 DEF Writer
    <2> QED
      BY <1>1, <2>1 DEF NamesOf, WritersOf
  <1>2. CASE handle # None
    <2>1. Writer(name, handle) = {Tool(name, FALSE, {handle})}
      BY <1>2 DEF Writer
    <2>2. Tool(name, FALSE, {handle}).name = name /\ Tool(name, FALSE, {handle}).readOnlyHint = FALSE
      BY DEF Tool
    <2>3. NamesOf(Writer(name, handle)) = {name} /\ WritersOf(Writer(name, handle)) = {name}
      BY <2>1, <2>2 DEF NamesOf, WritersOf
    <2> QED
      BY <1>2, <2>3
  <1> QED
    BY <1>1, <1>2

\* What a client sees of a source follows from its handles.
LEMMA EndpointNames ==
  ASSUME NEW o, NEW c, NEW d
  PROVE  LET h == o.handles
             e == Endpoint(o, c, d)
             Given(condition, names) == IF condition THEN names ELSE {}
         IN /\ NamesOf(e.tools) =
                 {"info", "query", "explain", "schemas", "tables", "describe_table", "indexes", "constraints"}
                 \cup Given(h["Command"] # None, {"execute"})
                 \cup Given(h["Admin"] # None, {"kill_query"})
                 \cup Given(h["Monitor"] # None,
                        {"overview", "storage"}
                        \cup (d.monitoring \cap {"sessions", "replication", "innodb_status"})
                        \cup (IF SupportsLocks(o) THEN d.monitoring \cap {"locks"} ELSE {})
                        \cup (IF o.performanceSchema THEN d.monitoring \cap {"top_queries"} ELSE {}))
                 \cup Given(d.functions # <<>>, {"function_list", "function_describe", "function_call"})
            /\ WritersOf(e.tools) =
                 Given(h["Command"] # None, {"execute"})
                 \cup Given(h["Admin"] # None, {"kill_query"})
                 \cup Given(d.functions # <<>> /\ HasWriteFunction(d), {"function_call"})
            /\ e.info = Info(h, c, d)
  <1> DEFINE h == o.handles
             e == Endpoint(o, c, d)
             Given(condition, names) == IF condition THEN names ELSE {}
             Monitored == {"overview", "storage"}
                        \cup (d.monitoring \cap {"sessions", "replication", "innodb_status"})
                        \cup (IF SupportsLocks(o) THEN d.monitoring \cap {"locks"} ELSE {})
                        \cup (IF o.performanceSchema THEN d.monitoring \cap {"top_queries"} ELSE {})
  <1>1. /\ NamesOf(QueryTools(h)) = {"info", "query", "explain"} \cup Given(h["Command"] # None, {"execute"})
        /\ WritersOf(QueryTools(h)) = Given(h["Command"] # None, {"execute"})
    <2> DEFINE Q == Readers({"query", "explain"}, {h["Query"]})
               W == Writer("execute", h["Command"])
               I == Readers({"info"}, {})
    <2>1. NamesOf(Q) = {"query", "explain"} /\ WritersOf(Q) = {}
      BY ReadersNamed
    <2>2. NamesOf(W) = Given(h["Command"] # None, {"execute"}) /\ WritersOf(W) = NamesOf(W)
      BY WriterNamed
    <2>3. NamesOf(I) = {"info"} /\ WritersOf(I) = {}
      BY ReadersNamed
    <2>4. QueryTools(h) = (I \cup Q) \cup W
      <3>1. I = {Tool("info", TRUE, {})}
        BY DEF Readers
      <3> QED
        BY <3>1, Zenon DEF QueryTools, Readers, Writer
    <2> HIDE DEF Q, W, I, h, Given
    <2>5. /\ NamesOf(I \cup Q) = NamesOf(I) \cup NamesOf(Q)
          /\ WritersOf(I \cup Q) = WritersOf(I) \cup WritersOf(Q)
      BY NamesOfUnion
    <2>6. /\ NamesOf((I \cup Q) \cup W) = NamesOf(I \cup Q) \cup NamesOf(W)
          /\ WritersOf((I \cup Q) \cup W) = WritersOf(I \cup Q) \cup WritersOf(W)
      BY NamesOfUnion
    <2> QED
      BY <2>1, <2>2, <2>3, <2>4, <2>5, <2>6
  <1>2. /\ NamesOf(MetadataTools(h)) = {"schemas", "tables", "describe_table", "indexes", "constraints"}
        /\ WritersOf(MetadataTools(h)) = {}
    <2>1. MetadataTools(h) =
            Readers({"schemas", "tables", "describe_table", "indexes", "constraints"}, {h["Metadata"]})
      BY Zenon DEF MetadataTools, Readers
    <2> QED
      BY <2>1, ReadersNamed
  <1>3. /\ NamesOf(MonitorTools(o, d)) = Given(h["Monitor"] # None, Monitored)
        /\ WritersOf(MonitorTools(o, d)) = {}
    <2>1. MonitorTools(o, d) = Readers(Given(h["Monitor"] # None, Monitored), {h["Monitor"]})
      <3>1. Given(h["Monitor"] # None, Monitored) = IF h["Monitor"] = None THEN {} ELSE Monitored
        OBVIOUS
      <3> QED
        BY <3>1, Zenon DEF MonitorTools, Readers
    <2> HIDE DEF Given, Monitored, h
    <2> QED
      BY <2>1, ReadersNamed
  <1>4. /\ NamesOf(FunctionTools(h, d)) =
             Given(d.functions # <<>>, {"function_list", "function_describe", "function_call"})
        /\ WritersOf(FunctionTools(h, d)) =
             Given(d.functions # <<>> /\ HasWriteFunction(d), {"function_call"})
    <2> DEFINE R == Readers({"function_list", "function_describe"}, {h["FunctionsReader"]})
               accounts == {IF effect = "write" THEN h["FunctionsWriter"] ELSE h["FunctionsReader"]
                              : effect \in Effects(d)}
               C == {Tool("function_call", ~HasWriteFunction(d), accounts)}
    <2>1. NamesOf(R) = {"function_list", "function_describe"} /\ WritersOf(R) = {}
      BY ReadersNamed
    <2>2. NamesOf(C) = {"function_call"} /\ WritersOf(C) = Given(HasWriteFunction(d), {"function_call"})
      <3> DEFINE t == Tool("function_call", ~HasWriteFunction(d), accounts)
      <3>1. t.name = "function_call" /\ (~t.readOnlyHint <=> HasWriteFunction(d))
        BY DEF HasWriteFunction, Tool
      <3>2. C = {t}
        OBVIOUS
      <3> HIDE DEF t, C
      <3>3. CASE HasWriteFunction(d)
        BY <3>1, <3>2, <3>3 DEF NamesOf, WritersOf
      <3>4. CASE ~HasWriteFunction(d)
        BY <3>1, <3>2, <3>4 DEF NamesOf, WritersOf
      <3> QED
        BY <3>3, <3>4
    <2>3. FunctionTools(h, d) = IF d.functions = <<>> THEN {} ELSE R \cup C
      BY Zenon DEF FunctionTools, Readers
    <2>4. NamesOf({}) = {} /\ WritersOf({}) = {}
      BY DEF NamesOf, WritersOf
    <2> HIDE DEF R, C, h
    <2>5. NamesOf(R \cup C) = NamesOf(R) \cup NamesOf(C) /\ WritersOf(R \cup C) = WritersOf(R) \cup WritersOf(C)
      BY NamesOfUnion
    <2> QED
      BY <2>1, <2>2, <2>3, <2>4, <2>5
  <1>5. /\ NamesOf(AdminTools(h)) = Given(h["Admin"] # None, {"kill_query"})
        /\ WritersOf(AdminTools(h)) = Given(h["Admin"] # None, {"kill_query"})
    <2>1. AdminTools(h) = Writer("kill_query", h["Admin"])
      BY Zenon DEF AdminTools, Writer
    <2> DEFINE w == h["Admin"]
    <2> HIDE DEF w
    <2>2. /\ NamesOf(Writer("kill_query", w)) = Given(w # None, {"kill_query"})
          /\ WritersOf(Writer("kill_query", w)) = Given(w # None, {"kill_query"})
      BY WriterNamed
    <2> QED
      BY <2>1, <2>2, Zenon DEF w
  <1>6. /\ e.tools = (((QueryTools(h) \cup MetadataTools(h)) \cup MonitorTools(o, d)) \cup FunctionTools(h, d))
                       \cup AdminTools(h)
        /\ e.info = Info(h, c, d)
    BY DEF Endpoint
  <1> HIDE DEF e, h, Given, Monitored
  <1>7. /\ NamesOf(e.tools) = (((NamesOf(QueryTools(h)) \cup NamesOf(MetadataTools(h)))
                                  \cup NamesOf(MonitorTools(o, d)))
                                  \cup NamesOf(FunctionTools(h, d))) \cup NamesOf(AdminTools(h))
        /\ WritersOf(e.tools) = (((WritersOf(QueryTools(h)) \cup WritersOf(MetadataTools(h)))
                                  \cup WritersOf(MonitorTools(o, d)))
                                  \cup WritersOf(FunctionTools(h, d))) \cup WritersOf(AdminTools(h))
    <2> DEFINE A == QueryTools(h) \cup MetadataTools(h)
               B == A \cup MonitorTools(o, d)
               C == B \cup FunctionTools(h, d)
    <2>1. NamesOf(A) = NamesOf(QueryTools(h)) \cup NamesOf(MetadataTools(h))
          /\ WritersOf(A) = WritersOf(QueryTools(h)) \cup WritersOf(MetadataTools(h))
      BY NamesOfUnion
    <2> HIDE DEF A
    <2>2. NamesOf(B) = NamesOf(A) \cup NamesOf(MonitorTools(o, d))
          /\ WritersOf(B) = WritersOf(A) \cup WritersOf(MonitorTools(o, d))
      BY NamesOfUnion
    <2> HIDE DEF B
    <2>3. NamesOf(C) = NamesOf(B) \cup NamesOf(FunctionTools(h, d))
          /\ WritersOf(C) = WritersOf(B) \cup WritersOf(FunctionTools(h, d))
      BY NamesOfUnion
    <2> HIDE DEF C
    <2>4. NamesOf(C \cup AdminTools(h)) = NamesOf(C) \cup NamesOf(AdminTools(h))
          /\ WritersOf(C \cup AdminTools(h)) = WritersOf(C) \cup WritersOf(AdminTools(h))
      BY NamesOfUnion
    <2>5. e.tools = C \cup AdminTools(h)
      BY <1>6 DEF A, B, C
    <2> QED
      BY <2>1, <2>2, <2>3, <2>4, <2>5
  <1>8. /\ NamesOf(e.tools) =
             {"info", "query", "explain", "schemas", "tables", "describe_table", "indexes", "constraints"}
             \cup Given(h["Command"] # None, {"execute"})
             \cup Given(h["Admin"] # None, {"kill_query"})
             \cup Given(h["Monitor"] # None, Monitored)
             \cup Given(d.functions # <<>>, {"function_list", "function_describe", "function_call"})
        /\ WritersOf(e.tools) =
             Given(h["Command"] # None, {"execute"})
             \cup Given(h["Admin"] # None, {"kill_query"})
             \cup Given(d.functions # <<>> /\ HasWriteFunction(d), {"function_call"})
    BY <1>1, <1>2, <1>3, <1>4, <1>5, <1>7
  <1> QED
    BY <1>6, <1>8 DEF e, h, Given, Monitored

\* The handles that decide on tools, from the configuration.
LEMMA HandlesOfConfiguration ==
  ASSUME NEW c, NEW d
  PROVE  /\ Final(c, d)["Command"] # None <=> Writable(c, d) /\ Commands(c)
         /\ Final(c, d)["Admin"] # None <=> Writable(c, d) /\ "admin" \in c.features
         /\ Final(c, d)["Monitor"] # None <=> "enabled" \in d.monitoring
  BY DEF Final, Roles

\* The tools of a source follow from the configuration and the server, and
\* mysql.info tells which features they come from.
THEOREM ToolsDocumentedAlways == Spec => []ToolsDocumented
  <1>1. IInv => ToolsDocumented
    <2> SUFFICES ASSUME IInv, NEW n \in DOMAIN endpoints
                 PROVE  LET names == NamesOf(endpoints[n].tools)
                            writes == WritersOf(endpoints[n].tools)
                            info == endpoints[n].info
                        IN /\ names = Documented(cfg, cfg.datasources[n], registry[n])
                           /\ "execute" \in writes <=> {"dml", "ddl"} \cap info # {}
                           /\ "kill_query" \in writes <=> "admin" \in info
                           /\ "function_call" \in writes <=> "function_write" \in info
                           /\ "overview" \in names <=> "monitoring" \in info
                           /\ "function_call" \in names <=> "stored_function" \in info
      BY DEF ToolsDocumented, NamesOf, WritersOf
    <2> DEFINE d == cfg.datasources[n]
               o == registry[n]
               h == o.handles
               e == Endpoint(o, cfg, d)
               Given(condition, names) == IF condition THEN names ELSE {}
               monitored == "enabled" \in d.monitoring
               command == Writable(cfg, d) /\ Commands(cfg)
               admin == Writable(cfg, d) /\ "admin" \in cfg.features
    <2>1. n \in DOMAIN registry /\ n \in DOMAIN cfg.datasources /\ endpoints[n] = e /\ pc = "serving"
      <3>1. endpoints # <<>>
        OBVIOUS
      <3>2. pc = "serving" /\ endpoints = [m \in DOMAIN registry |-> Endpoint(registry[m], cfg, cfg.datasources[m])]
        BY <3>1 DEF IInv, EndpointsInv
      <3>3. Len(registry) = Len(cfg.datasources) /\ registry \in Seq(Opened) /\ cfg.datasources \in Seq(Datasource)
        BY <3>2, SeqField DEF IInv, RegistryInv, TypeOK
      <3> QED
        BY <3>2, <3>3
    <2>2. h = Final(cfg, d)
      BY <2>1 DEF IInv, RegistryInv
    <2>3. d \in Datasource /\ ValidMonitoring(d) /\ ValidFunctions(cfg, d)
      <3>1. Valid(cfg, TokenSecret \in resolved)
        BY <2>1 DEF IInv, ValidInv
      <3> QED
        BY <2>1, <3>1, SeqField DEF IInv, TypeOK, Valid, ValidDatasource
    <2>4. h["Command"] # None <=> command
      BY <2>2, HandlesOfConfiguration
    <2>5. h["Admin"] # None <=> admin
      BY <2>2, HandlesOfConfiguration
    <2>6. h["Monitor"] # None <=> monitored
      BY <2>2, HandlesOfConfiguration
    <2>7. d.monitoring # {} => monitored
      BY <2>3 DEF ValidMonitoring
    <2>8. HasWriteFunction(d) => d.functions # <<>> /\ "function_write" \in cfg.features /\ ~ReadOnly(cfg, d)
      <3> SUFFICES ASSUME HasWriteFunction(d)
                   PROVE  d.functions # <<>> /\ "function_write" \in cfg.features /\ ~ReadOnly(cfg, d)
        OBVIOUS
      <3> HIDE DEF d
      <3>1. PICK m \in DOMAIN d.functions : d.functions[m].effect = "write"
        BY DEF HasWriteFunction, Effects
      <3>2. d.functions # <<>>
        BY <3>1
      <3> QED
        BY <2>3, <3>1, <3>2 DEF ValidFunctions
    <2>9. d.functions # <<>> <=> Len(d.functions) > 0
      <3>1. d.functions \in Seq(FunctionAllow)
        BY <2>3 DEF Datasource
      <3> QED
        BY <3>1
    <2>10. /\ "admin" \in Info(h, cfg, d) <=> admin
           /\ {"dml", "ddl"} \cap Info(h, cfg, d) # {} <=> command
           /\ "monitoring" \in Info(h, cfg, d) <=> monitored
           /\ "stored_function" \in Info(h, cfg, d) <=> d.functions # <<>>
           /\ "function_write" \in Info(h, cfg, d) <=> HasWriteFunction(d)
      <3> HIDE DEF h, d, command, admin, monitored
      <3>1. Info(h, cfg, d) = (IF command THEN cfg.features \cap {"dml", "ddl"} ELSE {})
                               \cup (IF monitored THEN {"monitoring"} ELSE {})
                               \cup (IF d.functions # <<>> THEN {"stored_function"} ELSE {})
                               \cup (IF HasWriteFunction(d) THEN {"function_write"} ELSE {})
                               \cup (IF admin THEN {"admin"} ELSE {})
        BY <2>4, <2>5, <2>6, <2>8 DEF Info
      <3>2. command => cfg.features \cap {"dml", "ddl"} # {}
        BY DEF command, Commands
      <3> QED
        BY <3>1, <3>2
    <2>11. /\ WritersOf(e.tools) = Given(command, {"execute"}) \cup Given(admin, {"kill_query"})
                                     \cup Given(HasWriteFunction(d), {"function_call"})
           /\ NamesOf(e.tools) =
                 {"info", "query", "explain", "schemas", "tables", "describe_table", "indexes", "constraints"}
                 \cup Given(command, {"execute"})
                 \cup Given(admin, {"kill_query"})
                 \cup Given(monitored,
                        {"overview", "storage"}
                        \cup (d.monitoring \cap {"sessions", "replication", "innodb_status"})
                        \cup (IF SupportsLocks(o) THEN d.monitoring \cap {"locks"} ELSE {})
                        \cup (IF o.performanceSchema THEN d.monitoring \cap {"top_queries"} ELSE {}))
                 \cup Given(d.functions # <<>>, {"function_list", "function_describe", "function_call"})
           /\ e.info = Info(h, cfg, d)
      <3> HIDE DEF command, admin, monitored, d, o
      <3> QED
        BY <2>4, <2>5, <2>6, <2>8, EndpointNames
    <2>12. NamesOf(e.tools) = Documented(cfg, d, o)
      <3>1. command <=> ~cfg.readOnly /\ ~d.readOnly /\ cfg.features \cap {"dml", "ddl"} # {}
        BY DEF Writable, ReadOnly, Commands
      <3>2. admin <=> ~cfg.readOnly /\ ~d.readOnly /\ "admin" \in cfg.features
        BY DEF Writable, ReadOnly
      <3> HIDE DEF command, admin, d, o, e
      <3> QED
        BY <2>7, <2>9, <2>11, <3>1, <3>2 DEF Documented, SupportsLocks
    <2> HIDE DEF d, o, h, e, command, admin, monitored
    <2>13. /\ "execute" \in WritersOf(e.tools) <=> command
           /\ "kill_query" \in WritersOf(e.tools) <=> admin
           /\ "function_call" \in WritersOf(e.tools) <=> HasWriteFunction(d)
           /\ "overview" \in NamesOf(e.tools) <=> monitored
           /\ "function_call" \in NamesOf(e.tools) <=> d.functions # <<>>
      BY <2>11
    <2> QED
      BY <2>1, <2>10, <2>11, <2>12, <2>13 DEF d, o
  <1> QED
    BY <1>1, Inductive, PTL
=============================================================================
