# A TLA+ verification of mysql-mcp

mysql-mcp is an MCP server in Go that offers MySQL data sources to language
models as tools: metadata, read-only queries, configured stored functions,
monitoring and, where a feature is switched on, DML, DDL and killing a query.
This directory holds TLA+ models of its parts, TLC configurations that check
them on small instances, and theorems about them checked by TLAPS. Paths below
are relative to `src/`.

## 1. The system

| Part | State it keeps | Operations | Interacts with |
|---|---|---|---|
| **Tool calls** of a data source: `internal/datasource/registry.go` (`Source.Acquire`), `internal/mcpserver/*_tools.go` (guarded handlers), `internal/database/*.go` (executors) | the limiter (a channel of slots), up to three `database/sql` pools, one transaction per call | acquire a slot, validate, take a connection, begin, run, read, commit or roll back, answer | MCP client (request, cancellation), timer, `database/sql` (background rollback, retries on dead connections), MySQL |
| **Life of the server**: `internal/app/app.go`, `internal/app/serve.go`, `internal/datasource/registry.go`, `connection.go` | the registry, the pools and who owns them, the listener and its error channel, readiness | open every source, serve, drain, close, exit | operating system (signals), `net/http`, clients |
| **Result materialisation**: `internal/database/query.go` (`scanRows`), `types.go` | rows, cells and bytes read so far | scan, truncate at each budget, encode a cell | `database/sql` rows |
| **SQL policy**: `internal/policy/policy.go`, `scanner.go`, `functions.go` | none (a parser and immutable lists) | classify, walk the scopes of common table expressions, collect tables and functions, scan comments under both readings of the backslash | Vitess parser, schema filter |
| **Policy registry**: `internal/policy/registry.go` | a `sync.Map` of policies | set, replace, remove, look up | none: the server itself does not use it |
| **Schema filter and metadata tools**: `internal/schemafilter/schemafilter.go`, `internal/mcpserver/metadata_tools.go`, `internal/database/metadata.go` | the allow-list of a source; per call the rows read so far | match, translate to SQL LIKE, authorize a schema, list schemas, tables, columns, indexes and constraints | policy, MySQL |
| **Configuration and access**: `internal/config/*.go`, `internal/datasource/registry.go` (`openSource`), `internal/mcpserver/server.go` and `*_tools.go` (registration) | the configuration with its secrets, the pools and services of each source, the tools registered | defaults, validation, selection of a source, secrets, pools, services, tools | file system, environment, MySQL |
| **HTTP front**: `internal/mcpserver/http.go`, `auth.go` | the readiness flag, a status per response | authenticate, route, probe, log | `net/http` |
| **Version detection**: `internal/datasource/version.go` | none | parse MySQL, MariaDB and Doris versions | MySQL |
| **Release workflow**: `.github/workflows/release.yml`, `scripts/*.sh` | Git tags, image aliases and `latest` on Docker Hub, GitHub Releases, the state of each run | select, build, push, restore, verify, release, promote | GitHub, Docker Hub, maintainers |

What is hard in it, and what makes each part correct:

* **Tool calls.** Up to `max_concurrency_per_source` calls of a source run at
  once. The context of each may be cancelled by its client, or expire, at any
  point, and `database/sql` then rolls its transaction back in a goroutine of
  its own. A COMMIT and an implicitly committed DDL cannot be taken back: MySQL
  may carry them out while the answer is lost or comes too late. Correct means:
  no slot and no connection is ever lost; no call waits for a connection while
  it holds one; no answer leaves a transaction open; *ok* means done, an error
  that does not name the commit or the DDL means never done, nothing is done
  twice or under a feature that is off; every call is answered.
* **Life of the server.** Opening the n-th source, or its m-th pool, may fail;
  two deferred calls share the cleanup; two roles may share a pool. A signal
  races with the startup, with a listener that fails, and with handlers that
  outlive the ten seconds they are given. Correct means: nothing is served from
  a registry that is not complete; every pool is closed exactly once; a clean
  exit has cut nobody off; a failed listener is reported; the process ends.
* **Release workflow.** Runs fail or are cancelled between any two steps, are
  run again from any job, meet tags that were moved, run concurrently for
  different tags, and read a list of releases that may lag behind. Correct
  means: an alias never changes its image; a release has both aliases of one
  image of its commit; `latest` is the image of a published stable release and
  only moves forward; success means promoted.
* **Result materialisation.** Four limits, checked with `>` and `>=` in different
  places, on an account kept in an int64, while the driver or the context may
  fail at any row. Correct means: the answer is the longest prefix the limits
  allow; it is marked as truncated, with the right reason, exactly if something
  is missing; the rows are closed on every path.
* **Schema filter and metadata tools.** The matching loop goes back to the last
  star only; MySQL filters the same list by LIKE, before a bound that lies one row
  above what a client gets. Correct means: a pattern matches a name exactly if
  there is a way to read its stars that covers the whole name; a list is the first
  rows of what the allow-list admits, and is marked as truncated exactly if there
  are more.
* **SQL policy.** A scan that knows no grammar, a parser that is not MySQL's, and
  a walk that keeps the names of common table expressions decide together what is
  sent to MySQL. Correct means: the scans see the comments and names that MySQL
  sees, whatever a backslash means there; no accepted statement leaves the allowed
  schemas or calls a function that is not the server's own; none is rejected for a
  schema without cause.
* **Configuration and access.** One condition is asked again and again: by
  `Validate`, by `resolveSecrets`, by `openSource`, by the constructors and by the
  registration of tools, from different fields each time. Correct means: what was
  accepted starts unless MySQL, a secret or the TLS settings prevent it; every pool has an account
  with a known password; only sources that are served cost a secret; a tool
  writes only where writing is on, and says so.

## 2. The plan

In this order, the most important behaviour first:

| # | Modules | Subject | Status |
|---|---|---|---|
| 1 | `AtomicCalls`, `ToolCalls` (+ `Inv`, `MC`, `Proofs`) | tool calls; an abstract specification of what a call promises, and its implementation | done |
| 2 | `ServerLifecycle` (+ `Inv`, `MC`, `Proofs`) | startup, shutdown, pools | done |
| 3 | `Publish` (+ `Inv`, `MC`, `Proofs`) | the release workflow | done |
| 4 | `ScanRows` (+ `Inv`, `MC`, `Proofs`) | the four limits of a result against a reference definition | done |
| 5 | `Access` (+ `Inv`, `MC`, `Proofs`) | which configurations pass, and the secrets, pools and tools they lead to | done |
| 6 | `SchemaFilter`, `SchemaListing` (+ `Inv` of each, `MC`, `Proofs`) | the matching loop against a reference definition and against LIKE; the metadata lists with their filter and look-ahead row | done |
| 7 | `Scanner`, `Policy` (+ `Inv` of each, `MC`, `Proofs`) | comments and quotes under both readings of the backslash; the whole path of a statement to MySQL, with the scopes of common table expressions and the schema check | done |
| 8 | `Stdio` | the stdio transport and the response writer | not modelled |

`ToolCalls` is the component that composes the limiter, the handlers, the
executors and the pools; `ServerLifecycle` treats a whole request as one of its
connections. They meet in one assumption: a request that ServerLifecycle lets a
handler start has all the pools ToolCalls gives it (`ServedOnlyComplete`), and
they are open until the handler is done unless the process reports an error
(`CleanStopFinishesRequests`). `SchemaListing` and `Policy` are two things a
handler does before, or with, its one connection; `Policy` takes what a source
allows as a set, whose membership `SchemaFilter` decides, and `ToolCalls` takes
the outcome of `Policy` as its actions `Reject` and `Admit`.

`Induction` holds what the proofs about lists, sums and texts have in common
(section 10). Theorem still worth proving: the composition of `ToolCalls` with
`ServerLifecycle`. Liveness stays with TLC.

## 3. Tool calls

**`AtomicCalls`** is what a client may rely on: a call is submitted, has at
most one durable effect, and is answered *ok* (it happened), *failed* (it has
not, and will not) or *inDoubt* (the error names the commit or the DDL itself;
the effect may even come after the answer).

**`ToolCalls`** has one action per step of a handler. `pc` is the place in the
handler, `slots` the length of the limiter channel, `conn` and `tx` the
connection and the `sql.Tx` of each call, `wire` the COMMIT or DDL request as
MySQL sees it, `applied` how often MySQL made the effect durable. One operator
says for each kind of call which pool it uses, whether it runs in a transaction,
commits, and what its errors say.

| Actions | Code |
|---|---|
| `Submit`, `Cancel`, `Expire` | the client's request and cancellation; `QueryTimeout` |
| `Acquire`, `AcquireCancelled`, `Return` | `Source.Acquire` and its release function (`registry.go`), deferred by `guarded` (`mcpserver/server.go`) |
| `Reject`, `ListNothing`, `Admit` | validation, policy and feature checks in `*_tools.go` |
| `GetConn`, `ConnFail`, `BadConn`, `Begin`, `Watch`, `Send`, `SendFail` | `BeginTx`, `ExecContext`, `QueryContext`, and the connections of `database/sql` |
| `Start`, `StartFail`, `RunOk`, `ExecOk`, `RunFail`, `Resend` | the statement, and `RejectReadOnly` of the driver (`connection.go`) |
| `ReadOk`, `ReadToCommit`, `ReadFail` | reading the result; `DescribeTable` reads two, one after the other |
| `CheckCommit`, `Claim`, `Commit`, `CommitRefused`, `CommitOk`, `CommitFail`, `Rollback`, `AwaitDone`, `RollbackEnd` | the end of the transaction, by the handler or by `database/sql` |
| `ServerApply`, `ServerRefuse` | MySQL |

`database/sql`, the driver and MySQL are external: what is modelled of them is
how a connection is handed out and given back, that the goroutine watching the
context rolls back, that `Rollback` does not wait for it, and that MySQL carries
out a request once it has it, whatever becomes of the answer. The look at the
context and the request it precedes are steps of their own wherever the request
cannot be taken back: `Tx.Commit` looks (`CheckCommit`), claims the end of the
transaction against the background rollback (`Claim`) and writes COMMIT under no
context (`Commit`); the driver looks and sets its watcher (`Watch`) before it
writes a DDL (`Send`). The context may end between any two of them, and COMMIT or
the DDL still be sent. Where the request has no durable effect, as BEGIN and the
statements of a transaction, look and request are one step: a context that ends
in between ends just as well after it. MySQL's engine is assumed
transactional, as `README.md:494` asks of it.

| Run | Instance | What it shows |
|---|---|---|
| `pairs` | two calls of all nine kinds, two slots, pools of one connection, DML off, monitoring on the read pool | the properties of effects and answers, and that `ToolCalls` implements `AtomicCalls` |
| `live` | two calls, one slot, one connection, under `FairSpec` | types (the slots stay within their number), the account of the slots, no hold-and-wait; every call is answered, every connection goes back; a call cancelled or expired before the last look at its context never has an effect (`RevokedInTime`) |
| `pool_use` | two calls, one slot, two connections | refutes `registry.go:59`, see section 11 |

Two calls are enough for what a call does to another: they share only `slots`
and the pools, and one slot or a pool of one connection makes two of them compete.
In `live`, `list` and `fnRead` are left out because they end like `query` and
`fnWrite`. `AckedIsApplied` and `AppliedAtMostOnce` are proved and are not
asked of a run of their own: `ImplementsAtomicCalls` fails with either.

*Fairness* (`live`): a goroutine that can run does, an execution timer fires, and
`database/sql`'s watcher and rollback run and end, at the latest with the
driver's read timeout. Weak fairness is enough since each call is made once.
Neither the client nor MySQL owes a step. A call waiting for a slot is not
covered by its timeout; it is answered because the calls that hold the slots are.

## 4. Life of the server

**`ServerLifecycle`** is one run of `serveAction` over HTTP: `stage` is the place
of the main goroutine, `at` the part of the source it is opening, `handle` the
three pointers of a `Source`, `pool` the pools ever created, `listener` and
`listenError` the goroutine in `ListenAndServe` and its channel, `conn` the
connections of clients.

| Actions | Code |
|---|---|
| `OpenPool`, `SharePool`, `PingFails`, `SourceFails`, `Register` | `OpenRegistry`, `openSource`, `openDB` |
| `StartServing`, `SelectListenError`, `SelectSignal`, `ShutdownEnds`, `ShutdownTimeout`, `Join` | `serveHTTP` |
| `CloseRegistered`, `Closed`, `Exit` | `Registry.Close`, `serveAction`, `main` |
| `Bind`, `Listen`, `ListenFails`, `ListenEnds`, `Connect`, `Request`, `Hangup`, `Answer` | `net/http`, external |
| `Signal` | `signal.NotifyContext` in `main` |

`CloseSource` closes the distinct pools a source points to. The errors at
`serve.go:52` and `serve.go:65` cannot occur with a configuration that passed
validation and are left out. `lifecycle` opens three sources that differ in
their pools (three of their own, a shared monitor pool, a read pool alone) under
three connections, enough to fail before, at and after each. Its termination
property rests on the fairness of the main goroutine and of `ListenAndServe`
returning after `Shutdown`, and on none of signals, failures, requests and
answers. `lifecycle_probe` refutes a sentence of the README.

## 5. The release workflow

**`Publish`** models the jobs `docker`, `github-release` and `promote-latest` of
the runs started by version tags. `alias` and `latest` are Docker Hub, `head` and
`published` GitHub; `pc` and `job` are the place of a run, `seen`, `image`,
`tags`, `view` and `highest` the variables of its scripts. Releases are numbered
in the order of their versions; an image is its digest and its two annotations.

| Actions | Code |
|---|---|
| `Trigger`, `Retag`, `Rerun` | maintainers |
| `StartJob`, `StartPromote` | the two concurrency groups of `release.yml` |
| `InspectV`, `InspectBare`, `Build`, `Push`, `Restore`, `Verify` | job `docker`, `verify-docker-release.sh` |
| `CreateRelease`, `VerifyRelease`, `ReleaseEnds` | job `github-release` |
| `ListReleases`, `ValidateHighest`, `NeedsAdvance`, `AlreadyLatest`, `Advance`, `Confirm` | `promote-docker-latest.sh` |
| `Abort` | every `fail`, `exit 1`, timeout and cancellation |

Three explicit not-found answers of the registry are trusted, as the script
does. A release, an alias and `latest` change only through runs: nobody deletes
one by hand. `gh release create` is one step. Builds are reproducible per
commit, which the workflow itself checks.

`publish` has two runs for any of two stable releases with a prerelease between
them, one moved tag and two reruns: enough for two runs of one tag, or of two, to
overlap, for either to fail anywhere and come back from any job, and for the
prerelease to be offered as `latest`. Versions are only compared, so three
distinguish every outcome of a comparison.

## 6. Reading a result

**`ScanRows`** is one call of `QueryWithMaxRows`, from the row limit the client
asks for to the answer `mysql.query` trims. The result set is chosen in `Init`;
a column or a cell is its size. `columns`, `row` and `rows` are what was taken,
`used` and `rowUsed` the running accounts of bytes, `reason` the reason of a
truncation, `fetched` the rows fetched, `open` whether the connection is still
held, `broken` whether the driver has failed or the context has ended.

| Actions | Code |
|---|---|
| `Ask`, `AskTooMuch` | `requestedRows` of `mcpserver/query_tools.go`, `Query` and `QueryWithMaxRows` |
| `ColumnTypes`, `ColumnTypesFail`, `TakeColumn`, `ColumnsTaken` | the header of `scanRows` |
| `NextRow`, `NextEnd`, `Scan`, `ScanFail`, `TakeCell`, `TakeCellFail`, `TakeRow` | its loop over rows and cells |
| `Err`, `Close`, `CloseFail`, `Trim` | `rows.Err`, `rows.Close`, `trimRows` |
| `Break` | the driver or the context, external |

`scan` reads every result of one to three columns with up to three, two and one
rows, of four kinds of cells (two that fit differently, one almost as large as
the largest int64, one of a type that is not supported), under eight sets of
limits: exactly at, above and below each limit, the defaults, and one that is
refused. The largest int64 is scaled down to 2*10^8, since TLC counts in 32 bits;
the theorems hold for any. The reference definitions (`LongestPrefix`,
`TruncatedIffIncomplete`, `ReasonTold`) know no loop: they say which prefix is
the longest that all four limits allow, where the size of a result is a sum over
its columns, rows and cells. Encoding a string as JSON cannot fail, so
the error of `json.Marshal` is left out. `scan_wide` refutes a comment.

## 7. Configuration and access

**`Access`** follows one start of the server from the file to the tools. `cfg`
is the configuration as it is completed, `resolved` the secrets so far, `source`
the `Source` being opened, `registry` those that are open, `endpoints` the tools;
`cause` says why a start failed. A handle of a source (a pool or a service)
stands for the account it works with.

| Actions | Code |
|---|---|
| `Load`, `Select`, `ResolveToken`, `ResolveCredential` | `LoadForServe`: defaults, `Validate`, the source of `--datasource`, `resolveSecrets` |
| `Revalidate` | `OpenRegistry` validates again |
| `OpenReader`, `DetectVersion`, `NewReaders`, `OpenWriter`, `NewWriters`, `NewFunctions`, `OpenMonitor`, `NewMonitor`, `Take` | `openSource`, with the checks of each constructor |
| `Register` | `NewServer` of each source: `registerQueryTools` and its siblings |

Abstracted: the syntax of names, addresses, byte sizes and TLS settings, and YAML
itself (a file is what it decodes to over the defaults); patterns of schemas are
the schemas they match; a secret is the source and role it is for. What closing
does when a step fails is the subject of `ServerLifecycle`. Without the TLS settings,
`AcceptedStarts` says nothing of them, and there it would not hold: `makeTLSConfig`
(`connection.go:160`) refuses `verify-full` on a unix socket without `server_name`,
which `Validate` accepts.

`access` starts from about six hundred files, valid and not: every combination of
the switches, features, credentials, functions and monitoring that decide on
writing; monitoring with an account of its own, an incomplete one and none; two
sources in either order, twice the same and none, under both transports and with
every source of a token; and the limits at their boundaries, with 7 as the
largest int. No rule relates more than two sources or two functions.
`access_locks` refutes a sentence of the README.

## 8. Schemas and metadata lists

**`SchemaFilter`** is the loop of `Match`, one step per turn, with the variables
of the code: `patternIndex` and `nameIndex`, and `starIndex` and `starNameIndex`
for the last star and where its stretch of the name ends; and `ToSQLLike`.
`Matches` is what a glob means, without a loop: a way to cut the name at the
stars. `Like` is MySQL's LIKE with `=` as the escape character, external.

**`SchemaListing`** is one call of any of the five metadata tools around that
loop. `subject` and `tried` are the schema `Allows` is asked about and the
patterns it has tried; `answer` is what MySQL has to look through, `listed` the
list of the service, `filtered` that of the handler.

| Actions | Code |
|---|---|
| `AskSchemas`, `AskInSchema` | the handlers and `requireAllowedSchema` of `metadata_tools.go` |
| `AllowsAtOnce`, `TryPattern`, `Matching`, `Matched`, `Disallowed` | `Allows` and `Match` |
| `Identify`, `IdentifyFails`, `TableFound`, `TableFails` | `validateIdentifier`, and the first query of `DescribeTable` |
| `Query`, `NextRow`, `RowsEnd`, `Broken`, `Returned` | `ListSchemasAllowed`, `ListTables` and their siblings |
| `NextSchema`, `SchemasEnd`, `Trim` | the loop of `mysql.metadata.schemas`, `trimMetadataRows` |

`listing` reads names of up to five characters, one more than an identifier may
have there, under allow-lists of one and two patterns with up to two stars, with
and without exact names; stars, `%`, `_` and `=` are also characters of names.
Two stars are what the loop needs to give one up for the next. The catalogs hold
up to six schemas around bounds of one and two rows and of the largest int, where
there is no look-ahead row. What a row holds is not looked at; others may change
the tables between two reads, so each read chooses anew. That a text is UTF-8 is
not modelled: both sides of the filter compare whole characters.

## 9. The SQL policy

**`Scanner`** is the two scans of `scanner.go`, one step per character class:
`at` the index, `escapes` whether a backslash is taken for an escape, `state` the
quote or comment the scan is in. Both scans run under both readings. Beside them
stands what the lexical units of a text *are*: where each ends (a string at the
last of an odd run of quotes, say) and which positions begin one. The loops that
skip one thing (`skipMySQLTrivia`, `skipMySQLQuotedString` and the others) are
functions of the position. `CharsAssumption` says what `isMySQLSpace` and
`isMySQLIdentifierStart` decide by: no space or letter is a quote, a comment sign
or a parenthesis, and no name of the list has a space in it.

**`Policy`** is the path of a statement through `mysql.query` and
`mysql.execute`. A statement is the nodes that matter, in the order of the walk,
and its query blocks with their parents, the names of their common table
expressions and their tables.

| Actions | Code |
|---|---|
| `Receive`, `BadInput` | `validateSQLInput` |
| `Scanning` (the steps of `Scanner`), `ScanFinds`, `ScanClean` | `scanUnsafeComment`, `scanAmbiguousBuiltinCall` |
| `ParseFails`, `Parse` | `parseOne`, Vitess: external |
| `KindFits`, `KindWrong` | `validateFullyParsedDDL`, `isSelectRoot`, the head of `validateCommandAST` |
| `NodeFits`, `NodeWrong`, `NodesEnd` | `validateReadAST`, `validateCommandAST`, the lists of `functions.go` |
| `Feature`, `Disabled` | the handler of `mysql.execute` |
| `Unrestricted`, `Restricted`, `TablePasses`, `TableFails`, `EnterBlock`, `TablesEnd` | `ValidateAllowedSchemas`, `validateSchemaScope`, `validatePhysicalTable` |

What MySQL makes of the statement is said apart, by its own rules of scope: the
names before a body in its WITH, its own if that is RECURSIVE, and every name for
what follows. `ReachesOnlyAllowed` and `RejectedForCause` compare the walk with it
from both sides; `OnlyServerBuiltins` compares the checks of the text and of the
nodes with how MySQL of that version resolves a call.

`policy` scans every text of up to five or six characters over seven alphabets
(the smallest text with two readings has three characters, an executable comment
after a string of either reading six), and walks every statement of up to four
blocks with one table, shadowing names that differ in case, qualified or not:
four blocks are a body in a body beside what follows each. Commands add tables
that are written and referred to; nodes come after another, which is passed.
Eleven sources differ in tool, version, default database, features, and in how
the server compares names.

Abstracted, and why this loses nothing:

* The source is chosen after the scan, and the text forgotten when it is parsed,
  except for whether it has a call that MySQL and the parser read differently:
  the scans do not depend on the source, nor the walk on the text.
* The tables of a block are checked when it is entered; in the code, a nested
  block may come between two of them. Both reject if any of them fails.
* The walk puts every name of a WITH in scope of every body, also a later one.
  MySQL takes such a forward reference for a table of the default database, and
  `validate.go:175` rejects a configuration that does not allow that database
  (`SourcesAssumption`). The same holds for a written table named `dual`, which
  the walk lets pass although the comment at `policy.go:742` says otherwise.
* `ALTER DATABASE` without a name counts as a cause of rejection: its schema is
  not in the statement.
* One function stands for each group of the lists with one version.
  `mysql.explain` takes the path of `mysql.query`. Upper case is left out of the
  scans, and names begin with a letter.

## 10. What is proved

All theorems hold for every value of the constants, under the named assumptions
of the modules: a finite set of calls, positive limits, features, sources and
prereleases among those there are, allow-lists that passed validation, statements
whose blocks form a tree, texts of any length over any letters and spaces that
are no quotes, comment signs or parentheses.

The argument is the same seven times. The properties are not inductive: that a
failed call's effect never happens says nothing of a call about to fail. The
inductive invariant `IInv` (in the module `...Inv` of each component) adds what
the place of an actor says of the rest of its state. The `MC` modules extend the
`Inv` modules, so that TLC can be asked for `IInv` as well.

* `ToolCallsProofs` proves `IInv` inductive from two general lemmas about what a
  step does to the invariant of its own call and of the others, and one about the
  cardinality of the holders of slots. The safety properties follow from it, and
  that `ToolCalls` implements `AtomicCalls`: each step is a step
  of the abstract call or a stutter under `Status`. `RevocationIsFinal` needs a
  second fact that no step undoes (`Revoked`): a call whose context is done, with
  nothing on its way to MySQL, is not past the last look at the context, and no
  action takes it there, neither the slot it may still get nor the retry of a
  refused DDL.
* `ServerLifecycleProofs`: a source is empty, being opened, registered or closed;
  its open pools are exactly those it points to. Closing is proved once
  (`ClosingASource`) and used on the paths that close.
* `PublishProofs`: what a run has found of an alias stays true as long as it holds
  the group of the tag, since only that group's runs write the alias; what a
  promotion has read of `latest` stays true while it holds the other group.
  `AliasAdded` says that completing an alias keeps a release consistent.
* `ScanRowsProofs`: what was taken is a prefix of the result and the accounts
  stay between zero and their limit, so that no sum leaves the range of int64. A
  reason is set exactly when a column or a row is left behind. The accounts are
  the sums over what was taken, which grow with every column and row: so what did
  not fit where the loop stopped does not fit in any longer answer, and the answer
  is the longest one (`LongestAnswer`), for the reason it gives (`ReasonIsTold`).
* `AccessProofs`: the configuration that `Validate` accepted stays valid, field by
  field, through the selection and the secrets; the handles of a source are those
  of the stages it has passed (`StageStep` says once what a stage must show). A
  secret that is needed has been resolved, or the start has failed for it. The
  names of a source's tools, and of those that write, follow from its handles
  (`EndpointNames`), and these from the configuration.
* `SchemaListingProofs`: `Matches` is a sequence of cuts, and the invariant of the
  loop says what the part behind the last star stands for: what was matched so far
  is matched, and if the pattern matches at all, it does so with that star
  swallowing no less than it has. This is why no earlier star is ever needed. For
  the lists, `ToSQLLike` writes each character of the glob at a known position of
  the LIKE text, and from there on LIKE accepts exactly the names the glob accepts;
  so what MySQL filters is what `Match` would, and what the two bounds leave is the
  first rows of it (`ListingIsExact`).
* `PolicyProofs`, the scans: the units of a text follow one another without a gap
  or an overlap, in either reading of the backslash. `ScanInv` says that the first
  scan is at the begin of a unit or knows within which one it is, and that the
  second, which skips whole units, is always at the begin of one and never within
  a name; and that neither has passed an unsafe comment, or an ambiguous call. Its
  core is that the two characters the code reads at a quote, or at a backslash,
  say the same as the parity of a run (`QuoteStep`). Both are then at the same end
  of each unit (`SkipQuotedIs`, `SkipTriviaIs`), and `ScansAgree` is what is left
  when the last reading is over.
* `PolicyProofs`, the statement: the scope cloned for a block has, in lower case,
  every name that MySQL sees there (`ScopeInv`), and what was checked is inside
  (`CheckedInv`); an accepted statement has been checked as a whole, and so have
  its nodes (`NodesInv`). With `ScansAgree`, no node is spelled in a way that the
  tree does not show, and every function called is the server's own
  (`AcceptedCallsOnlyBuiltins`).

Three of these rest on definitions by recursion: sums, LIKE, and the units and
loops of a text. They are recursive functions, and `Induction` derives from the
least element of a set of natural numbers both an induction that is stated of a
set and not of a formula, and that a recursive definition that looks back has a
solution (`Recursion`). A lemma about each such function then says what one step
of it is (`SumsDefined`, `StartsDefined`, `SkipTriviaDefined`).

Only model-checked: liveness (`Answered`, `ConnsReturned`, `Terminates`), which
is beyond the prover. Every other property of the passing runs is proved.

## 11. Disagreements with the documentation

* `pool_use`: `registry.go:59` says that the limiter keeps a noisy client from
  consuming the whole pool. A handler whose deferred `Rollback` finds the
  transaction already ended by its context returns, and gives its slot back,
  while `database/sql` still holds the connection: with one slot and two
  connections, both can be in use.
* `lifecycle_probe`: `README.md:142` says that `/readyz` answers 503 during
  shutdown. `Shutdown` closes the listener as soon as the context is done, so a
  probe sent then is refused; only one on a connection made before is answered.
* `scan_wide`: `types.go:125` says that a column cap does not stop the iteration of
  rows. `scanRows` returns no row of a result that is wider than `max_columns`.
* `access_locks`: `README.md:388` gives `monitoring.locks` as the only condition of
  `mysql.monitor.locks`. With MySQL 8 it also needs `performance_schema`.

## 12. Notes on the runs

Every run says `CHECK_DEADLOCK FALSE`: calls, server processes and workflow runs
are one-shot, and a behaviour in which all have ended is meant to stop. Calls,
connections and workflow runs are symmetric in the runs without liveness. Each
module has a section of *faults*: actions as a plausible mistake in the code
would have them, used by no specification; each one, put in place of the action
it is named after, violates a property of a run.

Not modelled, and why:

* The stdio transport: two goroutines of the standard library and of the SDK
  around one loop; what they share with the rest is the registry, which closes as
  in `ServerLifecycle`.
* The HTTP front: authentication, routing and logging run one after the other
  within a request and keep nothing from one to the next, except the readiness
  flag, which `ServerLifecycle` has.
* The policy registry: a `sync.Map` that the server does not use.
* The Vitess grammar (external), the entry points of the policy that no tool calls
  (`ValidateExplain`, the branches of `validateDirectCommandSchemas` for statements
  that are neither DML nor DDL), and scalar arguments.
* Reading YAML and secret files, the syntax of names, addresses and sizes; the
  formats of cells and rows.
* The pushes of branches (the edge image) and the packaging of archives.
* Real time: that a call may be answered after the HTTP write timeout; and MySQL's
  metadata locks: whether a stored function may be redefined between the check of
  its metadata and its call is decided there.
