------------------------------ MODULE ToolCalls ------------------------------
(***************************************************************************)
(* The concurrent tool calls of one datasource: internal/datasource        *)
(* (Source.Acquire), internal/mcpserver (the guarded handlers) and         *)
(* internal/database (the executors), over database/sql and the MySQL      *)
(* driver, which are external and modelled from how they are used.         *)
(*                                                                         *)
(* A call takes an execution slot, is validated, takes a connection of the *)
(* pool of its role, runs inside a transaction or directly, and returns    *)
(* through its deferred calls. Its context may be cancelled by the client  *)
(* or expire at any point, and the one request that cannot be taken back,  *)
(* COMMIT or an implicitly committed DDL, may be carried out by MySQL      *)
(* before, after or in spite of the answer the caller gets. The context is *)
(* looked at before such a request is written, not while.                  *)
(***************************************************************************)
EXTENDS Naturals, FiniteSets

CONSTANTS
    Calls,           \* the tool calls; each is made once
    Requests,        \* the kinds of call the clients make
    Features,        \* the write features on; {} for a read-only source
    MonitorPool,     \* "monitor", or "read" when no monitor credential is set
    MaxConcurrency,  \* limits.max_concurrency_per_source
    MaxOpen          \* pool.max_open, of every pool of the source

WriteFeatures == {"dml", "ddl", "fnWrite", "kill"}

Kinds == {"query", "list", "describe", "monitor", "fnRead"} \cup WriteFeatures

ASSUME RequestsAssumption == Requests \subseteq Kinds
ASSUME FeaturesAssumption == Features \subseteq WriteFeatures
ASSUME MonitorPoolAssumption == MonitorPool \in {"read", "monitor"}
ASSUME MaxConcurrencyAssumption == MaxConcurrency \in Nat \ {0}
ASSUME MaxOpenAssumption == MaxOpen \in Nat \ {0}
ASSUME CallsAssumption == IsFiniteSet(Calls)

VARIABLES
    pc,         \* where each call is
    kind,       \* which operation it asks for
    cancelled,  \* calls whose request context is done
    expired,    \* calls whose execution timeout has passed
    slots,      \* len(source.limiter)
    conn,       \* the pool whose connection each call holds, or "none"
    tx,         \* the database/sql transaction of each call
    todo,       \* statements a call run outside a transaction still has to send
    wire,       \* the COMMIT or DDL request of each call, as MySQL sees it
    applied,    \* how many times MySQL made the effect of each call durable
    result      \* the outcome the handler has decided on

callVars == <<pc, kind, result>>
contextVars == <<cancelled, expired>>
dbVars == <<conn, tx, todo>>
serverVars == <<wire, applied>>
vars == <<callVars, contextVars, slots, dbVars, serverVars>>

-----------------------------------------------------------------------------
(* What each kind of call is. *)

Pools == {"read", "write", MonitorPool}

PoolOf(k) == IF k = "monitor" THEN MonitorPool
             ELSE IF k \in WriteFeatures THEN "write" ELSE "read"

Transactional(k) == k \in {"query", "monitor", "fnRead", "fnWrite", "dml"}

Commits(k) == k \in {"fnWrite", "dml"}

IsFunction(k) == k \in {"fnRead", "fnWrite"}

\* The statements of a call that runs outside a transaction: describing a
\* table or a function reads its row first and its columns or parameters next.
Statements(k) == IF k = "describe" THEN 2 ELSE 1

\* The kinds that change data, and hence can be durable.
Effectful(k) == k \in {"dml", "ddl", "fnWrite"}

\* The tools the server offers: mysql.execute exists when either of its
\* features is on, and a write function cannot be configured without its own.
Registered(k) ==
    /\ k \in {"dml", "ddl"} => Features \cap {"dml", "ddl"} # {}
    /\ k \in {"fnWrite", "kill"} => k \in Features

\* Fault: the class of the statement is not compared with the features.
AcceptedAny(k) == TRUE

\* mysql.execute accepts DML and DDL each under its own feature.
Accepted(k) == k \in {"dml", "ddl"} => k \in Features

\* A call that can be refused before it touches MySQL. Monitoring tools take
\* no arguments.
Validated(k) == k # "monitor"

\* Fault: every error of an executor names the execution of the statement.
ErrorOfExecution(k) == "failed"

\* An error of ExecDDL, or of a Commit, names an operation that may have taken
\* effect; every other error names one that has not.
ErrorOf(k) == IF k = "ddl" THEN "inDoubt" ELSE "failed"

-----------------------------------------------------------------------------
Executing == {"waiting", "connected", "watched", "ready", "running", "reading",
              "commit", "checked", "committing", "returning", "undoing"}

InUse(p) == {c \in Calls : conn[c] = p}

\* The context a statement runs under: a child of the request context, with
\* the query timeout, cancelled by the executor's own deferred cancel().
ContextDone(c) == c \in cancelled \cup expired \/ pc[c] = "done"

Init ==
    /\ pc = [c \in Calls |-> "idle"]
    /\ kind = [c \in Calls |-> "query"]
    /\ result = [c \in Calls |-> "none"]
    /\ cancelled = {}
    /\ expired = {}
    /\ slots = 0
    /\ conn = [c \in Calls |-> "none"]
    /\ tx = [c \in Calls |-> "none"]
    /\ todo = [c \in Calls |-> 0]
    /\ wire = [c \in Calls |-> "none"]
    /\ applied = [c \in Calls |-> 0]

Goto(c, p) == pc' = [pc EXCEPT ![c] = p]
Release(c) == conn' = [conn EXCEPT ![c] = "none"]
Leave(c, r) == Goto(c, "returning") /\ result' = [result EXCEPT ![c] = r]

-----------------------------------------------------------------------------
(* Faults: actions as a plausible mistake in the code would have them. No    *)
(* specification uses them; each breaks a property stated below when it      *)
(* replaces the action it is named after.                                    *)

\* The limiter channel is replaced by a counter nobody compares.
AcquireUnbounded(c) ==
    /\ pc[c] = "queued"
    /\ slots' = slots + 1
    /\ Goto(c, "admitted")
    /\ UNCHANGED <<kind, result, contextVars, dbVars, serverVars>>

\* The context is looked at again after the slot was taken, and the slot is
\* not given back.
AcquireCancelledLate(c) ==
    /\ pc[c] = "queued"
    /\ c \in cancelled
    /\ slots < MaxConcurrency
    /\ slots' = slots + 1
    /\ Goto(c, "done")
    /\ result' = [result EXCEPT ![c] = "failed"]
    /\ UNCHANGED <<kind, contextVars, dbVars, serverVars>>

\* A direct statement runs under the background context.
WatchNothing(c) ==
    /\ pc[c] = "connected"
    /\ ~Transactional(kind[c])
    /\ Goto(c, "watched")
    /\ UNCHANGED <<kind, result, contextVars, slots, dbVars, serverVars>>

\* A DDL is acknowledged when it has been sent.
ExecOkUnconfirmed(c) ==
    /\ pc[c] = "running"
    /\ kind[c] \in {"ddl", "kill"}
    /\ Leave(c, "ok")
    /\ Release(c)
    /\ UNCHANGED <<kind, contextVars, slots, tx, todo, serverVars>>

\* A DDL is sent again after any lost answer.
ResendUnanswered(c) ==
    /\ pc[c] = "running"
    /\ kind[c] = "ddl"
    /\ wire' = [wire EXCEPT ![c] = "none"]
    /\ Goto(c, "waiting")
    /\ Release(c)
    /\ UNCHANGED <<kind, result, contextVars, slots, tx, todo, applied>>

\* The rows of the first statement stay open during the second.
ReadOkKeepsRows(c) ==
    /\ pc[c] = "reading"
    /\ ~Commits(kind[c])
    /\ IF todo[c] > 1
       THEN /\ Goto(c, "waiting")
            /\ todo' = [todo EXCEPT ![c] = @ - 1]
            /\ UNCHANGED <<result, conn>>
       ELSE /\ Leave(c, "ok")
            /\ UNCHANGED todo
            /\ conn' = IF Transactional(kind[c]) THEN conn ELSE [conn EXCEPT ![c] = "none"]
    /\ UNCHANGED <<kind, contextVars, slots, tx, serverVars>>

\* The rows are not closed when reading them fails.
ReadFailKeepsRows(c) ==
    /\ pc[c] = "reading"
    /\ Leave(c, "failed")
    /\ UNCHANGED <<kind, contextVars, slots, dbVars, serverVars>>

\* The error of Commit is ignored.
CommitFailIgnored(c) ==
    /\ pc[c] = "committing"
    /\ tx' = [tx EXCEPT ![c] = "closed"]
    /\ Release(c)
    /\ Leave(c, "ok")
    /\ UNCHANGED <<kind, contextVars, slots, todo, serverVars>>

\* There is no deferred Rollback.
ReturnWithoutRollback(c) ==
    /\ pc[c] = "returning"
    /\ slots' = slots - 1
    /\ Goto(c, "done")
    /\ UNCHANGED <<kind, result, contextVars, dbVars, serverVars>>

\* The release function is called on success only.
ReturnKeepsSlot(c) ==
    /\ pc[c] = "returning"
    /\ tx[c] # "open"
    /\ slots' = IF result[c] = "ok" THEN slots - 1 ELSE slots
    /\ Goto(c, "done")
    /\ UNCHANGED <<kind, result, contextVars, dbVars, serverVars>>

-----------------------------------------------------------------------------
(* The client and the clock. *)

\* A client calls a tool the server offers.
Submit(c, k) ==
    /\ pc[c] = "idle"
    /\ Registered(k)
    /\ Goto(c, "queued")
    /\ kind' = [kind EXCEPT ![c] = k]
    /\ UNCHANGED <<result, contextVars, slots, dbVars, serverVars>>

\* The client disconnects or sends a cancellation.
Cancel(c) ==
    /\ pc[c] \notin {"idle", "done"}
    /\ c \notin cancelled
    /\ cancelled' = cancelled \cup {c}
    /\ UNCHANGED <<callVars, expired, slots, dbVars, serverVars>>

\* The timeout, which starts once the arguments have been accepted and hence
\* does not cover the wait for a slot, passes.
Expire(c) ==
    /\ pc[c] \in Executing
    /\ c \notin expired
    /\ expired' = expired \cup {c}
    /\ UNCHANGED <<callVars, cancelled, slots, dbVars, serverVars>>

-----------------------------------------------------------------------------
(* The slot and the checks made under it. *)

Acquire(c) ==
    /\ pc[c] = "queued"
    /\ slots < MaxConcurrency
    /\ slots' = slots + 1
    /\ Goto(c, "admitted")
    /\ UNCHANGED <<kind, result, contextVars, dbVars, serverVars>>

\* select picks either branch when a slot is free and the context is done.
AcquireCancelled(c) ==
    /\ pc[c] = "queued"
    /\ c \in cancelled
    /\ Goto(c, "done")
    /\ result' = [result EXCEPT ![c] = "failed"]
    /\ UNCHANGED <<kind, contextVars, slots, dbVars, serverVars>>

\* The statement, its class, its schemas, its arguments or the function policy
\* are refused.
Reject(c) ==
    /\ pc[c] = "admitted"
    /\ Validated(kind[c])
    /\ Leave(c, "failed")
    /\ UNCHANGED <<kind, contextVars, slots, dbVars, serverVars>>

\* The list of the configured functions of a schema that has none needs no
\* statement.
ListNothing(c) ==
    /\ pc[c] = "admitted"
    /\ kind[c] = "list"
    /\ Leave(c, "ok")
    /\ UNCHANGED <<kind, contextVars, slots, dbVars, serverVars>>

Admit(c) ==
    /\ pc[c] = "admitted"
    /\ Accepted(kind[c])
    /\ Goto(c, "waiting")
    /\ todo' = [todo EXCEPT ![c] = Statements(kind[c])]
    /\ UNCHANGED <<kind, result, contextVars, slots, conn, tx, serverVars>>

-----------------------------------------------------------------------------
(* A connection of the pool, and the first request sent on it. *)

\* database/sql looks at the context before it hands out a connection.
GetConn(c) ==
    /\ pc[c] = "waiting"
    /\ ~ContextDone(c)
    /\ Cardinality(InUse(PoolOf(kind[c]))) < MaxOpen
    /\ conn' = [conn EXCEPT ![c] = PoolOf(kind[c])]
    /\ Goto(c, "connected")
    /\ UNCHANGED <<kind, result, contextVars, slots, tx, todo, serverVars>>

\* The context is done, or a new connection cannot be dialled.
ConnFail(c) ==
    /\ pc[c] = "waiting"
    /\ Leave(c, ErrorOf(kind[c]))
    /\ UNCHANGED <<kind, contextVars, slots, dbVars, serverVars>>

\* The connection was dead and nothing was written to it: database/sql takes
\* another one.
BadConn(c) ==
    /\ pc[c] \in {"connected", "watched"}
    /\ Goto(c, "waiting")
    /\ Release(c)
    /\ UNCHANGED <<kind, result, contextVars, slots, tx, todo, serverVars>>

Begin(c) ==
    /\ pc[c] = "connected"
    /\ Transactional(kind[c])
    /\ ~ContextDone(c)
    /\ tx' = [tx EXCEPT ![c] = "open"]
    /\ Goto(c, "ready")
    /\ UNCHANGED <<kind, result, contextVars, slots, conn, todo, serverVars>>

\* Outside a transaction, the driver looks at the context and has a goroutine
\* watch it; the statement is written after that.
Watch(c) ==
    /\ pc[c] = "connected"
    /\ ~Transactional(kind[c])
    /\ ~ContextDone(c)
    /\ Goto(c, "watched")
    /\ UNCHANGED <<kind, result, contextVars, slots, dbVars, serverVars>>

\* The statement is written, although the context may have ended since it was
\* looked at. A DDL cannot be taken back once sent.
Send(c) ==
    /\ pc[c] = "watched"
    /\ wire' = [wire EXCEPT ![c] = IF kind[c] = "ddl" THEN "sent" ELSE @]
    /\ Goto(c, "running")
    /\ UNCHANGED <<kind, result, contextVars, slots, dbVars, applied>>

\* BEGIN is refused or its answer lost, or the context is done before the
\* request is written.
SendFail(c) ==
    /\ pc[c] \in {"connected", "watched"}
    /\ Leave(c, ErrorOf(kind[c]))
    /\ Release(c)
    /\ UNCHANGED <<kind, contextVars, slots, tx, todo, serverVars>>

-----------------------------------------------------------------------------
(* The statement and its result. *)

Start(c) ==
    /\ pc[c] = "ready"
    /\ tx[c] = "open"
    /\ ~ContextDone(c)
    /\ Goto(c, "running")
    /\ UNCHANGED <<kind, result, contextVars, slots, dbVars, serverVars>>

\* The context is done or, for a stored function, its metadata cannot be read
\* inside the transaction or contradict the configured policy.
StartFail(c) ==
    /\ pc[c] = "ready"
    /\ IsFunction(kind[c]) \/ ContextDone(c)
    /\ Leave(c, "failed")
    /\ UNCHANGED <<kind, contextVars, slots, dbVars, serverVars>>

\* The statement succeeds and leaves rows, or an affected-row count, to read.
RunOk(c) ==
    /\ pc[c] = "running"
    /\ kind[c] \notin {"ddl", "kill"}
    /\ Goto(c, "reading")
    /\ UNCHANGED <<kind, result, contextVars, slots, dbVars, serverVars>>

\* ExecDDL and KillQuery are done when the answer is in; no result metadata
\* can turn that into a failure.
ExecOk(c) ==
    /\ pc[c] = "running"
    /\ kind[c] \in {"ddl", "kill"}
    /\ kind[c] = "ddl" => wire[c] = "applied"
    /\ Leave(c, "ok")
    /\ Release(c)
    /\ UNCHANGED <<kind, contextVars, slots, tx, todo, serverVars>>

\* MySQL refuses the statement, somebody kills it, or the connection or the
\* context ends first. Outside a transaction the connection goes back.
RunFail(c) ==
    /\ pc[c] = "running"
    /\ Leave(c, ErrorOf(kind[c]))
    /\ conn' = IF Transactional(kind[c]) THEN conn ELSE [conn EXCEPT ![c] = "none"]
    /\ UNCHANGED <<kind, contextVars, slots, tx, todo, serverVars>>

\* The write pool rejects read-only servers: the driver reports the refused
\* DDL as a bad connection and database/sql sends it again on another one.
Resend(c) ==
    /\ pc[c] = "running"
    /\ kind[c] = "ddl"
    /\ wire[c] = "refused"
    /\ wire' = [wire EXCEPT ![c] = "none"]
    /\ Goto(c, "waiting")
    /\ Release(c)
    /\ UNCHANGED <<kind, result, contextVars, slots, tx, todo, applied>>

\* The rows are scanned; a second statement may be due on another connection.
ReadOk(c) ==
    /\ pc[c] = "reading"
    /\ ~Commits(kind[c])
    /\ IF todo[c] > 1
       THEN /\ Goto(c, "waiting")
            /\ todo' = [todo EXCEPT ![c] = @ - 1]
            /\ UNCHANGED result
       ELSE Leave(c, "ok") /\ UNCHANGED todo
    /\ conn' = IF Transactional(kind[c]) THEN conn ELSE [conn EXCEPT ![c] = "none"]
    /\ UNCHANGED <<kind, contextVars, slots, tx, serverVars>>

\* A write is committed only after its result has been read.
ReadToCommit(c) ==
    /\ pc[c] = "reading"
    /\ Commits(kind[c])
    /\ Goto(c, "commit")
    /\ UNCHANGED <<kind, result, contextVars, slots, dbVars, serverVars>>

ReadFail(c) ==
    /\ pc[c] = "reading"
    /\ Leave(c, "failed")
    /\ conn' = IF Transactional(kind[c]) THEN conn ELSE [conn EXCEPT ![c] = "none"]
    /\ UNCHANGED <<kind, contextVars, slots, tx, todo, serverVars>>

-----------------------------------------------------------------------------
(* The end of a transaction. *)

\* Tx.Commit looks at the context once.
CheckCommit(c) ==
    /\ pc[c] = "commit"
    /\ ~ContextDone(c)
    /\ Goto(c, "checked")
    /\ UNCHANGED <<kind, result, contextVars, slots, dbVars, serverVars>>

\* It then owns the end of the transaction, unless the background rollback has
\* been faster: both compare and swap the same flag.
Claim(c) ==
    /\ pc[c] = "checked"
    /\ tx[c] = "open"
    /\ tx' = [tx EXCEPT ![c] = "committing"]
    /\ Goto(c, "committing")
    /\ UNCHANGED <<kind, result, contextVars, slots, conn, todo, serverVars>>

\* COMMIT is written, and no context is watched any more.
Commit(c) ==
    /\ pc[c] = "committing"
    /\ wire[c] = "none"
    /\ wire' = [wire EXCEPT ![c] = "sent"]
    /\ UNCHANGED <<callVars, contextVars, slots, dbVars, applied>>

\* The context is done when it is looked at, or the transaction has been rolled
\* back since.
CommitRefused(c) ==
    /\ \/ pc[c] = "commit" /\ ContextDone(c)
       \/ pc[c] = "checked" /\ tx[c] # "open"
    /\ Leave(c, "inDoubt")
    /\ UNCHANGED <<kind, contextVars, slots, dbVars, serverVars>>

CommitOk(c) ==
    /\ pc[c] = "committing"
    /\ wire[c] = "applied"
    /\ tx' = [tx EXCEPT ![c] = "closed"]
    /\ Release(c)
    /\ Leave(c, "ok")
    /\ UNCHANGED <<kind, contextVars, slots, todo, serverVars>>

\* The connection is found closed before COMMIT is written, MySQL refuses to
\* commit, or its answer does not arrive in time.
CommitFail(c) ==
    /\ pc[c] = "committing"
    /\ tx' = [tx EXCEPT ![c] = "closed"]
    /\ Release(c)
    /\ Leave(c, "inDoubt")
    /\ UNCHANGED <<kind, contextVars, slots, todo, serverVars>>

\* database/sql watches the context of the transaction and rolls it back in
\* the background when that is done.
AwaitDone(c) ==
    /\ tx[c] = "open"
    /\ ContextDone(c)
    /\ tx' = [tx EXCEPT ![c] = "rollingBack"]
    /\ UNCHANGED <<callVars, contextVars, slots, conn, todo, serverVars>>

\* The deferred Rollback of a transaction nobody has ended.
Rollback(c) ==
    /\ pc[c] = "returning"
    /\ tx[c] = "open"
    /\ tx' = [tx EXCEPT ![c] = "rollingBack"]
    /\ Goto(c, "undoing")
    /\ UNCHANGED <<kind, result, contextVars, slots, conn, todo, serverVars>>

\* The rollback, whoever started it, ends and the connection goes back. It
\* waits for a statement still in flight.
RollbackEnd(c) ==
    /\ tx[c] = "rollingBack"
    /\ pc[c] # "running"
    /\ tx' = [tx EXCEPT ![c] = "closed"]
    /\ Release(c)
    /\ pc' = [pc EXCEPT ![c] = IF @ = "undoing" THEN "returning" ELSE @]
    /\ UNCHANGED <<kind, result, contextVars, slots, todo, serverVars>>

\* The last deferred call gives the slot back, and the client is answered. A
\* deferred Rollback that finds the transaction ended does not wait for the
\* background rollback to finish.
Return(c) ==
    /\ pc[c] = "returning"
    /\ tx[c] # "open"
    /\ slots' = slots - 1
    /\ Goto(c, "done")
    /\ UNCHANGED <<kind, result, contextVars, dbVars, serverVars>>

-----------------------------------------------------------------------------
(* MySQL carries out, or refuses, a request that may be committed. *)

ServerApply(c) ==
    /\ wire[c] = "sent"
    /\ wire' = [wire EXCEPT ![c] = "applied"]
    /\ applied' = [applied EXCEPT ![c] = @ + 1]
    /\ UNCHANGED <<callVars, contextVars, slots, dbVars>>

ServerRefuse(c) ==
    /\ wire[c] = "sent"
    /\ wire' = [wire EXCEPT ![c] = "refused"]
    /\ UNCHANGED <<callVars, contextVars, slots, dbVars, applied>>

-----------------------------------------------------------------------------
SlotStep(c) ==
    \/ Acquire(c) \/ AcquireCancelled(c)
    \/ Reject(c) \/ ListNothing(c) \/ Admit(c) \/ Return(c)

ConnStep(c) ==
    \/ GetConn(c) \/ ConnFail(c) \/ BadConn(c)
    \/ Begin(c) \/ Watch(c) \/ Send(c) \/ SendFail(c)

StatementStep(c) ==
    \/ Start(c) \/ StartFail(c)
    \/ RunOk(c) \/ ExecOk(c) \/ RunFail(c) \/ Resend(c)
    \/ ReadOk(c) \/ ReadToCommit(c) \/ ReadFail(c)

EndStep(c) ==
    \/ CheckCommit(c) \/ Claim(c) \/ Commit(c) \/ CommitRefused(c)
    \/ CommitOk(c) \/ CommitFail(c)
    \/ Rollback(c)

CallStep(c) == SlotStep(c) \/ ConnStep(c) \/ StatementStep(c) \/ EndStep(c)

ServerStep(c) == ServerApply(c) \/ ServerRefuse(c)

Next ==
    \E c \in Calls :
        \/ \E k \in Requests : Submit(c, k)
        \/ Cancel(c) \/ Expire(c)
        \/ CallStep(c)
        \/ AwaitDone(c) \/ RollbackEnd(c)
        \/ ServerStep(c)

\* The goroutine of a call is scheduled, its timer fires, and so do the
\* context watcher and the rollback of database/sql, which ends at the latest
\* with the driver's read timeout. Neither clients nor MySQL owe a step.
Fairness ==
    \A c \in Calls :
        /\ WF_vars(CallStep(c))
        /\ WF_vars(Expire(c))
        /\ WF_vars(AwaitDone(c))
        /\ WF_vars(RollbackEnd(c))

Spec == Init /\ [][Next]_vars

FairSpec == Spec /\ Fairness
-----------------------------------------------------------------------------
(* Correctness. *)

PCs == {"idle", "queued", "admitted", "done"} \cup Executing

TxStates == {"none", "open", "rollingBack", "committing", "closed"}

\* Every variable keeps its type; the channel of slots never holds more than
\* its capacity (registry.go:177).
TypeOK ==
    /\ pc \in [Calls -> PCs]
    /\ kind \in [Calls -> Kinds]
    /\ result \in [Calls -> {"none", "ok", "failed", "inDoubt"}]
    /\ cancelled \in SUBSET Calls
    /\ expired \in SUBSET Calls
    /\ slots \in 0..MaxConcurrency
    /\ conn \in [Calls -> Pools \cup {"none"}]
    /\ tx \in [Calls -> TxStates]
    /\ todo \in [Calls -> 0..2]
    /\ wire \in [Calls -> {"none", "sent", "applied", "refused"}]
    /\ applied \in [Calls -> Nat]

Holders == {c \in Calls : pc[c] \notin {"idle", "queued", "done"}}

\* Every slot taken from the limiter belongs to a call that has not been
\* answered, whatever branch the select of Acquire took and whatever path the
\* handler returned by: none leaks and none is given back twice.
SlotsAccounted == slots = Cardinality(Holders)

\* A connection is in use only under a slot, or by a rollback that database/sql
\* runs in the background for a call already answered.
ConnUnderSlot ==
    \A c \in Calls : conn[c] # "none" => c \in Holders \/ tx[c] = "rollingBack"

\* A call waiting for a connection holds none, so that calls never wait for
\* each other's connections: DescribeTable reads its two results one after
\* the other, not one inside the other.
NoHoldAndWait ==
    \A c \in Calls : pc[c] \in {"queued", "admitted", "waiting"} => conn[c] = "none"

\* An answered call has left no transaction open on a connection, on any of
\* the error paths.
NoOpenTxAfterAnswer ==
    \A c \in Calls : pc[c] = "done" => tx[c] \in {"none", "rollingBack", "closed"}

\* A client told "ok" can rely on the effect, although Commit and the answer
\* of MySQL race with the timeout and the client's own cancellation.
AckedIsApplied ==
    \A c \in Calls : result[c] = "ok" /\ Effectful(kind[c]) => applied[c] = 1

\* A client told of a failure that does not name the commit or the DDL can
\* retry: the effect has not happened, and no request that could make it
\* happen is on its way to MySQL.
FailedIsNeverApplied ==
    \A c \in Calls :
        result[c] = "failed" => applied[c] = 0 /\ wire[c] = "none"

\* No effect happens twice, although database/sql sends some requests again.
AppliedAtMostOnce == \A c \in Calls : applied[c] <= 1

\* Nothing becomes durable under a feature that is off.
OnlyEnabledEffects ==
    \A c \in Calls : applied[c] > 0 => Effectful(kind[c]) /\ kind[c] \in Features

\* Before the driver, or Tx.Commit, looks at the context for the last time: the
\* call may still wait for its slot or its connection, run or read what it will
\* commit, or be about to send a refused DDL again.
Revocable(c) ==
    \/ pc[c] \in {"queued", "admitted", "waiting", "connected", "ready", "reading", "commit"}
    \/ pc[c] = "running" /\ Transactional(kind[c])

\* A client that cancels, or a timeout that passes, while the call can still be
\* revoked is in time: whatever the call does from then on, and whoever rolls
\* its transaction back, no effect of it ever reaches MySQL. Later, the context
\* may be done and COMMIT or the DDL be sent all the same.
RevokedInTime ==
    \A c \in Calls :
        [](ContextDone(c) /\ Revocable(c) => [](applied[c] = 0 /\ wire[c] = "none"))

\* Every call that was made is answered.
Answered == \A c \in Calls : pc[c] # "idle" ~> pc[c] = "done"

\* Every connection taken goes back to its pool.
ConnsReturned == \A c \in Calls : conn[c] # "none" ~> conn[c] = "none"

\* registry.go:59-61: every handler reserves a slot "before touching MySQL so
\* one noisy client cannot consume the entire database/sql pool". With fewer
\* slots than connections, a pool should never be used up.
PoolNeverUsedUp ==
    MaxConcurrency < MaxOpen => \A p \in Pools : Cardinality(InUse(p)) < MaxOpen

\* What a client can observe of a call.
Status == [c \in Calls |-> IF pc[c] = "idle" THEN "idle"
                           ELSE IF pc[c] = "done" THEN result[c] ELSE "pending"]

Abstract == INSTANCE AtomicCalls WITH status <- Status

\* The calls implement the promise of AtomicCalls.
ImplementsAtomicCalls == Abstract!Spec
=============================================================================
