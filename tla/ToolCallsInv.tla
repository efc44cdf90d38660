---------------------------- MODULE ToolCallsInv ----------------------------
(***************************************************************************)
(* The inductive invariant of ToolCalls: what a call's place in its        *)
(* handler says of its transaction, its connection, its request to MySQL   *)
(* and its outcome.                                                        *)
(***************************************************************************)
EXTENDS ToolCalls

Left == {"returning", "undoing", "done"}

\* No transaction before BEGIN; the transaction of a handler that is past it,
\* unless the background rollback took it, which only a context that is done
\* allows; none that is still open behind an answer.
TxInv(c) ==
    /\ pc[c] \in {"idle", "queued", "admitted", "waiting", "connected", "watched"} =>
          tx[c] = "none"
    /\ pc[c] \in {"ready", "commit", "checked"} =>
          Transactional(kind[c]) /\ tx[c] \in {"open", "rollingBack", "closed"}
    /\ pc[c] \in {"running", "reading"} =>
          IF Transactional(kind[c]) THEN tx[c] \in {"open", "rollingBack", "closed"}
                                    ELSE tx[c] = "none"
    /\ pc[c] = "committing" => Commits(kind[c]) /\ tx[c] = "committing"
    /\ pc[c] \in {"commit", "checked"} => Commits(kind[c])
    /\ pc[c] = "watched" => ~Transactional(kind[c])
    /\ pc[c] = "returning" => tx[c] # "committing"
    /\ pc[c] = "undoing" => tx[c] = "rollingBack"
    /\ pc[c] = "done" => tx[c] \in {"none", "rollingBack", "closed"}

\* A connection is held from GetConn on: by the statement outside a
\* transaction until it ends, by a transaction until it has ended.
ConnInv(c) ==
    /\ pc[c] \in {"idle", "queued", "admitted", "waiting"} => conn[c] = "none"
    /\ pc[c] \in Left \cup {"ready", "commit", "checked", "committing"} /\ conn[c] # "none" =>
          tx[c] \in {"open", "rollingBack", "committing"}
    /\ tx[c] = "closed" => conn[c] = "none"

\* A request that can be durable is on its way only for a kind that may be.
WireInv(c) ==
    /\ applied[c] = IF wire[c] = "applied" THEN 1 ELSE 0
    /\ wire[c] # "none" =>
          /\ Effectful(kind[c])
          /\ kind[c] \in Features
          /\ pc[c] \in Left \cup {"running", "committing"}
    /\ pc[c] = "running" /\ wire[c] # "none" => kind[c] = "ddl"
    /\ pc[c] \in Executing \ Left /\ Effectful(kind[c]) => kind[c] \in Features

\* The answer a handler has decided on says what it should of the request.
ResultInv(c) ==
    /\ result[c] # "none" <=> pc[c] \in Left
    /\ result[c] = "ok" /\ Effectful(kind[c]) => wire[c] = "applied"
    /\ result[c] = "failed" => wire[c] = "none"
    /\ result[c] = "inDoubt" => Effectful(kind[c]) /\ kind[c] \in Features

\* What is known of a call's kind once it has been made and admitted.
KindInv(c) ==
    /\ pc[c] # "idle" => Registered(kind[c])
    /\ pc[c] \in {"idle", "queued", "admitted"} => todo[c] = 0
    /\ todo[c] > 1 => kind[c] = "describe"
    /\ pc[c] = "reading" => kind[c] \notin {"ddl", "kill"}

CallInv(c) == TxInv(c) /\ ConnInv(c) /\ WireInv(c) /\ ResultInv(c) /\ KindInv(c)

\* What every reachable state satisfies and every step preserves: the types,
\* the account of the slots and, for every call, what its place in the handler
\* says of the rest of its state.
IInv ==
    /\ TypeOK
    /\ SlotsAccounted
    /\ \A c \in Calls : CallInv(c)
=============================================================================
