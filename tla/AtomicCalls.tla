---------------------------- MODULE AtomicCalls ----------------------------
(***************************************************************************)
(* What the tool calls of a datasource promise their clients: a call has   *)
(* at most one durable effect, only of a kind whose feature is on; "ok"    *)
(* means that the effect has happened, "failed" that it has not and never  *)
(* will; only "inDoubt", the answer of an operation that names the commit  *)
(* or the DDL itself, leaves it open, even after the answer.               *)
(***************************************************************************)
EXTENDS Naturals

CONSTANTS Calls, Requests, Features

VARIABLES kind, status, applied

absVars == <<kind, status, applied>>

\* The kinds of call that change data, and those that may here.
Effectful == {"dml", "ddl", "fnWrite"}
Enabled == Effectful \cap Features

Init ==
    /\ kind = [c \in Calls |-> "query"]
    /\ status = [c \in Calls |-> "idle"]
    /\ applied = [c \in Calls |-> 0]

Submit(c, k) ==
    /\ status[c] = "idle"
    /\ status' = [status EXCEPT ![c] = "pending"]
    /\ kind' = [kind EXCEPT ![c] = k]
    /\ UNCHANGED applied

\* The one durable effect, before the answer or after an answer in doubt.
Apply(c) ==
    /\ status[c] \in {"pending", "inDoubt"}
    /\ kind[c] \in Enabled
    /\ applied[c] = 0
    /\ applied' = [applied EXCEPT ![c] = 1]
    /\ UNCHANGED <<kind, status>>

Answer(c, r) ==
    /\ status[c] = "pending"
    /\ status' = [status EXCEPT ![c] = r]
    /\ UNCHANGED <<kind, applied>>

AnswerOk(c) ==
    /\ kind[c] \in Effectful => applied[c] = 1
    /\ Answer(c, "ok")

AnswerFailed(c) ==
    /\ applied[c] = 0
    /\ Answer(c, "failed")

AnswerInDoubt(c) ==
    /\ kind[c] \in Enabled
    /\ Answer(c, "inDoubt")

Next ==
    \E c \in Calls :
        \/ \E k \in Requests : Submit(c, k)
        \/ Apply(c)
        \/ AnswerOk(c) \/ AnswerFailed(c) \/ AnswerInDoubt(c)

Spec == Init /\ [][Next]_absVars
=============================================================================
