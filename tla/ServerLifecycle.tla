--------------------------- MODULE ServerLifecycle ---------------------------
(***************************************************************************)
(* One run of the HTTP server: serveAction (internal/app/app.go) opens the *)
(* registry of data sources (internal/datasource/registry.go), serves them *)
(* (internal/app/serve.go) until the listener fails or the process is      *)
(* told to stop, and closes the registry through its deferred call.        *)
(*                                                                         *)
(* Four parties run concurrently: the main goroutine, the goroutine in     *)
(* ListenAndServe, the connections of the clients, and the signal. net/http*)
(* and database/sql are external and modelled from how they are used.      *)
(***************************************************************************)
EXTENDS Naturals, FiniteSets

CONSTANTS
    NumSources,   \* the data sources, opened in the order of the file
    Writers,      \* those with a write feature that are not read-only
    Monitored,    \* those with monitoring on
    OwnMonitor,   \* those with a monitor credential of their own
    Connections   \* the connections clients make; each carries one request

Sources == 1..NumSources
Roles == {"read", "write", "monitor"}

ASSUME NumSourcesAssumption == NumSources \in Nat \ {0}
ASSUME WritersAssumption == Writers \subseteq Sources
ASSUME MonitoredAssumption == Monitored \subseteq Sources
ASSUME OwnMonitorAssumption == OwnMonitor \subseteq Monitored

VARIABLES
    stage,       \* where the main goroutine is
    outcome,     \* what serveAction is going to return
    current,     \* the data source being opened
    at,          \* the next part of it to be opened
    handle,      \* the pool each role of a source points to, or "nil"
    pool,        \* the pools ever created
    closes,      \* how often each was closed
    registered,  \* the names in the registry
    closed,      \* the sources whose Close has run
    signalled,   \* ctx is done
    listener,    \* the goroutine in ListenAndServe
    listenError, \* the channel its result is sent on
    shutdown,    \* Shutdown has been called: the server listens no more
    conn         \* the connections

startVars == <<current, at, handle, registered>>
poolVars == <<pool, closes, closed>>
listenVars == <<listener, listenError, shutdown>>
vars == <<stage, outcome, startVars, poolVars, signalled, listenVars, conn>>

-----------------------------------------------------------------------------
Init ==
    /\ stage = "opening"
    /\ outcome = "none"
    /\ current = 1
    /\ at = "read"
    /\ handle = [s \in Sources |-> [r \in Roles |-> "nil"]]
    /\ pool = [s \in Sources |-> [r \in Roles |-> "none"]]
    /\ closes = [s \in Sources |-> [r \in Roles |-> 0]]
    /\ registered = {}
    /\ closed = {}
    /\ signalled = FALSE
    /\ listener = "none"
    /\ listenError = "empty"
    /\ shutdown = FALSE
    /\ conn = [c \in Connections |-> "idle"]

\* The pools a source points to, each once: monitorDB may be readDB.
Owned(s) == {handle[s][r] : r \in Roles} \ {"nil"}

\* Fault: Close walks the three handles without looking for a pool it has seen.
CloseSourceTwice(s) ==
    /\ closed' = closed \cup {s}
    /\ pool' = [pool EXCEPT ![s] =
                  [r \in Roles |-> IF r \in Owned(s) THEN "closed" ELSE @[r]]]
    /\ closes' = [closes EXCEPT ![s] =
                    [r \in Roles |-> @[r] + Cardinality({q \in Roles : handle[s][q] = r})]]

CloseSource(s) ==
    /\ closed' = closed \cup {s}
    /\ pool' = [pool EXCEPT ![s] =
                  [r \in Roles |-> IF r \in Owned(s) THEN "closed" ELSE @[r]]]
    /\ closes' = [closes EXCEPT ![s] =
                    [r \in Roles |-> IF r \in Owned(s) THEN @[r] + 1 ELSE @[r]]]

\* The part of a source that comes after another one.
After(s, part) ==
    CASE part = "read" -> IF s \in Writers THEN "write"
                          ELSE IF s \in Monitored THEN "monitor" ELSE "done"
      [] part = "write" -> IF s \in Monitored THEN "monitor" ELSE "done"
      [] part = "monitor" -> "done"

Fail(from, to) == stage = from /\ stage' = to /\ outcome' = "error"

-----------------------------------------------------------------------------
(* Faults: definitions as a plausible mistake in the code would have them.   *)
(* No specification uses them; each breaks a property stated below when it   *)
(* replaces the definition it is named after.                                *)

\* A source that cannot be opened is dropped and the rest are served.
SourceFailsAlone ==
    /\ stage = "opening"
    /\ stage' = "opened"
    /\ CloseSource(current)
    /\ UNCHANGED <<outcome, startVars, signalled, listenVars, conn>>

\* The bound on the list of sources is off by one.
RegisterPastEnd ==
    /\ stage = "opening"
    /\ at = "done"
    /\ registered' = registered \cup {current}
    /\ IF current <= NumSources
       THEN current' = current + 1 /\ at' = "read" /\ UNCHANGED stage
       ELSE stage' = "opened" /\ UNCHANGED <<current, at>>
    /\ UNCHANGED <<outcome, handle, poolVars, signalled, listenVars, conn>>

\* The error of Shutdown is dropped.
ShutdownTimeoutOk ==
    /\ stage = "draining"
    /\ stage' = "closing"
    /\ outcome' = "ok"
    /\ UNCHANGED <<startVars, poolVars, signalled, listenVars, conn>>

\* Shutdown has no deadline.
ShutdownTimeoutNever == FALSE

\* The result of ListenAndServe is not looked at after Shutdown.
JoinUnread ==
    /\ stage = "joining"
    /\ listenError # "empty"
    /\ listenError' = "empty"
    /\ outcome' = "ok"
    /\ stage' = "closing"
    /\ UNCHANGED <<startVars, poolVars, signalled, listener, shutdown, conn>>

-----------------------------------------------------------------------------
(* Opening the registry. *)

\* A pool is created, pinged, and kept; what is asked of it or built on it
\* succeeds. Everything that is asked of MySQL is asked under ctx.
OpenPool ==
    /\ stage = "opening"
    /\ ~signalled
    /\ at \in Roles
    /\ at = "monitor" => current \in OwnMonitor
    /\ pool' = [pool EXCEPT ![current][at] = "open"]
    /\ handle' = [handle EXCEPT ![current][at] = at]
    /\ at' = After(current, at)
    /\ UNCHANGED <<stage, outcome, current, registered, closes, closed, signalled,
                   listenVars, conn>>

\* Without a credential of its own, monitoring uses the read pool.
SharePool ==
    /\ stage = "opening"
    /\ ~signalled
    /\ at = "monitor"
    /\ current \notin OwnMonitor
    /\ handle' = [handle EXCEPT ![current]["monitor"] = "read"]
    /\ at' = "done"
    /\ UNCHANGED <<stage, outcome, current, registered, poolVars, signalled,
                   listenVars, conn>>

\* The ping fails: the pool is closed where it was created.
PingFails ==
    /\ stage = "opening"
    /\ at \in Roles
    /\ at = "monitor" => current \in OwnMonitor
    /\ pool' = [pool EXCEPT ![current][at] = "closed"]
    /\ closes' = [closes EXCEPT ![current][at] = 1]
    /\ at' = "failed"
    /\ UNCHANGED <<stage, outcome, current, handle, registered, closed, signalled,
                   listenVars, conn>>

\* A ping, the driver's configuration, the discovery of the version or of
\* performance_schema, or one of the services fails: the deferred calls of
\* openSource and of OpenRegistry close the source and those registered
\* before it.
SourceFails ==
    /\ Fail("opening", "closing")
    /\ CloseSource(current)
    /\ UNCHANGED <<startVars, signalled, listenVars, conn>>

Register ==
    /\ stage = "opening"
    /\ at = "done"
    /\ registered' = registered \cup {current}
    /\ IF current < NumSources
       THEN current' = current + 1 /\ at' = "read" /\ UNCHANGED stage
       ELSE stage' = "opened" /\ UNCHANGED <<current, at>>
    /\ UNCHANGED <<outcome, handle, poolVars, signalled, listenVars, conn>>

-----------------------------------------------------------------------------
(* Serving. *)

\* The endpoints are built and the listening goroutine started.
StartServing ==
    /\ stage = "opened"
    /\ stage' = "serving"
    /\ listener' = "starting"
    /\ UNCHANGED <<outcome, startVars, poolVars, signalled, listenError, shutdown, conn>>

Bind ==
    /\ listener = "starting"
    /\ ~shutdown
    /\ listener' = "bound"
    /\ UNCHANGED <<stage, outcome, startVars, poolVars, signalled, listenError, shutdown, conn>>

Listen ==
    /\ listener = "bound"
    /\ ~shutdown
    /\ listener' = "listening"
    /\ UNCHANGED <<stage, outcome, startVars, poolVars, signalled, listenError, shutdown, conn>>

\* The address cannot be bound, also when Shutdown comes after the look at it
\* that precedes the bind; or accepting connections fails for good.
ListenFails ==
    /\ listener = "starting" \/ (listener = "listening" /\ ~shutdown)
    /\ listener' = "failed"
    /\ listenError' = "failed"
    /\ UNCHANGED <<stage, outcome, startVars, poolVars, signalled, shutdown, conn>>

\* ListenAndServe returns ErrServerClosed, whether Shutdown finds it before
\* it binds, between binding and accepting, or accepting.
ListenEnds ==
    /\ listener \in {"starting", "bound", "listening"}
    /\ shutdown
    /\ listener' = "ended"
    /\ listenError' = "serverClosed"
    /\ UNCHANGED <<stage, outcome, startVars, poolVars, signalled, shutdown, conn>>

\* select: the listener's result, if there is one.
SelectListenError ==
    /\ stage = "serving"
    /\ listenError # "empty"
    /\ listenError' = "empty"
    /\ outcome' = IF listenError = "serverClosed" THEN "ok" ELSE "error"
    /\ stage' = "closing"
    /\ UNCHANGED <<startVars, poolVars, signalled, listener, shutdown, conn>>

\* select: the signal. Shutdown closes the listeners first.
SelectSignal ==
    /\ stage = "serving"
    /\ signalled
    /\ stage' = "draining"
    /\ shutdown' = TRUE
    /\ UNCHANGED <<outcome, startVars, poolVars, signalled, listener, listenError, conn>>

\* Shutdown returns when no connection is active, or new and not yet idle.
ShutdownEnds ==
    /\ stage = "draining"
    /\ \A c \in Connections : conn[c] \notin {"new", "active"}
    /\ stage' = "joining"
    /\ UNCHANGED <<outcome, startVars, poolVars, signalled, listenVars, conn>>

\* The ten seconds are over.
ShutdownTimeout ==
    /\ Fail("draining", "closing")
    /\ UNCHANGED <<startVars, poolVars, signalled, listenVars, conn>>

\* The result of ListenAndServe is waited for.
Join ==
    /\ stage = "joining"
    /\ listenError # "empty"
    /\ listenError' = "empty"
    /\ outcome' = IF listenError = "serverClosed" THEN "ok" ELSE "error"
    /\ stage' = "closing"
    /\ UNCHANGED <<startVars, poolVars, signalled, listener, shutdown, conn>>

-----------------------------------------------------------------------------
(* Closing the registry and leaving the process. *)

CloseRegistered(s) ==
    /\ stage = "closing"
    /\ s \in registered \ closed
    /\ CloseSource(s)
    /\ UNCHANGED <<stage, outcome, startVars, signalled, listenVars, conn>>

Closed ==
    /\ stage = "closing"
    /\ registered \subseteq closed
    /\ stage' = "returned"
    /\ UNCHANGED <<outcome, startVars, poolVars, signalled, listenVars, conn>>

\* main returns or calls os.Exit: every other goroutine ends with it.
Exit ==
    /\ stage = "returned"
    /\ stage' = "exited"
    /\ conn' = [c \in Connections |-> IF conn[c] = "active" THEN "cut" ELSE conn[c]]
    /\ UNCHANGED <<outcome, startVars, poolVars, signalled, listenVars>>

-----------------------------------------------------------------------------
(* The signal and the clients. *)

Signal ==
    /\ stage # "exited"
    /\ ~signalled
    /\ signalled' = TRUE
    /\ UNCHANGED <<stage, outcome, startVars, poolVars, listenVars, conn>>

Running == stage # "exited"

\* A connection is accepted while the server listens, and refused as soon as
\* Shutdown has closed the listener.
Connect(c) ==
    /\ Running
    /\ conn[c] = "idle"
    /\ listener = "listening" \/ shutdown
    /\ conn' = [conn EXCEPT ![c] = IF shutdown THEN "refused" ELSE "new"]
    /\ UNCHANGED <<stage, outcome, startVars, poolVars, signalled, listenVars>>

\* The header of its request is read and the handler starts, even while
\* Shutdown waits.
Request(c) ==
    /\ Running
    /\ conn[c] = "new"
    /\ conn' = [conn EXCEPT ![c] = "active"]
    /\ UNCHANGED <<stage, outcome, startVars, poolVars, signalled, listenVars>>

\* Shutdown takes a connection that has sent nothing for five seconds for
\* idle and closes it; a client may close it at any time.
Hangup(c) ==
    /\ Running
    /\ conn[c] = "new"
    /\ conn' = [conn EXCEPT ![c] = "dropped"]
    /\ UNCHANGED <<stage, outcome, startVars, poolVars, signalled, listenVars>>

Answer(c) ==
    /\ Running
    /\ conn[c] = "active"
    /\ conn' = [conn EXCEPT ![c] = "answered"]
    /\ UNCHANGED <<stage, outcome, startVars, poolVars, signalled, listenVars>>

-----------------------------------------------------------------------------
OpenStep == OpenPool \/ SharePool \/ PingFails \/ SourceFails \/ Register

ServeStep ==
    \/ StartServing \/ SelectListenError \/ SelectSignal
    \/ ShutdownEnds \/ ShutdownTimeout \/ Join

CloseStep == (\E s \in Sources : CloseRegistered(s)) \/ Closed \/ Exit

MainStep == OpenStep \/ ServeStep \/ CloseStep

ListenerStep == Running /\ (Bind \/ Listen \/ ListenFails \/ ListenEnds)

ConnectionStep(c) == Connect(c) \/ Request(c) \/ Hangup(c) \/ Answer(c)

Next ==
    \/ MainStep
    \/ ListenerStep
    \/ Signal
    \/ \E c \in Connections : ConnectionStep(c)

\* The main goroutine is scheduled, and what it waits for while it opens the
\* registry or drains the server has a deadline; so is the goroutine in
\* ListenAndServe once Shutdown has been called. Nobody owes a signal, a
\* failure, a request or an answer.
Fairness == WF_vars(MainStep) /\ WF_vars(Running /\ ListenEnds)

Spec == Init /\ [][Next]_vars

FairSpec == Spec /\ Fairness
-----------------------------------------------------------------------------
(* Correctness. *)

TypeOK ==
    /\ stage \in {"opening", "opened", "serving", "draining", "joining", "closing",
                  "returned", "exited"}
    /\ outcome \in {"none", "ok", "error"}
    /\ current \in Sources
    /\ at \in Roles \cup {"done", "failed"}
    /\ handle \in [Sources -> [Roles -> Roles \cup {"nil"}]]
    /\ pool \in [Sources -> [Roles -> {"none", "open", "closed"}]]
    /\ closes \in [Sources -> [Roles -> Nat]]
    /\ registered \subseteq Sources
    /\ closed \subseteq Sources
    /\ signalled \in BOOLEAN
    /\ listener \in {"none", "starting", "bound", "listening", "failed", "ended"}
    /\ listenError \in {"empty", "failed", "serverClosed"}
    /\ shutdown \in BOOLEAN
    /\ conn \in [Connections -> {"idle", "new", "active", "answered", "dropped",
                                 "refused", "cut"}]

\* The pools a source is configured to have.
Needed(s) == {"read"} \cup (IF s \in Writers THEN {"write"} ELSE {})
                      \cup (IF s \in OwnMonitor THEN {"monitor"} ELSE {})

\* The registry is opened atomically (registry.go:115-116): no request is
\* handled unless every source has every one of its pools.
ServedOnlyComplete ==
    \A c \in Connections :
        conn[c] = "active" => \A s \in Sources : Needed(s) \subseteq Owned(s)

\* Every pool that was created, on whatever path the startup failed or the
\* server stopped, has been closed exactly once when serveAction returns,
\* the one shared by two roles included.
EveryPoolClosedOnce ==
    stage \in {"returned", "exited"} =>
        \A s \in Sources, r \in Roles :
            /\ pool[s][r] # "open"
            /\ closes[s][r] = IF pool[s][r] = "none" THEN 0 ELSE 1

\* Unless the process reports an error, no handler has seen its pools close
\* under it, and none was cut off by the end of the process.
CleanStopFinishesRequests ==
    outcome # "error" =>
        \A c \in Connections :
            /\ conn[c] # "cut"
            /\ conn[c] = "active" => \A s \in Sources, r \in Roles : pool[s][r] # "closed"

\* A listener that failed is reported, even when the signal is seen first.
ListenFailureReported == listener = "failed" => outcome # "ok"

\* A signal, or a listener that fails, ends the process, however long the
\* handlers take.
Terminates == (signalled \/ listener = "failed") ~> stage = "exited"

\* README.md:142: "GET /readyz returns 200 OK while the process is ready and
\* 503 Service Unavailable during shutdown". A probe sent while the server
\* shuts down should be answered.
ProbeAnsweredDuringShutdown ==
    \A c \in Connections : stage = "draining" => conn[c] # "refused"
=============================================================================
