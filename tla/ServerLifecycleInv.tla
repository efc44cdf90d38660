-------------------------- MODULE ServerLifecycleInv --------------------------
(***************************************************************************)
(* The inductive invariant of ServerLifecycle: how far a source has been   *)
(* opened, which pools are open, and what the listener, the connections    *)
(* and the outcome say of each other.                                      *)
(***************************************************************************)
EXTENDS ServerLifecycle

Opening(s) == stage = "opening" /\ s = current

Has(s, r) == handle[s][r] = r

Empty(s) == \A r \in Roles : handle[s][r] = "nil"

Complete(s) == \A r \in Needed(s) : Has(s, r)

\* A source points to its own pools; only monitoring may point to another,
\* which the source then has.
HandleInv(s) ==
    /\ handle[s]["read"] \in {"nil", "read"}
    /\ handle[s]["write"] \in {"nil", "write"}
    /\ handle[s]["monitor"] \in {"nil", "read", "monitor"}
    /\ ~Has(s, "read") => Empty(s)

\* The open pools of a source are the ones it points to until it is closed,
\* and a pool is closed once.
PoolInv(s) ==
    \A r \in Roles :
        /\ pool[s][r] = "open" <=> Has(s, r) /\ s \notin closed
        /\ closes[s][r] = IF pool[s][r] = "closed" THEN 1 ELSE 0

\* A source nobody has come to is empty; one that is registered is complete;
\* one that is neither has been closed, unless it is being opened.
SourceInv(s) ==
    /\ s \in registered => Complete(s)
    /\ ~Empty(s) => s \in registered \cup closed \/ Opening(s)
    /\ stage = "opening" =>
          /\ s \in registered <=> s < current
          /\ s > current => Empty(s) /\ \A r \in Roles : pool[s][r] = "none"
          /\ s \in registered => \A r \in Roles : pool[s][r] # "closed"

\* How far the source being opened has come: of the parts still to be opened
\* it has neither handle nor pool.
OpeningInv ==
    stage = "opening" =>
        /\ closed = {}
        /\ at = "read" => Empty(current)
        /\ at \in {"write", "monitor", "done"} => Has(current, "read")
        /\ at \in {"read", "write"} => pool[current]["write"] = "none"
        /\ at \in {"read", "write", "monitor"} =>
              /\ handle[current]["monitor"] = "nil"
              /\ pool[current]["monitor"] = "none"
              /\ pool[current][at] = "none"
        /\ at = "monitor" /\ current \in Writers => Has(current, "write")
        /\ at = "write" => current \in Writers
        /\ at = "monitor" => current \in Monitored
        /\ at = "done" => Complete(current)
        /\ at # "failed" => \A r \in Roles : pool[current][r] # "closed"

\* While the server is up, every source is registered and nothing is closed.
StageInv ==
    /\ stage \in {"opened", "serving", "draining", "joining"} =>
          /\ registered = Sources
          /\ closed = {}
          /\ \A s \in Sources, r \in Roles : pool[s][r] # "closed"
    /\ stage \in {"opening", "opened", "serving", "draining", "joining"} <=> outcome = "none"
    /\ stage \in {"opening", "opened"} => listener = "none"
    /\ stage \in {"serving", "draining", "joining"} => listener # "none"
    /\ listener # "none" => registered = Sources
    /\ stage \in {"returned", "exited"} => registered \subseteq closed

\* What the listener says of Shutdown, and the channel of the listener.
ListenerInv ==
    /\ stage \in {"opening", "opened", "serving"} => ~shutdown
    /\ stage \in {"draining", "joining"} => shutdown
    /\ listenError = "serverClosed" => shutdown /\ listener = "ended"
    /\ listener = "failed" => listenError = "failed" \/ outcome = "error"
    /\ shutdown => listener # "none"
    /\ outcome = "ok" => shutdown /\ listener = "ended"

\* A connection needs a listener; a clean stop leaves none behind.
ConnInv ==
    \A c \in Connections :
        /\ conn[c] # "idle" => listener # "none"
        /\ stage = "joining" \/ outcome = "ok" => conn[c] \notin {"new", "active", "cut"}
        /\ conn[c] = "cut" => stage = "exited"

\* What every reachable state satisfies and every step preserves.
IInv ==
    /\ TypeOK
    /\ \A s \in Sources : HandleInv(s) /\ PoolInv(s) /\ SourceInv(s)
    /\ OpeningInv
    /\ StageInv
    /\ ListenerInv
    /\ ConnInv
=============================================================================
