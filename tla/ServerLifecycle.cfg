\* Three sources: all three pools, a shared monitor pool, a read pool alone.
SPECIFICATION FairSpec
CONSTANTS
    NumSources = 3
    Writers = {1}
    Monitored = {1, 2}
    OwnMonitor = {1}
    Connections = {q1, q2, q3}
CHECK_DEADLOCK FALSE
INVARIANTS
    TypeOK ServedOnlyComplete EveryPoolClosedOnce CleanStopFinishesRequests
    ListenFailureReported
PROPERTIES
    Terminates
