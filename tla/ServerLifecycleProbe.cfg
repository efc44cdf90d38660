\* One source, one connection: the readiness probe during shutdown.
SPECIFICATION Spec
CONSTANTS
    NumSources = 1
    Writers = {}
    Monitored = {}
    OwnMonitor = {}
    Connections = {q1, q2}
CHECK_DEADLOCK FALSE
INVARIANTS
    ProbeAnsweredDuringShutdown
