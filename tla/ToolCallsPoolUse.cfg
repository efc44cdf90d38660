\* One slot, two connections: can one client still use up a pool?
SPECIFICATION Spec
CONSTANTS
    Calls = {c1, c2}
    Requests = {"query"}
    Features = {}
    MonitorPool = "monitor"
    MaxConcurrency = 1
    MaxOpen = 2
CHECK_DEADLOCK FALSE
INVARIANTS
    PoolNeverUsedUp
