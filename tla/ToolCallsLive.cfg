\* Two calls of one kind of each shape, one slot, one connection, under fairness.
SPECIFICATION FairSpec
CONSTANTS
    Calls = {c1, c2}
    Requests <- LiveRequests
    Features <- AllFeatures
    MonitorPool = "monitor"
    MaxConcurrency = 1
    MaxOpen = 1
CHECK_DEADLOCK FALSE
INVARIANTS
    TypeOK SlotsAccounted NoHoldAndWait
PROPERTIES
    Answered ConnsReturned RevokedInTime
