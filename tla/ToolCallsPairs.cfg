\* Two calls of any kind under two slots, on pools of one connection.
SPECIFICATION Spec
CONSTANTS
    Calls = {c1, c2}
    Requests <- AllRequests
    Features = {"ddl", "fnWrite", "kill"}
    MonitorPool = "read"
    MaxConcurrency = 2
    MaxOpen = 1
SYMMETRY Symmetry
CHECK_DEADLOCK FALSE
INVARIANTS
    ConnUnderSlot NoOpenTxAfterAnswer
    FailedIsNeverApplied OnlyEnabledEffects
PROPERTIES
    ImplementsAtomicCalls
