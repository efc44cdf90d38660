\* A result that is too wide.
SPECIFICATION Spec
CONSTANTS
    Configs <- MCConfigs
    DefaultRows = 1
    Requests <- MCRequests
    ResultSets <- MCResultSets
    MaxInt64 = 200000000
CHECK_DEADLOCK FALSE
INVARIANT
    ColumnCapKeepsRows
