\* Every result of up to three columns and rows under eight sets of limits.
SPECIFICATION Spec
CONSTANTS
    Configs <- MCConfigs
    DefaultRows = 1
    Requests <- MCRequests
    ResultSets <- MCResultSets
    MaxInt64 = 200000000
CHECK_DEADLOCK FALSE
INVARIANTS
    TypeOK LongestPrefix TruncatedIffIncomplete ReasonTold
    RowsClosed BoundedFetch
