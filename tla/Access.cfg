\* Every way to an account, a secret or a tool.
SPECIFICATION Spec
CONSTANTS
    Files <- MCFiles
    Requested <- MCRequested
    Names = {a, b}
    Schemas = {s1, s2}
    Routines = {f, g}
    a = a
    b = b
    s1 = s1
    s2 = s2
    f = f
    g = g
    None = None
    MaxInt = 7
CHECK_DEADLOCK FALSE
INVARIANTS
    TypeOK AcceptedStarts OpenedWithSecret WriteIsGated OnlyServedSecrets
    ToolsDocumented
