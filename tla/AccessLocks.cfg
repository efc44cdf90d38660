\* A monitoring tool that the server may not support.
SPECIFICATION Spec
CONSTANTS
    Files <- MCFiles
    Requested <- MCRequested
    Names = {a, b}
    Schemas = {s1, s2}
    Routines = {f, g}
    a = a
    b = b
    s1 = s1
    s2 = s2
    f = f
    g = g
    None = None
    MaxInt = 7
CHECK_DEADLOCK FALSE
INVARIANT
    LocksAsDocumented
