\* All short texts over seven sets of characters; statements of up to four blocks.
SPECIFICATION Spec
CONSTANTS
    Spaces <- MCSpaces
    Letters <- MCLetters
    Digits = {"1"}
    SymFn <- MCSymFn
    Texts <- MCTexts
    MaxSQLBytes = 6
    Schemas <- MCSchemas
    Names <- MCNames
    None = "None"
    Lower <- MCLower
    Dual = "dual"
    Sources <- MCSources
    Statements <- MCStatements
CHECK_DEADLOCK FALSE
INVARIANTS
    ScansAgreeWithLexing ReachesOnlyAllowed RejectedForCause OnlyServerBuiltins
