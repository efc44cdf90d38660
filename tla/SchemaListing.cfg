\* Allow-lists of one and two patterns, catalogs around the bound of rows.
SPECIFICATION Spec
CONSTANTS
    Chars <- MCChars
    MaxSchemaRunes = 4
    Filters <- MCFilters
    Catalogs <- MCCatalogs
    Rows <- MCRows
    Answers <- MCAnswers
    Requested <- MCRequested
    MaxRows = {1, 2, 6}
    MaxInt = 6
CHECK_DEADLOCK FALSE
INVARIANTS
    MatchesWholeName ListingExact
