\* Two runs for two stable releases with a prerelease between, a moved tag, two reruns.
SPECIFICATION Spec
CONSTANTS
    NumReleases = 3
    Prereleases = {2}
    Runs = {w1,w2}
    MaxRevision = 2
    MaxReruns = 2
SYMMETRY Symmetry
CHECK_DEADLOCK FALSE
INVARIANTS
    PublishedIsComplete LatestIsPublished SucceededIsPromoted
PROPERTIES
    AliasesImmutable LatestMovesForward
