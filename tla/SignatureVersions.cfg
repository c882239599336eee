SPECIFICATION FairSpec

CONSTANTS
    Update = {u1, u2}
    Listing = {l1}
    Limit <- MCLimit
    PoolSize = 1
    Attempts = 3
    MaxReleases = 2

CHECK_DEADLOCK FALSE

INVARIANTS
    TypeOK
    RowsMatchAnswers
    LatestNotStale

PROPERTIES
    FeedsDelayNobody
