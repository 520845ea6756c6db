SPECIFICATION Spec
CONSTANTS
    Events = {1, 2}
    InitialHistory = {1}
    Histories <- MCHistories
    PageSize = 1
    Overlap = 1
    MaxRetries = 2
    Delays = {0, 1, 2}
    MaxTime = 3
    MaxRemovals = 1
    MaxFailures = 2
INVARIANTS
    TypeOK
    NothingFallsBehind
    BaselineIsHistory
    WatchIsOfItsTitle
PROPERTY
    TimelyEventIsImported
