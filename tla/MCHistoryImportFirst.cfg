SPECIFICATION Spec
CONSTANTS
    Events = {1, 2, 3}
    InitialHistory = {1}
    Histories <- MCMovies
    PageSize = 1
    Overlap = 2
    MaxRetries = 2
    Delays = {0}
    MaxTime = 4
    MaxRemovals = 0
    MaxFailures = 2
INVARIANT
    NothingIsLeftBehind
