SPECIFICATION Spec
CONSTANTS
    MaxListed = 4
    Keys = {k1, k2}
    None = none
    MaxPages = 3
    MaxCount = 2
    Lan = TRUE
    SessionMaxAge = 0
    ResponseMaxAge = 1
    MaxTime = 2
    MaxJumps = 1
INVARIANTS SeriesIsWhole WatchlistIsWhole NothingFromTheFuture RowsAreAccountedFor
CHECK_DEADLOCK FALSE
