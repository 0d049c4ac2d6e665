SPECIFICATION StreamSpec
CONSTANTS
    Action <- MCAction
    Sync = {"reload"}
    Reload = "reload"
    Loaded = {"start"}
    from <- MCFrom
    NoPath = NoPath
    N = 2
    Shielded = {0}
    Deps <- MCDeps
    Independent = TRUE
    Plans <- MCPlans
    UndoLists <- MCUndoLists
    Keep = {"keep"}
    Readings = {1, 2}
    MaxTroubles = 2
    Level = "Step"
    Live = TRUE
    MaxPreludes = 1
    Wide = TRUE
INVARIANTS
    StepsAreAtomic
    StreamIsAccepted
    ReadersAreRight
