SPECIFICATION RepairSpec
CONSTANTS
    Action <- DriveAction
    Sync <- DriveSync
    Reload <- DaemonReload
    Loaded <- DriveLoaded
    from <- DriveFrom
    NoPath = NoPath
    None = None
    N = 3
    Shielded = {0}
    Deps <- MCFileDeps
    Independent = TRUE
    Plans <- MCFilePlans
    UndoLists <- DriveUndoLists
    Keep <- DriveKeep
    Place <- MCPlace
    UnitFile = "unit"
    Git = "git"
    Junk = "junk"
    MaxActs = 5
    MaxCrashes = 0
    MaxFaults = 1
    JournalFaults = {"lost", "unsynced"}
    UndoFaults = FALSE
INVARIANTS
    CanBePutBack
    StepsStandAlone
    ReportIsTrue
    DependenciesHold
PROPERTIES
    NothingStartsAfterStop
