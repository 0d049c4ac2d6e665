SPECIFICATION RepairSpec
CONSTANTS
    Action <- DriveAction
    Sync <- DriveSync
    Reload <- DaemonReload
    Loaded <- DriveLoaded
    from <- DriveFrom
    NoPath = NoPath
    None = None
    N = 3
    Shielded = {0}
    Deps <- MCDeps
    Independent = FALSE
    Plans <- MCServicePlans
    UndoLists <- DriveUndoLists
    Keep <- DriveKeep
    Place <- MCPlace
    UnitFile = "unit"
    Git = "git"
    Junk = "junk"
    MaxActs = 4
    MaxCrashes = 2
    MaxFaults = 0
    JournalFaults = {}
    UndoFaults = FALSE
INVARIANTS
    PlanIsAtomic
    NewestStepFirst
    AllOrNothing
PROPERTIES
    RunnerSpec
    EveryJournalIsCleared
