SPECIFICATION Spec
CONSTANTS
    None = None
    Starts <- MCStarts
    Ops <- MCOps
    MaxActs = 2
    MaxMoves = 2
    MaxFaults = 1
    MaxCrashes = 2
INVARIANTS
    NothingIsLost
    UndoneIsAsBefore
PROPERTY
    PathIsTheirs
