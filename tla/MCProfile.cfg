SPECIFICATION Spec
CONSTANTS
    Lists = {"a", "b"}
    Seed = "a"
    Pins = {1, 2}
    Embedded = 1
    MaxGeneration = 4
    MaxRequests = 2
    MaxTroubles = 3
INVARIANTS
    UndoneProfileIsBack
    DoneIsWhole
    OldGenerationsAreKept
PROPERTIES
    HistoryOnlyGrows
CHECK_DEADLOCK FALSE
