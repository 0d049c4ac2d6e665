SPECIFICATION MCSpec
CONSTANTS
    RecordOf <- MCRecordOf
    PlanOf <- MCPlanOf
    Writes <- MCWrites
    Cap = 3
    MaxWrites = 3
    Wanted <- MCWanted
    CheckOf <- MCCheckOf
    Closure <- MCClosure
    Sizes <- MCSizes
    Substituters <- MCSubstituters
    Holdings <- MCHoldings
    CommitsOf <- MCCommitsOf
    VersionsOf <- MCVersionsOf
    MaxTroubles = 1
    MaxChanges = 2
    Entries = {"nix", "cacert", "libc"}
    Resolved = {"nix", "cacert"}
    Size = 2
    Scratch = {s1, s2}
    Temporary <- MCTemporary
    MaxAttempts = 2
    MaxFailures = 2
    MaxMeddling = 1
    Action <- MCAction
    Sync <- MCSync
    Reload = "reload"
    Loaded <- MCLoaded
    from <- MCFrom
    NoPath = NoPath
    UndoLists <- MCUndoLists
    MaxRecords = 6
    MaxSeq = 2
    Letter <- MCLetter
    Digit = {"1"}
    Char <- MCChar
    Keys <- MCKeys
    Names <- MCNames
    Reserved <- MCReserved
    MaxSize = 4
SYMMETRY ScratchNames
INVARIANTS
    RecoveryIsRight
    WhatIsWrittenIsRead
    LogIsUnderstood
    PreviewIsTrue
    RuntimeIsWholeOrGone
    UnitsSettle
CHECK_DEADLOCK FALSE
