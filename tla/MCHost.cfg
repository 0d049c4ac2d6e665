SPECIFICATION FairSpec
CONSTANTS
    Client = {"alice", "eve", "eve2", "purge"}
    OneShot = {"purge"}
    Member = {"alice"}
    Uid <- Users
    Nobody = Nobody
    Steps = 1
    MaxCommands = 2
    MaxOpen = 1
    MaxTroubles = 2
INVARIANTS
    NobodyIsAbandoned
    AnswersAreTrue
PROPERTIES
    EveryoneIsAnswered
CHECK_DEADLOCK FALSE
