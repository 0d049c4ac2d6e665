SPECIFICATION FairSpec
CONSTANTS
    Client = {"alice"}
    OneShot = {}
    Member = {"alice"}
    Uid <- Users
    Nobody = Nobody
    Steps = 1
    MaxCommands = 1
    MaxOpen = 1
    MaxTroubles = 2
PROPERTY LeavingEndsTheRequest
CHECK_DEADLOCK FALSE
