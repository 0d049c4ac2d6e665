SPECIFICATION FairSpec
CONSTANTS
    Request <- DaemonRequest
    Process = {"daemon", "oneshot"}
    User = {"alice", "bob"}
    At <- DaemonAt
    For <- DaemonFor
    Wants <- DaemonWants
    Purges = {"purge"}
    NoUser = NoUser
    Nobody = Nobody
    NoFile = NoFile
    MaxFiles = 2
INVARIANTS
    ExclusiveUntilPurged
    OneRequestPerUser
PROPERTIES
    NamesAHolder
    EveryoneEnds
