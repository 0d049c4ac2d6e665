SPECIFICATION Spec
CONSTANTS
    User = {"alice"}
    Lister = {"list", "warm"}
    Warming = {"warm"}
    user <- MCuser
    Remover = {"purge"}
    Package = {"vim", "git"}
    Pins = {1, 2}
    Built <- MCBuilt
    Unmoved = {"git"}
    Mirrored = FALSE
    MaxSwitches = 2
    MaxAsks = 2
    None = None
INVARIANTS
    ListingIsTrue
    NothingListsWhileRemoving
PROPERTIES
    EveryoneIsServed
CHECK_DEADLOCK FALSE
