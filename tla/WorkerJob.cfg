CONSTANTS
    Kinds = {"compile", "check", "repair"}
SPECIFICATION FairSpec
INVARIANTS
    NothingLeftBehind
    RepairsAreReplayed
PROPERTIES
    DeadlineIsNotStale
    JobSettles
CHECK_DEADLOCK FALSE
