CONSTANTS
    j1 = j1
    j2 = j2
    w1 = w1
    w2 = w2
    p1 = p1
    p2 = p2
    Jobs <- TwoJobs
    Workers <- TwoWorkers
    Relays <- TwoRelays
    MaxAttempts = 2
    MaxInFlight = 2
    MayExpire = FALSE
    MaxFaults = 1
SPECIFICATION Spec
SYMMETRY Symmetry
INVARIANTS
    TypeOK
    UnfinishedIsDeliverable
    OneOutcomePerJob
    RedundantWorkNeedsFaults
CHECK_DEADLOCK FALSE
