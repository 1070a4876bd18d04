CONSTANTS
    j1 = j1
    j2 = j2
    w1 = w1
    w2 = w2
    p1 = p1
    p2 = p2
    Jobs <- OneJob
    Workers <- TwoWorkers
    Relays <- OneRelay
    MaxAttempts = 2
    MaxInFlight = 2
    MayExpire = TRUE
    MaxFaults = 0
SPECIFICATION Spec
INVARIANTS
    QueuedNeverExpires
CHECK_DEADLOCK FALSE
