CONSTANTS
    j1 = j1
    j2 = j2
    w1 = w1
    w2 = w2
    p1 = p1
    p2 = p2
    Jobs <- OneJob
    Workers <- TwoWorkers
    Relays <- OneRelay
    MaxAttempts = 2
    MaxInFlight = 1
    MayExpire = TRUE
    MaxFaults = 2
SPECIFICATION FairSpec
PROPERTIES
    JobsEnd
    QueueDrains
    RunningEnds
    WorkKeepsContract
CHECK_DEADLOCK FALSE
