CONSTANTS
    Buffer = 1
    MaxChanges = 1
    MaxVisits = 1
    MaxFaults = 1
SPECIFICATION FairSpec
INVARIANTS
    ToldIsShown
PROPERTIES
    PolledPagesCatchUp
    MonitorPageFollows
CHECK_DEADLOCK FALSE
