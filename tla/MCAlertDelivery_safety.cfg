CONSTANTS
    a1 = a1
    webhook = webhook
    discord = discord
    r1 = r1
    r2 = r2
    Alerts <- OneAlert
    Channels <- BothChannels
    Runners <- TwoRunners
    Configs <- SharedConfig
    MaxAttempts = 2
    ClaimBatch = 8
    MaxFaults = 2
SPECIFICATION Spec
SYMMETRY Symmetry
INVARIANTS
    TypeOK
    DeliveredWasAccepted
    OutcomeIsOfLatestClaim
    RetriesBoundedByFaults
    SummaryNeverPremature
PROPERTIES
    OverIsOver
