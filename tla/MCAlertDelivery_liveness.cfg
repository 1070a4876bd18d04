CONSTANTS
    a1 = a1
    webhook = webhook
    discord = discord
    r1 = r1
    r2 = r2
    Alerts <- OneAlert
    Channels <- BothChannels
    Runners <- OneRunner
    Configs <- AnyConfig
    MaxAttempts = 2
    ClaimBatch = 8
    MaxFaults = 2
SPECIFICATION FairSpec
PROPERTIES
    DeliveriesEnd
    SummarySettles
