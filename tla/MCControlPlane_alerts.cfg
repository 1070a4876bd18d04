CONSTANTS
    m1 = m1
    Monitors <- OneMonitor
    MaxAttempts = 2
    AutoPromote <- ShippedWorker
    MaxExecutions = 6
    MaxGenerations = 1
SPECIFICATION Spec
INVARIANTS
    OneLiveConfirmation
    AlertsAreConfirmed
    OneAlertPerSighting
