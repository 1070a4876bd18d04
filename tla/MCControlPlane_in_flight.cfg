CONSTANTS
    m1 = m1
    Monitors <- OneMonitor
    MaxAttempts = 2
    AutoPromote <- ShippedWorker
    MaxExecutions = 4
    MaxGenerations = 1
SPECIFICATION Spec
INVARIANTS
    SingleInFlight
