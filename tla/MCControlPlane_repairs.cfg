CONSTANTS
    m1 = m1
    Monitors <- OneMonitor
    MaxAttempts = 2
    AutoPromote <- AnyWorker
    MaxExecutions = 5
    MaxGenerations = 3
SPECIFICATION Spec
INVARIANTS
    TypeOK
    RepairLease
    PromotionNeverStale
    CompilingHasWork
    ActiveIsScheduled
    ExecutionsRunKnownPlans
    
    
PROPERTIES
    GenerationNeverRegresses
    TerminalIsFinal
    ExecutionsKeepContract
