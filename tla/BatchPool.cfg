SPECIFICATION FairSpec
CONSTANTS
    a = a
    b = b
    none = none
    Callers <- MCCallers
    NoCaller = none
    NWorkers = 3
    Jobs <- MCJobs
    MaxJobs = 2
INVARIANTS
    TypeOK
    BlocksUntilComplete
    PendingExact
    ThreadBudget
    EachRowOnce
PROPERTIES
    ImplementsJob
    RunCompletes
