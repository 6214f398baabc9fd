SPECIFICATION ThrowSpec
CONSTANTS
    a = a
    none = none
    Callers <- MCCallers
    NoCaller = none
    NWorkers = 2
    Jobs <- MCJobs
    MaxJobs = 1
INVARIANT BlocksUntilComplete
