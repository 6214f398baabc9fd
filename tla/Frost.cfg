SPECIFICATION Spec
CONSTANTS
    q = 5
    N = 3
    Threshold = 2
    Polys <- MCPolys
    Nonces <- MCNonces
    Bindings <- MCBindings
    Challenges = {2}
    Lists <- MCLists
    MaxNonces = 3
    MaxSessions = 2
    MaxFaults = 1
INVARIANTS
    TypeOK
    SharesReconstruct
    PartialsVerify
    AggregateVerifies
    NonceUsedOnce
CHECK_DEADLOCK FALSE
