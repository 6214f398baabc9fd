SPECIFICATION Spec
CONSTANTS
    q = 5
    N = 3
    KeyHashes = {2, 4}
    NonceHashes = {3}
    Challenges = {0, 3}
    Tweaks = {1, 2}
    MaxTweaks = 2
    FirstHalves = {1, 4}
    SecondHalves = {1}
    Nonces <- MCNonces
INVARIANTS
    TypeOK
    AccumulatorsExact
    AggregateVerifies
    PartialsVerify
CHECK_DEADLOCK FALSE
