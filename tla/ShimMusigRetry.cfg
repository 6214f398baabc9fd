SPECIFICATION Spec
CONSTANTS
    p = p
    q = q
    c = c
    d = d
    s = s
    t = t
    u = u
    Signers = {p, q}
    OddY = {}
    KeyLists = {{p, q}}
    Caches = {c, d}
    Sessions = {s}
    Threads = {t, u}
    Rounds = {1}
    MaxKa = 2
    MaxToken = 3
    MaxTweaks = 1
SYMMETRY Interchangeable
INVARIANTS
    RetryKeepsTweak
CHECK_DEADLOCK FALSE
