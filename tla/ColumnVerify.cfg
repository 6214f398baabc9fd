SPECIFICATION Spec
CONSTANTS
    c = c
    d = d
    Callers = {c, d}
    Requests <- MCRequests
    Hidden = Hidden
    cuda = cuda
    Backends = {cuda}
    Unprobed = Unprobed
    NoBackend = NoBackend
    Nobody = Nobody
SYMMETRY CallersSymmetry
INVARIANTS
    TypeOK
PROPERTIES
    ImplementsVerdict
