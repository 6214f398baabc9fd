SPECIFICATION Spec
CONSTANTS
    A = A
    B = B
    C = C
    blank = blank
    zero = zero
    m = m
    empty = empty
    Sessions = {A, B, C}
    Foreign = {blank, zero}
    Blank = blank
    Degenerate = {zero}
    Payload = {m, empty}
    Empty = empty
    Nobody = Nobody
    MaxPackets = 2
SYMMETRY Interchangeable
PROPERTIES
    ImplementsChannel
INVARIANTS
    TypeOK
    NonceOnce
    SameIdMirrored
    OpenedIsPrefix
CHECK_DEADLOCK FALSE
