SPECIFICATION FairSpec
CONSTANTS
    A = A
    B = B
    C = C
    blank = blank
    zero = zero
    m = m
    empty = empty
    Sessions = {A, B}
    Foreign = {blank, zero}
    Blank = blank
    Degenerate = {zero}
    Payload = {m, empty}
    Empty = empty
    Nobody = Nobody
    MaxPackets = 3
PROPERTIES
    EventuallyOpened
CHECK_DEADLOCK FALSE
