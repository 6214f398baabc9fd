SPECIFICATION Spec
CONSTANTS
    cuda = cuda
    opencl = opencl
    none = none
    cpu = cpu
    notoken = notoken
    Devices <- MCDevices
    NoDevice = none
    Cpu = cpu
    Requests <- MCRequests
    NoToken = notoken
    KChunk = 3
    SmallBatch = 3
    Pool = 3
INVARIANTS
    TypeOK
    FailClosed
    ExactWhenComplete
    VerdictsInOrder
    ContextsOwned
