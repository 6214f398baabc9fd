SPECIFICATION Spec
CONSTANTS
    first = first
    second = second
    t = t
    u = u
    v = v
    b1 = b1
    b2 = b2
    missing = missing
    nofile = nofile
    cwd = cwd
    shared = shared
    byname = byname
    Processes = {first, second}
    Threads = {t, u, v}
    ProcessOf <- MCProcessOf
    NoThread = NoThread
    Blocks = {b1, b2}
    NoBlock = NoBlock
    Free = Free
    Missing = missing
    Dirs = {cwd, shared}
    Cwd = cwd
    NamedFiles = {byname}
    NoFile = nofile
    Configs <- MCConfigs
    Default <- MCDefault
    Env <- MCEnv
    Bits = 4
    Order = 13
    Lambda = 3
    Calls <- MCCalls
    NoCall = NoCall
    OldFiles <- MCOldFiles
    Named = {byname}
    MaxCalls = 4
    MaxCrashes = 1
SYMMETRY MCSymmetry
INVARIANTS
    TypeOK
    AliveWhileRead
    AnswersRight
    PublishedWhole
    ContextFitsConfig
    NoTemporaryLeft
CHECK_DEADLOCK FALSE
