SPECIFICATION Spec
CONSTANTS
    CmsgHdrSize = 12
    CmsgAlign = 4
    FdSize = 4
    UcredSize = 12
    I32Max = 1000000
    Sender = {s1, s2}
    Receiver = {r1, r2}
    Frame <- AppleFrames
    Mode <- AppleModes
    SockBuf = 2
    BufLen = 2
    TableSize = 4
    ScmMaxFd = 2
    HardFloor = 3
    HardCeiling = 3
    RlimInfinity = 2147483647
    UsizeMax = 2147483646
    FixedBudget = FALSE
    Nofile = {100}
    SocketKind = "Stream"
    Linux = FALSE
    Suppression = "SO_NOSIGPIPE"
    AtomicCloexec = FALSE
    InstallsOmitted = TRUE
    Async = FALSE
SYMMETRY Symmetry
INVARIANTS ReceiptAccounted NoDescriptorLeak NoSigpipe
CHECK_DEADLOCK FALSE
