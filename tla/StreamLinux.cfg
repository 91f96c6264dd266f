SPECIFICATION Spec
CONSTANTS
    CmsgHdrSize = 16
    CmsgAlign = 8
    FdSize = 4
    UcredSize = 12
    I32Max = 1000000
    Sender = {s1, s2}
    Receiver = {r1}
    Frame <- AllFrames
    Mode <- TwoModes
    SockBuf = 3
    BufLen = 2
    TableSize = 2
    ScmMaxFd = 2
    HardFloor = 2
    HardCeiling = 2
    RlimInfinity = 2147483647
    UsizeMax = 2147483646
    FixedBudget = TRUE
    Nofile = {100}
    SocketKind = "Stream"
    Linux = TRUE
    Suppression = "MSG_NOSIGNAL"
    AtomicCloexec = TRUE
    InstallsOmitted = FALSE
    Async = TRUE
SYMMETRY Symmetry
INVARIANTS TypeOK RightsRideOnce OkIsComplete ReceiptAccounted NoDescriptorLeak BudgetSuffices
CHECK_DEADLOCK FALSE
