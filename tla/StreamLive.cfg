SPECIFICATION FairSpec
CONSTANTS
    CmsgHdrSize = 16
    CmsgAlign = 8
    FdSize = 4
    UcredSize = 12
    I32Max = 1000000
    Sender = {s1, s2}
    Receiver = {r1}
    Frame <- FewFrames
    Mode <- OneMode
    SockBuf = 2
    BufLen = 2
    TableSize = 1
    ScmMaxFd = 2
    HardFloor = 2
    HardCeiling = 2
    RlimInfinity = 2147483647
    UsizeMax = 2147483646
    FixedBudget = TRUE
    Nofile = {100}
    SocketKind = "Stream"
    Linux = FALSE
    Suppression = "MSG_NOSIGNAL"
    AtomicCloexec = TRUE
    InstallsOmitted = FALSE
    Async = FALSE
PROPERTIES SendReturns SentIsDrained
CHECK_DEADLOCK FALSE
