SPECIFICATION FairSpec
CONSTANTS
    CmsgHdrSize = 16
    CmsgAlign = 8
    FdSize = 4
    UcredSize = 12
    I32Max = 1000
    HardFloor = 2
    HardCeiling = 2
    RlimInfinity = 4000
    UsizeMax = 3000
    FixedBudget = TRUE
    Linux = TRUE
    Nofile = {100}
    SocketKind = "Datagram"
    Sender = {s1, s2}
    Receiver = {r1, r2}
    Parcel <- LiveParcels
    Mode <- LiveModes
    Seqpacket = TRUE
    QueueMax = 1
    LenMax = 2
    ScmMaxFd = 2
    MaxSends = 1
    BufLen = 1
    TableSize = 2
    AtomicCloexec = TRUE
    InstallsOmitted = FALSE
    Async = TRUE
PROPERTIES SentIsTaken
CHECK_DEADLOCK FALSE
