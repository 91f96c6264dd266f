SPECIFICATION Spec
CONSTANTS
    CmsgHdrSize = 12
    CmsgAlign = 4
    FdSize = 4
    UcredSize = 12
    I32Max = 1000
    HardFloor = 2
    HardCeiling = 4
    RlimInfinity = 4000
    UsizeMax = 3000
    FixedBudget = FALSE
    Linux = FALSE
    Nofile <- Limits
    SocketKind = "Datagram"
    Sender = {s1}
    Receiver = {r1, r2}
    Parcel <- Parcels
    Mode <- Modes
    Seqpacket = FALSE
    QueueMax = 2
    LenMax = 2
    ScmMaxFd = 3
    MaxSends = 2
    BufLen = 1
    TableSize = 3
    AtomicCloexec = FALSE
    InstallsOmitted = TRUE
    Async = TRUE
SYMMETRY Symmetry
INVARIANTS TypeOK WholeMessage FittingIsWhole OneMessagePerSend NoDescriptorLeak BudgetSuffices
CHECK_DEADLOCK FALSE
