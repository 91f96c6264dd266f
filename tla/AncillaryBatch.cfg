SPECIFICATION FairSpec
CONSTANTS
    CmsgHdrSize = 16
    CmsgAlign = 8
    FdSize = 4
    UcredSize = 12
    I32Max = 2147483
    Fd = {f1, f2, f3}
    File1 = File1
    File2 = File2
    PidFile = PidFile
    Resource <- Files
    Closed = Closed
    Buffer = {b1}
    Caller = Caller
    Capacity = 56
    AtomicCloexec = TRUE
    Linux = TRUE
    SplitRights = FALSE
    InstallsOmitted = FALSE
    MaxBatch = 2
    MaxWire = 2
    MaxQueue = 1
INVARIANTS CompleteOrFlagged
PROPERTIES ReceiveReturns
