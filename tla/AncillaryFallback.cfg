SPECIFICATION Spec
CONSTANTS
    CmsgHdrSize = 12
    CmsgAlign = 4
    FdSize = 4
    UcredSize = 12
    I32Max = 2147483
    Fd = {f1, f2}
    File1 = File1
    File2 = File2
    PidFile = PidFile
    Resource <- Files
    Closed = Closed
    Buffer = {b1, b2}
    Caller = Caller
    Capacity = 32
    AtomicCloexec = FALSE
    Linux = FALSE
    SplitRights = TRUE
    InstallsOmitted = TRUE
    MaxBatch = 2
    MaxWire = 2
    MaxQueue = 1
SYMMETRY Symmetry
INVARIANTS NoLeak CloexecGuarantee
PROPERTIES ImplementsOwnership
