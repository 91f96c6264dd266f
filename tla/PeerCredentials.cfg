SPECIFICATION Spec
CONSTANTS
    CmsgHdrSize = 16
    CmsgAlign = 8
    FdSize = 4
    UcredSize = 12
    I32Max = 1000
    HardFloor = 2
    HardCeiling = 2
    RlimInfinity = 4000
    UsizeMax = 3000
    FixedBudget = TRUE
    Linux = TRUE
    p1 = p1
    p2 = p2
    Process = {p1, p2}
    Pid <- Pids
    RootId <- Root
    UserId <- User
    Overflow = 99
    Claim <- SomeClaim
    ControlSizes <- Sizes
    MaxFds = 1
    MaxSends = 2
INVARIANTS NoImpersonation AttributedInTime
CHECK_DEADLOCK FALSE
