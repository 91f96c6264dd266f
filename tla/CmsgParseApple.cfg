SPECIFICATION Spec
CONSTANTS
    CmsgHdrSize = 12
    CmsgAlign = 4
    FdSize = 4
    UcredSize = 12
    I32Max = 24
    Capacity = 48
    Payloads = {4, 8, 12}
    RewritesLen = FALSE
    MaxLen = 50
INVARIANTS OwnsExactlyReported
CHECK_DEADLOCK FALSE
