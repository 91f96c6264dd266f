SPECIFICATION Spec
CONSTANTS
    CmsgHdrSize = 16
    CmsgAlign = 8
    FdSize = 4
    UcredSize = 12
    I32Max = 40
    Capacity = 72
    Payloads = {4, 8, 12, 72}
    RewritesLen = TRUE
    MaxLen = 74
INVARIANTS WithinBuffer NoOverlap InStep RoundTrip OwnsExactlyReported
PROPERTIES WalkProgresses
CHECK_DEADLOCK FALSE
