CONSTANTS
    s1 = s1
    ZeroTs = ZeroTs
    Sessions <- MCSessions
    Expiries <- MCLiveExpiries
    TicksPerSec = 2
    MaxTime = 0
    InvalidateTimeout = 2
    RelativeLimit = 3
    SetCanFail = FALSE
    GetCanFail = TRUE
    DecodeCanFail = FALSE
    MaxDelay = 0

SPECIFICATION Spec

PROPERTY ImplementsTestCache
