CONSTANTS
    s1 = s1
    ZeroTs = ZeroTs
    Sessions <- MCSessions
    Expiries <- MCExpiries
    TicksPerSec = 2
    MaxTime = 8
    InvalidateTimeout = 2
    RelativeLimit = 3
    SetCanFail = TRUE
    GetCanFail = TRUE
    DecodeCanFail = TRUE
    MaxDelay = 1

SPECIFICATION Spec

INVARIANT TypeOK
PROPERTY FetchHitIsCurrent
