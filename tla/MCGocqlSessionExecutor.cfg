CONSTANTS
    p1 = p1
    p2 = p2
    cA = cA
    cA2 = cA2
    cB = cB
    NoCfg = NoCfg
    Callers <- MCCallers
    Configs <- MCConfigs
    Hash <- MCHash
    MaxWrites = 3
    MaxSessions = 3
    LoadCanFail = TRUE
    CreateCanFail = TRUE

SPECIFICATION Spec
SYMMETRY Symm

INVARIANT TypeOK
INVARIANT LastHashIsLive
