CONSTANTS
    k1 = k1
    k2 = k2
    p1 = p1
    p2 = p2
    p3 = p3
    NoKs = NoKs
    Keyspaces <- MCKeyspaces
    Callers <- MCCallers
    LoadCanFail = TRUE

SPECIFICATION KsSpec
SYMMETRY Symm

INVARIANT KsTypeOK
INVARIANT SingleExecutorPerKeyspace
INVARIANT OneWatcherPerKeyspace
