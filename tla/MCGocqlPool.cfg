CONSTANTS
    h1 = h1
    h2 = h2
    p1 = p1
    p2 = p2
    c1 = c1
    c2 = c2
    c3 = c3
    NoConn = NoConn
    NoHost = NoHost
    Hosts <- MCHosts
    Callers <- MCCallers
    Conns <- MCConns
    NumConns = 2
    MaxGen = 1

SPECIFICATION PoolSpec
SYMMETRY Symm

INVARIANT PoolTypeOK
INVARIANT ExclusiveCheckout
INVARIANT SlotConservation

