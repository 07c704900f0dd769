CONSTANTS
    h1 = h1
    h2 = h2
    p1 = p1
    p2 = p2
    c1 = c1
    c2 = c2
    c3 = c3
    cA = cA
    cA2 = cA2
    cB = cB
    NoConn = NoConn
    NoHost = NoHost
    NoCfg = NoCfg
    Hosts <- MCHosts
    Callers <- MCCallers
    Conns <- MCTwoConns
    Configs <- MCConfigs
    Hash <- MCHash
    CfgHosts <- MCCfgHosts
    NumConns = 1
    MaxWrites = 1
    MaxGen = 2
    LoadCanFail = TRUE

SPECIFICATION Spec

PROPERTY QueryTerminates
