CONSTANTS
    cA = cA
    cB = cB
    e1 = e1
    e2 = e2
    localhost = localhost
    DefaultHost = localhost
    DefaultProto = DefaultProto
    Configs <- MCConfigs
    PortOf <- MCPortOf
    HostsOf <- MCHostsOf
    MaxWrites = 1

SPECIFICATION Spec
\* Once the writes are used up the goroutine blocks in <-ch for good.
CHECK_DEADLOCK FALSE

PROPERTY EventuallyLoaded
