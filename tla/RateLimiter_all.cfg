CONSTANTS
    Ips = {ip1, ip2, ip3}
    Conns = {c1, c2}
    Cost = 2
    ConnBurst = 4
    ConnRate = 2
    IpBurst = 3
    IpRate = 1
    Stale = 3
    MaxIps = 2
    Watched = ip1
    Delay = 1
    MaxNow = 5
SPECIFICATION Spec
SYMMETRY Alike
INVARIANTS
    IpBudget
PROPERTIES
    EvictsLeastRecent
CHECK_DEADLOCK FALSE
