SPECIFICATION Spec
CONSTANTS
    n1 = n1
    n2 = n2
    c1 = c1
    c2 = c2
    c3 = c3
    c4 = c4
    None = None
    Nodes = {n1, n2}
    Cores = {c1, c2, c3, c4}
    Addrs = {a, b}
    NodeOf <- MCNodeOf
    L1Ways = 1
    LLCWays = 1
    Kinds <- MCKinds
    PrefetchMax = 0
    Configs <- MCConfigs
INVARIANT ReadsLatest
CHECK_DEADLOCK FALSE
