SPECIFICATION Spec
CONSTANTS
    ca = ca
    cb = cb
    w1 = w1
    ka = ka
    kb = kb
    p1 = p1
    p2 = p2
    None = None
    Claims = {ca, cb}
    Leases = {ka}
    Pools = {p1}
    Workers = {w1}
    LeaseNameFor <- SharedKey
    PoolRefs <- OnePool
    Space <- TwoValues
    Requested <- NothingRequested
    ReleaseAfter = {ca, cb}
    Respecced = {}
    Lagging = TRUE
    Restarts = FALSE
    Founded = {p1}
    Orphans = {}
    MaxBirths = 3
INVARIANT UniqueValues
CHECK_DEADLOCK FALSE
