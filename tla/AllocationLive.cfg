SPECIFICATION FairSpec
CONSTANTS
    ca = ca
    cb = cb
    w1 = w1
    ka = ka
    kb = kb
    p1 = p1
    p2 = p2
    None = None
    Claims = {ca, cb}
    Leases = {ka, kb}
    Pools = {p1}
    Workers = {w1}
    LeaseNameFor <- PrivateKeys
    PoolRefs <- OnePool
    Space <- OneValue
    Requested <- NothingRequested
    ReleaseAfter = {}
    Respecced = {cb}
    Lagging = TRUE
    Restarts = TRUE
    Founded = {p1}
    Orphans = {}
    MaxBirths = 2
PROPERTIES EventuallyAllocated DeletionCompletes
CHECK_DEADLOCK FALSE
