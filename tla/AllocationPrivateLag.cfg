SPECIFICATION Spec
CONSTANTS
    ca = ca
    cb = cb
    w1 = w1
    ka = ka
    kb = kb
    p1 = p1
    p2 = p2
    None = None
    Claims = {ca, cb}
    Leases = {ka, kb}
    Pools = {p1, p2}
    Workers = {w1}
    LeaseNameFor <- PrivateKeys
    PoolRefs <- BothPools
    Space <- OneEach
    Requested <- TwoRequested
    ReleaseAfter = {ca}
    Respecced = {}
    Lagging = TRUE
    Restarts = FALSE
    Founded = {p2}
    Orphans = {}
    MaxBirths = 2
INVARIANTS ReservedForKey LeaseAgrees
PROPERTIES Implements RefusedForCause
CHECK_DEADLOCK FALSE
