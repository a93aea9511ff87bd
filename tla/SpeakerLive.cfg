SPECIFICATION FairSpec
CONSTANTS
    None = None
    n1 = n1
    p1 = p1
    a1 = a1
    s1 = s1
    e1 = e1
    r1 = r1
    net = net
    junk = junk
    vip = vip
    Node = n1
    Pools = {p1}
    Advs = {a1}
    Slbs = {s1}
    Nets = {e1}
    Peers = {r1}
    ParsePrefix <- Parse
    vipPrefix <- ParseVip
    Values <- AllValues
    Initially <- Settled
    Faults = {"io", "apply", "exit", "kill"}
    MaxEdits = 2
    MaxFaults = 1
INVARIANT RecordedIsLoaded
PROPERTY Converges
