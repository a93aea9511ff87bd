SPECIFICATION FairSpec
CONSTANTS
    None = None
    g1 = g1
    g2 = g2
    acl1 = acl1
    n1 = n1
    n2 = n2
    xa = xa
    ya = ya
    cpu1 = cpu1
    Groups = {g1}
    Acls = {acl1}
    Nics = {n1}
    Addrs = {xa, ya}
    Packets <- OneFlow
    Local = {xa}
    AclOf <- OneAcl
    Specs <- FewSpecs
    Joins <- SmallJoins
    Window = 2
    CtSize = 3
    Sweeps = TRUE
    Cpus = {cpu1}
    Flags = {"ack"}
    Faults = {"rules", "bump", "delete", "member", "sweep"}
    Founded = {g1, n1}
    MaxEdits = 1
    MaxFaults = 1
    MaxEpoch = 6
PROPERTY Converges
PROPERTY StaleSwept
CHECK_DEADLOCK FALSE
