SPECIFICATION Spec
CONSTANTS
    None = None
    g1 = g1
    g2 = g2
    acl1 = acl1
    n1 = n1
    n2 = n2
    xa = xa
    ya = ya
    cpu1 = cpu1
    Groups = {g1}
    Acls = {acl1}
    Nics = {n1}
    Addrs = {xa, ya}
    Packets <- OneFlow
    Local = {xa}
    AclOf <- OneAcl
    Specs <- SmallSpecs
    Joins <- SmallJoins
    Window = 2
    CtSize = 3
    Sweeps = FALSE
    Cpus = {cpu1}
    Flags = {"ack", "rst"}
    Faults = {"rules", "delete", "member"}
    Founded = {g1, acl1, n1}
    MaxEdits = 2
    MaxFaults = 1
    MaxEpoch = 7
INVARIANTS RepliesPass AdmittedByCurrentRules
CHECK_DEADLOCK FALSE
