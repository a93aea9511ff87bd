SPECIFICATION Spec
CONSTANTS
    None = None
    ua = ua
    ub = ub
    b1 = b1
    b2 = b2
    eth0 = eth0
    net1 = net1
    Uids <- TheUids
    Boxes <- TheBoxes
    NicOrder <- TheNics
    Worlds <- AllWorlds
    Faults = {"io", "lost", "crash", "abandon"}
    MaxFaults = 1
    MaxEdits = 1
    MaxTries = 2
    MaxDels <- OldTwice
INVARIANTS
    LiveAttached
    LiveChecks
    ReleasedByDel
CHECK_DEADLOCK FALSE
