SPECIFICATION Spec
CONSTANTS
    None = None
    AddressBits = 5
    MaxValue = 3
    MaxEntries = 2
    MaxRecordAddresses = 3
    ServiceCIDR <- ServiceAddresses
    PrefixBits = {2}
    PoolBits = {3, 4}
    Worlds <- NetworkWorlds
INVARIANTS
    NoLostWakeups
    UniqueIDs
    ForwardingComplete
PROPERTIES
    IDsKept
    Converges
CHECK_DEADLOCK FALSE
