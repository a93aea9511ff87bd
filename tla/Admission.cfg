SPECIFICATION Spec
CONSTANTS
    None = None
    AddressBits = 5
    MaxValue = 3
    MaxEntries = 2
    ServiceCIDR <- ServiceAddresses
    PrefixBits = {2, 3}
    PoolBits = {3, 4}
    Menus <- AllMenus
    Sidecars <- WithoutAndWithProbe
INVARIANTS
    PrefixesDisjoint
    GuardedReferencesHold
    OneOfItsSort
    PodAsAsked
    SomethingDeletable
