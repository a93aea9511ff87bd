SPECIFICATION Spec
CONSTANTS
    None = None
    Self = "n1"
    Worlds <- AllWorlds
INVARIANTS  MapsInStep BoundStillServed DnsAnswers
PROPERTIES MirrorKept CatchesUp
CHECK_DEADLOCK FALSE
