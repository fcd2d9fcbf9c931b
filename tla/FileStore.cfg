SPECIFICATION FairSpec
CONSTANTS
    Call = {"g1", "g2", "p1", "p2", "d1", "r1"}
    Id = {"i", "j"}
    Absent = "absent"
    Nobody = "nobody"
    Torn = Torn
    MaxCrashes = 1
    Kind <- MCKind
    Of <- MCOf
    Scope <- MCScope
INVARIANTS
    IInv
    HandedOutIsKept
PROPERTIES
    ImplementsAtomicStore
    EveryCallEnds
CHECK_DEADLOCK FALSE
