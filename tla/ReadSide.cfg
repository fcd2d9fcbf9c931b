SPECIFICATION Spec
CONSTANTS
    Lookup <- MCLookup
    Section <- MCSection
    Peer = {p1, p2}
    MaxClock = 2
    MaxRecords = 3
    MaxKeys = 2
    HistoryRequest = {"all", "unknown"}
    Query <- MCQuery
    TrimSpace <- MCTrimSpace
    Requester = {"auditor"}
    SaltRequest = {s1, s2}
    Asked <- MCAsked
INVARIANTS
    HistoryIsComplete
    NewestFirst
    SaltOnlyIfAuthorized
    AuditTrailIsTrue
CONSTRAINT OneSideBusy
SYMMETRY MCSymmetry
CHECK_DEADLOCK FALSE
