SPECIFICATION Spec
CONSTANTS
    Write = {"w1", "w2"}
    Verification = {"v1"}
    Erasure = {"e1"}
    Employee = {"emp"}
    Section = {"PERSONAL"}
    NoValue = NoValue
    WithDocument = {"w1"}
    MaxKeys = 4
    MaxRestarts = 1
    Identity <- MCIdentity
    Target <- MCTarget
    Content <- MCContent
    Subject <- MCSubject
    TrimSpace <- MCTrimSpace
INVARIANTS
    EveryAnchorHasSalt
    OneSaltPerRecord
    CommittedIsAnchored
    ErrorLeavesNoTrace
CHECK_DEADLOCK FALSE
