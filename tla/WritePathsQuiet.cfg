SPECIFICATION QuietSpec
CONSTANTS
    Write = {"w1", "w2", "w3"}
    Verification = {"v1", "v2", "vd"}
    Erasure = {"e1"}
    Employee = {"emp"}
    Section = {"PERSONAL"}
    NoValue = NoValue
    WithDocument = {"w1"}
    MaxKeys = 6
    MaxRestarts = 0
    Identity <- MCIdentity
    Target <- MCTarget
    Content <- MCContent
    Subject <- MCSubject
    TrimSpace <- MCTrimSpace
INVARIANTS
    AnchoredIsVerifiable
    NoFalseAlarm
    ErasureIsComplete
CHECK_DEADLOCK FALSE
