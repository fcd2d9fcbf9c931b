SPECIFICATION SerialSpec
CONSTANTS
    Write = {"w1", "w2"}
    Verification = {"v2"}
    Erasure = {}
    Employee = {"emp"}
    Section = {"PERSONAL"}
    NoValue = NoValue
    WithDocument = {}
    MaxKeys = 4
    MaxRestarts = 0
    Identity <- MCIdentity
    Target <- MCTarget
    Content <- MCContent
    Subject <- MCSubject
    TrimSpace <- MCTrimSpace
INVARIANTS
    NoFalseAlarm
CHECK_DEADLOCK FALSE
