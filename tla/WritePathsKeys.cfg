SPECIFICATION Spec
CONSTANTS
    Write = {"w1", "k1", "k2"}
    Verification = {"vx", "vk"}
    Erasure = {}
    Employee = {"emp"}
    Section = {"PERSONAL"}
    NoValue = NoValue
    WithDocument = {}
    MaxKeys = 4
    MaxRestarts = 0
    Identity <- MCIdentity
    Target <- MCTarget
    Content <- MCContent
    Subject <- MCSubject
    TrimSpace <- MCTrimSpace
INVARIANTS
    PseudonymsAgree
    SaltSlotIsFree
    VerifiedMeansWritten
CHECK_DEADLOCK FALSE
