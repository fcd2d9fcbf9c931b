SPECIFICATION FairSpec
CONSTANTS
    Hash = {"h1", "h2", "h3"}
    NoHash = "none"
    NoRecord = NoRecord
    Client = {"w1", "w2", "w3"}
    MaxSubmitRetries = 3
    TxId <- MCTxId
    RequestHash <- MCRequestHash
    RequestMsp <- MCRequestMsp
INVARIANTS
    IInv
    ChainIntact
    AtMostOnce
    SuccessIsAnchored
PROPERTIES
    RetryOnlyAfterDeath
    ImplementsProfileChain
    EveryCallReturns
CHECK_DEADLOCK FALSE
