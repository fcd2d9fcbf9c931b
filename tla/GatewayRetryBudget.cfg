SPECIFICATION FaultFreeSpec
CONSTANTS
    Hash = {"h1", "h2", "h3"}
    NoHash = "none"
    NoRecord = NoRecord
    Client = {"w1", "w2", "w4", "auditor"}
    MaxSubmitRetries = 2
    TxId <- MCTxId
    RequestHash <- MCRequestHash
    RequestMsp <- MCRequestMsp
PROPERTIES
    EveryWriterSucceeds
CHECK_DEADLOCK FALSE
