SPECIFICATION Spec
CONSTANTS
    Hash = {h1, h2}
    NoHash = NoHash
    NoRecord = NoRecord
    EmployeeID = {e1}
    MaxTx = 4
    TxId <- MCTxId
    Sections <- MCSections
INVARIANTS
    ChainIntact
    NoAdjacentDuplicates
    QueriesAgree
