SPECIFICATION Spec
CONSTANTS
    Orderers <- MCOrderers
    Peers <- MCPeers
    Home = "tenant01"
    NewChannel = "tenant02"
    MaxRuns = 3
    AppBlocks <- MCAppBlocks
    MaxWrites = 1
    MaxPackages = 2
    Channels <- MCChannels
    Facts <- MCFacts
CONSTRAINT WrittenForTheScan
INVARIANTS
    OneGenesis
    SuccessMeansEveryone
    RepeatUnlessLeftover
    DeployedIsServed
    QuorumKept
    ScanPassIsClean
CHECK_DEADLOCK FALSE
