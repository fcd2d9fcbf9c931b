SPECIFICATION FairSpec
CONSTANTS
    Handler = {h1, h2}
    DispatchTimeout = 3
    WriteTimeoutBuffer = 1
    EndorseTimeout = 1
    SubmitTimeout = 1
    CommitStatusTimeout = 2
    ShutdownTimeout = 2
    MaxSubmitRetries = 3
INVARIANTS
    HandlerIsBounded
    GatewayOutlivesRequests
PROPERTIES
    ShutdownEnds
CHECK_DEADLOCK FALSE
