SPECIFICATION Spec
CONSTANTS
    Watcher = {"latencies", "log"}
    Text <- MCText
INVARIANT ShownOnceAndWhole
PROPERTY CatchesUp
CHECK_DEADLOCK FALSE
