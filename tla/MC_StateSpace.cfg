SPECIFICATION Spec
CONSTANTS
    Programs <- Graphs
    Values <- GraphValues
    Processes = {0}
    MaxObjects = 10
    InitialNode = InitialNode
    NULL = NULL
    InitialRun <- GraphInitialRun
    FastRun <- GraphFastRun
    Forks <- GraphForks
    IsTerminated <- GraphIsTerminated
    Digest <- GraphDigest
INVARIANTS
    ExplorerInv
    QueuedStatesAreLive
    InterpreterStateIsLive
    PathsLeadBack
    GraphIsExact
    DeadlocksAreReported
PROPERTIES
    ExplorationEnds
\* The exploration ends.
CHECK_DEADLOCK FALSE
