SPECIFICATION ReportsSpec
CONSTANTS
    NumRanks = 3
    Tags = {"1", "5", "9", "10"}
    AnySource = AnySource
    NoMessage = NoMessage
    MaxRequests = 4
    Script <- ScriptOf
    Programs = {"race", "isir_1", "isir_0", "test_recv_00", "test_recv_10", "test_recv_02", "match1", "waitall_a", "waitall_b", "waitall_c"}
    Values <- ScriptValues
    Processes = {0, 1, 2}
    MaxObjects = 60
    InitialNode = InitialNode
    NULL = NULL
    InitialRun <- ScriptInitialRun
    FastRun <- ScriptFastRun
    Forks <- ScriptForks
    IsTerminated <- ScriptIsTerminated
    Digest <- ScriptDigest
    ToDecimal <- Digits
    InputFile <- FileName
    PageSize = 4096
INVARIANTS
    ReportsAreAsTested
    ActionsAreShownOnce
    PathsShowRunsInOrder
\* The exploration ends.
CHECK_DEADLOCK FALSE
