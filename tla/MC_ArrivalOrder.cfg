SPECIFICATION ReportsSpec
CONSTANTS
    NumRanks = 3
    Tags = {"1", "9"}
    AnySource = AnySource
    NoMessage = NoMessage
    MaxRequests = 4
    Script <- ScriptOf
    Programs = {"race"}
    Values <- RaceValues
    Processes = {0, 1, 2}
    MaxObjects = 60
    InitialNode = InitialNode
    NULL = NULL
    InitialRun <- ScriptInitialRun
    FastRun <- ScriptFastRun
    Forks <- ScriptForks
    IsTerminated <- ScriptIsTerminated
    Digest <- ScriptDigest
    ToDecimal <- Digits
    InputFile <- FileName
    PageSize = 4096
INVARIANT
    ArrivalOrderIsNotHashed
CHECK_DEADLOCK FALSE
