SPECIFICATION Spec
CONSTANTS
    NumRanks = 2
    Tags = {a}
    AnySource = AnySource
    NoMessage = NoMessage
    MaxRequests = 3
    Links <- PairLinks
    MaxPosts <- PairPosts
INVARIANT
    DeadlockIsReal
CHECK_DEADLOCK FALSE
