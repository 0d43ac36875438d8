SPECIFICATION Spec
CONSTANTS
    NumRanks = 2
    Tags = {a}
    AnySource = AnySource
    NoMessage = NoMessage
    MaxRequests = 3
    Links <- PairLinks
    MaxPosts <- PairPosts
INVARIANTS
    RuntimeInv
    HandlesNameTheirRequests
PROPERTIES
    ImplementsMatching
    ReturnsExactlyWhenDone
    ReadyStaysReady
\* A rank that waits for a message nobody sends stops the program.
CHECK_DEADLOCK FALSE
