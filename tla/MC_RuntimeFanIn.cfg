SPECIFICATION Spec
CONSTANTS
    NumRanks = 3
    Tags = {a, b}
    AnySource = AnySource
    NoMessage = NoMessage
    MaxRequests = 2
    Links <- FanInLinks
    MaxPosts <- FanInPosts
SYMMETRY TagSymmetry
INVARIANTS
    MatchingIsLegal
    SearchFindsTheMatchings
    TypeTellsDelivery
\* A rank that waits for a message nobody sends stops the program.
CHECK_DEADLOCK FALSE
