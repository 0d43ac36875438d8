SPECIFICATION Spec
CONSTANTS
    Processes = {p1, p2}
    Ranks = {p1}
    Sites = {c1, c2}
    ExitCodes = {0, 1}
    Handlers = {h1}
    Sizes = {0, 3}
    GlobalSize = 1
    MainArities = {0, 2}
    MaxFrames = 2
    MaxBlocks = 3
    MaxHandlers = 1
    WordBytes = 2
    PageSize = 4
    AddressPages = 2
    NULL = NULL
    Void = Void
SYMMETRY Symmetry
INVARIANTS
    InterpreterInv
    HeapListsAreSound
    HeldBlocksAreIntact
    FramesOwnTheirAllocas
    LeftProcessesWait
PROPERTIES
    ImplementsCallStack
\* The verifier exits, or all processes have finished.
CHECK_DEADLOCK FALSE
