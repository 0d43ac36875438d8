SPECIFICATION Spec
CONSTANTS
    NaN = NaN
    Floats = {0, 1}
    Widths = {1, 2, 3, 4, 5}
    PointerBits = 4
    IndexBits = 2
    FloatDigits = 2
    DoubleDigits = 3
    Registers = {x, y, z}
    Blocks = {B1, B2}
    NULL = NULL
    OperatorWidths = {1, 2, 3, 4}
    Offsets = {0, 1}
    Sizes = {1, 2, 3}
    MaxQuarters = 140
    MaxBits = 8
    MaxPieces = 3
INVARIANTS
    ComparesFollowTheirPredicate
    ShiftsStayInRange
    CastsBringValuesBack
    IndicesAreSigned
    BitCastsKeepMemory
    ElementsStayInPlace
    ConstantsComputeAddresses
    PhisAreParallel
    ConstantsHaveTheirType
    ArgumentsArriveIntact
    FormatsAreExpanded
\* One instruction is executed.
CHECK_DEADLOCK FALSE
