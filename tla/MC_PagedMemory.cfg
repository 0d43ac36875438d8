SPECIFICATION Spec
CONSTANTS
    States = {s1, s2}
    Ranks = {r1, r2}
    MaxPages = 4
    MaxIndex = 2
    Words = {Zero, W}
    Zero = Zero
    NULL = NULL
SYMMETRY Symmetry
INVARIANTS
    PagedInv
PROPERTIES
    ImplementsPrivateMemory
\* The verifier exits.
CHECK_DEADLOCK FALSE
