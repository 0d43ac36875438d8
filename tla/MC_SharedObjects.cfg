SPECIFICATION Spec
CONSTANTS
    States = {s1, s2}
    Slots = {0, 1, 2}
    Places = {1, 2}
    MessageAddrs = {m1, m2}
    RequestAddrs = {q1, q2, q3, q4}
    Names = {n1, n2, n3}
    NULL = NULL
SYMMETRY Symmetry
INVARIANTS
    ValuesInv
    OnlyCompletedRecvsLeak
PROPERTIES
    ImplementsValues
\* Everything may be deleted, or the heap full.
CHECK_DEADLOCK FALSE
