SPECIFICATION Spec
CONSTANTS
    Keys = {k1, k2}
    Requests = {q1, q2, q3, q4}
    Concurrent = FALSE
    None = None
SYMMETRY Symmetry
INVARIANT OneSuccessPerKey
PROPERTY ImplementsOncePerKey
CHECK_DEADLOCK FALSE
