SPECIFICATION Spec
CONSTANTS
    Keys = {k1, k2}
    Requests = {q1, q2, q3, q4}
    Concurrent = TRUE
    None = None
SYMMETRY Symmetry
INVARIANT SameKeySameAnswer
CHECK_DEADLOCK FALSE
