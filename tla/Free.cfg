CONSTANTS
    N = 1
    Threads = {t1, t2}
    a = a
    b = b
    big = big
    Empty = Empty
    NULL = NULL
    Value <- TwoValues
    Fits <- MCFits
    Inputs <- WithEmpty
    Validators <- NoValidator
    Overwrite = FALSE
    Serialized = FALSE
    Calls <- FreeCalls
    Faults <- NoFaults
SPECIFICATION Spec
SYMMETRY Symmetry
INVARIANTS ChangedIsMarked ConsumersFollow
