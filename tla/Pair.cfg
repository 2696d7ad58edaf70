CONSTANTS
    N = 2
    Threads = {t1, t2}
    a = a
    b = b
    big = big
    Empty = Empty
    NULL = NULL
    Value <- OneValue
    Fits <- MCFits
    Inputs <- WithEmpty
    Validators <- NoValidator
    Overwrite = TRUE
    Serialized = TRUE
    Calls <- NoHooks
    Faults <- CrashOnly
SPECIFICATION Spec
SYMMETRY Symmetry
INVARIANTS FlashAgrees Inv
