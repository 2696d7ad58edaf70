CONSTANTS
    N = 1
    Threads = {t1}
    a = a
    b = b
    big = big
    Empty = Empty
    NULL = NULL
    Value <- AllValues
    Fits <- MCFits
    Inputs <- WithEmpty
    Validators <- OnlyA
    Overwrite = FALSE
    Serialized = TRUE
    Calls <- AllCalls
    Faults <- AllFaults
SPECIFICATION Spec
INVARIANTS TypeOK FlashAgrees ConsumersFollow
PROPERTIES DefaultWriteOnce OnlyAccepted
