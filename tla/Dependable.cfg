CONSTANTS
    N = 1
    Threads = {t1, t2}
    a = a
    b = b
    big = big
    Empty = Empty
    NULL = NULL
    Value <- AllValues
    Fits <- MCFits
    Inputs <- NonEmpty
    Validators <- OnlyA
    Overwrite = TRUE
    Serialized = TRUE
    Calls <- Stores
    Faults <- CrashOnly
SPECIFICATION Spec
PROPERTIES SuccessIsStored ImplementsStore
