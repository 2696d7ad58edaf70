CONSTANTS
    N = 1
    Threads = {t1}
    a = a
    b = b
    big = big
    Empty = Empty
    NULL = NULL
    Value <- TwoValues
    Fits <- MCFits
    Inputs <- NonEmpty
    Validators <- NoValidator
    Overwrite = FALSE
    Serialized = TRUE
    Calls <- Stores
    Faults <- SaveOnly
SPECIFICATION Spec
PROPERTIES SuccessIsStored
