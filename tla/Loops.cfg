CONSTANTS
    N = 2
    Threads = {t1}
    a = a
    b = b
    big = big
    Empty = Empty
    NULL = NULL
    Value <- TwoValues
    Fits <- MCFits
    Inputs <- WithEmpty
    Validators <- OnlyA
    Overwrite = FALSE
    Serialized = TRUE
    Calls <- LoopCalls
    Faults <- SaveOnly
SPECIFICATION FairSpec
VIEW program
PROPERTIES LoopsAreComplete EveryCallReturns
