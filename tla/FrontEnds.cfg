CONSTANTS
    N = 2
    a = a
    b = b
    big = big
    None = None
    NoKey = NoKey
    Value = {a, b, big}
    Fits <- TheFits
    Accepted <- TheAccepted
    Overwrite = FALSE
    FlashFails = TRUE
    MemoryFails = TRUE
    Imports <- TheImports
    Commands <- AllCommands
    Meddling = 1
SPECIFICATION Spec
INVARIANTS TypeOK CopyFollows FrontInv
PROPERTIES ImportIsComplete WalksAreComplete CommandsDoAsTold
