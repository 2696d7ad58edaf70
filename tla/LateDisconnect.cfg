CONSTANTS
    N = 2
    Value <- Values
    None = None
    Fits <- TheFits
    Accepted <- TheAccepted
    Overwrite = TRUE
    FlashFails = TRUE
    Radix = 16
    Info <- TheInfo
    Conns = {c1}
    NoConn = NoConn
    RespLen = 24
    Requests <- SmallRequests
    Malformed <- TheMalformed
    Meddling = 2
SPECIFICATION FairSpec
PROPERTY EveryWriteIsAnswered
CHECK_DEADLOCK FALSE
