SPECIFICATION Spec
CONSTANTS
    Producers = {p1, p2}
    Data = {d1, d2}
    NoData = none
    ReqNum = 2
    DropFirst = TRUE
    HighThroughput = FALSE
    HandlerTxMayFail = TRUE
INVARIANT DropFirstFindsOne
