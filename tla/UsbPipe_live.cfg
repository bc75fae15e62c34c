SPECIFICATION FairSpec
CONSTANTS
    Producers = {p1, p2}
    Data = {d1}
    NoData = none
    ReqNum = 3
    DropFirst = FALSE
    HighThroughput = FALSE
    HandlerTxMayFail = FALSE
INVARIANT NoLostWakeup
PROPERTY QueuedIsServed
