SPECIFICATION Spec
CONSTANTS
    Producers = {p1, p2}
    Data = {d1, d2}
    NoData = none
    ReqNum = 3
    DropFirst = TRUE
    HighThroughput = FALSE
    HandlerTxMayFail = TRUE
INVARIANT TypeOK
INVARIANT RequestsConserved
INVARIANT OneTransfer
PROPERTY ImplementsSerialPipe
CHECK_DEADLOCK FALSE
