SPECIFICATION FairSpec
CONSTANTS
    Devs = {d1, d2}
    RlSize = 2
    Attempts = 2
    MaxClients = 2
    MaxMsgs = 3
    NONE = NONE
    FREED = FREED
    FAULT = FAULT
INVARIANT TypeOK
INVARIANT ScanSettles
INVARIANT ModifyGoesOn
INVARIANT WaitEnds
INVARIANT ResolutionOff
INVARIANT OthersResume
PROPERTY ScanStops
CHECK_DEADLOCK FALSE
