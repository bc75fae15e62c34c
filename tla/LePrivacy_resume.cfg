SPECIFICATION Spec
CONSTANTS
    Devs = {d1, d2}
    RlSize = 2
    Attempts = 2
    MaxClients = 2
    MaxMsgs = 3
    NONE = NONE
    FREED = FREED
    FAULT = FAULT
INVARIANT ScanResumes
CHECK_DEADLOCK FALSE
