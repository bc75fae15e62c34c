SPECIFICATION FairSpec
CONSTANTS
    QueueLen = 3
    EventsPerIrq = 2
    MaxHw = 2
    MaxPosts = 1
    RestartWhileBusy = FALSE
    SlowIrq = FALSE
    ExitMayFail = FALSE
PROPERTY HostWakesPhy
