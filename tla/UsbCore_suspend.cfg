SPECIFICATION FairSpec
CONSTANTS
    QueueLen = 2
    EventsPerIrq = 1
    MaxHw = 2
    MaxPosts = 1
    RestartWhileBusy = FALSE
    SlowIrq = FALSE
    ExitMayFail = TRUE
INVARIANT SuspendTracked
INVARIANT ReturnsAwake
INVARIANT InterfacesFollow
PROPERTY SetupDispatched
PROPERTY HostWakesPhy
