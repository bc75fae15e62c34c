SPECIFICATION FairSpec
CONSTANTS
    Credits = 1
    QueueNum = 2
    Width = 2
    MaxCalls = 2
    MaxSessions = 1
    MaxCmds = 2
    MaxEvts = 2
PROPERTY QueueDrains
