\* Workers at their connection limit, with failing calls, exits and crashes.
CONSTANTS
    w1 = w1
    w2 = w2
    none = none
    orphan = orphan
    Worker = {w1, w2}
    Pid <- MCPid
    NoOwner = none
    Orphan = orphan
    HighBit = 8
    NListen = 2
    ConnectionN = 16
    FreeN = 1
    AcceptMutex = {TRUE, FALSE}
    MultiAccept = FALSE
    MaxClients = 3
    MaxFailures = 1
    MaxExits = 0
    MaxCrashes = 1
SPECIFICATION FairSpec
INVARIANTS LockedOnlyWhileServing OwnerListens
PROPERTIES QueueServed
