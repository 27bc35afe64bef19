\* The master does not free the mutex of a crashed worker.
CONSTANTS
    w1 = w1
    w2 = w2
    none = none
    orphan = orphan
    Worker = {w1, w2}
    Pid <- MCPid
    NoOwner = none
    Orphan = orphan
    HighBit = 8
    NListen = 1
    ConnectionN = 7
    FreeN = 1
    AcceptMutex = {TRUE}
    MultiAccept = FALSE
    MaxClients = 1
    MaxFailures = 0
    MaxExits = 0
    MaxCrashes = 1
SPECIFICATION Spec
INVARIANTS OrphanReleased
