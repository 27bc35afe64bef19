\* A worker that sits an iteration out unlocks a mutex it does not own.
CONSTANTS
    w1 = w1
    w2 = w2
    none = none
    orphan = orphan
    Worker = {w1, w2}
    Pid <- MCPid
    NoOwner = none
    Orphan = orphan
    HighBit = 8
    NListen = 1
    ConnectionN = 16
    FreeN = 1
    AcceptMutex = {TRUE}
    MultiAccept = FALSE
    MaxClients = 2
    MaxFailures = 0
    MaxExits = 0
    MaxCrashes = 0
SPECIFICATION Spec
INVARIANTS NoForeignUnlock
