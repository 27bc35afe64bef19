\* A pool with fewer than eight connections never sets ngx_accept_disabled above 0.
CONSTANTS
    w1 = w1
    w2 = w2
    w3 = w3
    none = none
    orphan = orphan
    Worker = {w1, w2, w3}
    Pid <- MCPid
    NoOwner = none
    Orphan = orphan
    HighBit = 8
    NListen = 2
    ConnectionN = 7
    FreeN = 1
    AcceptMutex = {TRUE}
    MultiAccept = TRUE
    MaxClients = 2
    MaxFailures = 0
    MaxExits = 1
    MaxCrashes = 1
SPECIFICATION Spec
SYMMETRY Symmetry
INVARIANTS TypeOK HeldMeansOwner OneListener
