\* The table of processes under every signal, crashes and failing calls.
CONSTANTS
    WorkerN = 1
    Cache = FALSE
    MaxProcesses = 3
    Signals = {"quit", "terminate", "noaccept", "reconfigure", "reopen", "change_binary"}
    MaxSignals = 4
    MaxCrashes = 1
    MaxFailures = 1
    MaxDelay = 0
SPECIFICATION Spec
INVARIANTS TypeOK ChildrenTracked MasterExitsLast OldWorkersTold WorkersKept
PROPERTIES CurrentWorkersSpared
\* The master may exit.
CHECK_DEADLOCK FALSE
