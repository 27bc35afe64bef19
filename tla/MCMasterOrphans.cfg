\* HUP after the workers were replaced by a new binary.
CONSTANTS
    WorkerN = 1
    Cache = FALSE
    MaxProcesses = 5
    Signals = {"quit", "terminate", "noaccept", "reconfigure", "reopen", "change_binary"}
    MaxSignals = 4
    MaxCrashes = 1
    MaxFailures = 0
    MaxDelay = 100
SPECIFICATION Spec
INVARIANTS NobodyLeftBehind
\* The master may exit.
CHECK_DEADLOCK FALSE
