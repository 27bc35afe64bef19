\* HUP after a new binary could not be started.
CONSTANTS
    WorkerN = 1
    Cache = FALSE
    MaxProcesses = 5
    Signals = {"reconfigure", "change_binary"}
    MaxSignals = 2
    MaxCrashes = 0
    MaxFailures = 1
    MaxDelay = 100
SPECIFICATION Spec
PROPERTIES ReloadReconfigures
\* The master may exit.
CHECK_DEADLOCK FALSE
