\* TERM and QUIT, with workers that do not react to TERM.
CONSTANTS
    WorkerN = 1
    Cache = FALSE
    MaxProcesses = 4
    Signals = {"quit", "terminate", "reconfigure"}
    MaxSignals = 3
    MaxCrashes = 1
    MaxFailures = 0
    MaxDelay = 1600
SPECIFICATION FairSpec
PROPERTIES TerminateEnds QuitEnds
\* The master may exit.
CHECK_DEADLOCK FALSE
