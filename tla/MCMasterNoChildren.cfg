\* TERM when no process could be forked.
CONSTANTS
    WorkerN = 1
    Cache = FALSE
    MaxProcesses = 6
    Signals = {"terminate"}
    MaxSignals = 1
    MaxCrashes = 0
    MaxFailures = 1
    MaxDelay = 1600
SPECIFICATION FairSpec
PROPERTIES TerminateEnds
\* The master may exit.
CHECK_DEADLOCK FALSE
