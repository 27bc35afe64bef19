\* Three processes on a multi-CPU machine, with failing semaphore calls.
CONSTANTS
    p1 = p1
    p2 = p2
    p3 = p3
    none = none
    Proc = {p1, p2, p3}
    NoOwner = none
    HighBit = 8
    Semaphore = TRUE
    SpinRounds = 1
    MaxSemErrors = 1
SPECIFICATION FairSpec
INVARIANTS TypeOK MutualExclusion LockBitIsTruth WaitAccounting NoLostWakeup
PROPERTIES Refinement LockProgress
