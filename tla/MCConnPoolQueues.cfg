\* The lists of the pool and the stale events.
CONSTANTS
    c1 = c1
    c2 = c2
    c3 = c3
    Conn = {c1, c2, c3}
    DrainRounds = 2
    MaxOpens = 6
SPECIFICATION Spec
INVARIANTS TypeOK PoolPartition ReusableOpen PostedCurrent ReuseDetected
