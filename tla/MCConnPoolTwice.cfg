\* A connection is opened twice between two epoll_wait calls.
CONSTANTS
    c1 = c1
    c2 = c2
    c3 = c3
    Conn = {c1, c2, c3}
    DrainRounds = 2
    MaxOpens = 5
SPECIFICATION Spec
INVARIANTS StaleDetected
