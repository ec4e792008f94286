SPECIFICATION Spec
CONSTANTS
    p1 = p1
    p2 = p2
    p3 = p3
    c1 = c1
    c2 = c2
    c3 = c3
    c4 = c4
    c5 = c5
    c6 = c6
    Packets <- Packets3
    Conns <- Conns5
    NoPacket = NoPacket
    NoConn = NoConn
    PoolSize = 2
    Pipelining = TRUE
    MaxReconnCount = 1
    MaxOutages = 1
    Flaky = TRUE
CHECK_DEADLOCK FALSE
SYMMETRY Symmetry
INVARIANTS TypeOK ConnExclusive NoLeak Accounting QueueConsistent
PROPERTIES ImplementsLease StopDrains
