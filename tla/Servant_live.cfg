SPECIFICATION FairSpec
CONSTANTS
    p1 = p1
    p2 = p2
    p3 = p3
    c1 = c1
    c2 = c2
    c3 = c3
    c4 = c4
    c5 = c5
    c6 = c6
    Packets <- Packets3
    Conns <- Conns4
    NoPacket = NoPacket
    NoConn = NoConn
    PoolSize = 1
    Pipelining = FALSE
    MaxReconnCount = 1
    MaxOutages = 1
    Flaky = FALSE
CHECK_DEADLOCK FALSE
 
PROPERTIES HandlerProgress  QueuedServedUnderTraffic
