SPECIFICATION FairSpec
CONSTANTS
    s1 = s1
    s2 = s2
    c1 = c1
    NoConnection = NoConnection
    Sessions = {s1, s2}
    Connections = {c1}
    Workloads <- OneBusyClient
    MaxFailures = 1
CHECK_DEADLOCK FALSE
INVARIANTS OwnBytes RepliesInOrder
PROPERTIES BatchesAnswered
