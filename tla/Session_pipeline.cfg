SPECIFICATION Spec
CONSTANTS
    s1 = s1
    s2 = s2
    c1 = c1
    NoConnection = NoConnection
    Sessions = {s1, s2}
    Connections = {c1}
    Workloads <- LocalThenForwarded
    MaxFailures = 0
CHECK_DEADLOCK FALSE
INVARIANTS NoForeignReply
