SPECIFICATION Spec
CONSTANTS
    Workers = {w1, w2}
    Keys = {k1, k2, k3, k4}
    Servants = {s1}
    None = None
    m_maxKeyCnt = 3
    Slack = 2
    MaxReplies = 5
    MaxReports = 1
SYMMETRY Symmetry
CHECK_DEADLOCK FALSE
INVARIANTS  RecentKept CountsExact
