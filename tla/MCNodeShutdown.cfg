\* Two workers, two requests, a queue of one, one service thread, two tasks.
CONSTANTS
    s1 = s1
    k1 = k1
    k2 = k2
    w1 = w1
    w2 = w2
    ServiceThread = {s1}
    Task = {k1, k2}
    Period <- MCPeriod
    MaxTime = 2
    NotQueued = NotQueued
    NoTask = NoTask
    Worker = {w1, w2}
    Request = {1, 2}
    MaxDepth = 1
    Nothing = Nothing
SPECIFICATION FairSpec
INVARIANTS
    NobodyLeftBehind
    AnsweredOnce
PROPERTIES
    NeverEarly
    EverythingEnds
\* The node ends.
CHECK_DEADLOCK FALSE
