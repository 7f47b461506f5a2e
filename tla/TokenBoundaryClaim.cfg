\* Does a token whose tree was replaced ever act?
SPECIFICATION Spec
CONSTANTS
    k1 = k1  k2 = k2  r1 = r1  r2 = r2  w1 = w1  w2 = w2  w3 = w3
    Tasks <- TwoTasks
    Scopes <- OneScope
    Windows <- OneWindow
    LRU_CAP_PER_PID = 2
    IdRange = 16
    MaxWalks = 2
    MaxActions = 1
INVARIANT
    StaleTokenIsRefused
\* Walks and actions of an instance are finite: when they are over nothing happens.
CHECK_DEADLOCK FALSE
