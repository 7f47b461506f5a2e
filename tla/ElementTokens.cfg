\* Two calls at a time, two runtimes and three windows, a lane of two snapshots.
SPECIFICATION Spec
CONSTANTS
    k1 = k1  k2 = k2  r1 = r1  r2 = r2  w1 = w1  w2 = w2  w3 = w3
    Tasks <- TwoTasks
    Scopes <- TwoScopes
    Windows <- ThreeWindows
    LRU_CAP_PER_PID = 2
    IdRange = 16
    MaxWalks = 3
    MaxActions = 3
SYMMETRY Symmetry
INVARIANTS
    TypeOK
    TokenHitsItsTree
    ReferencesBalance
PROPERTY
    StaleStaysStale
\* Walks and actions of an instance are finite: when they are over nothing happens.
CHECK_DEADLOCK FALSE
