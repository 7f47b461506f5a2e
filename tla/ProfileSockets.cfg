\* Two calls at a time, two sessions on one browser, four calls or ends in all.
SPECIFICATION Spec
CONSTANTS
    t1 = t1  t2 = t2  a = a  b = b
    Threads <- TwoThreads
    Sessions <- TwoSessions
    MAX_RECONNECT_ATTEMPTS = 2
    MaxCalls = 4
SYMMETRY Symmetry
INVARIANTS
    TypeOK
    LockHoldersProceed
    OneRedial
    NothingOutlivesItsGrant
\* The calls of an instance are finite: when they are over nothing happens.
CHECK_DEADLOCK FALSE
