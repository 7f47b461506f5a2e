\* Three calls, two of them at once, one session and anonymous starts, one directory.
SPECIFICATION FairSpec
CONSTANTS
    a = a  b = b  d1 = d1
    Sessions <- OneSession
    Dirs <- OneDir
    MaxCalls = 3
    MaxOpen = 2
INVARIANTS
    TypeOK
    RecordingIsOwned
    ShutdownDrains
PROPERTIES
    ActionHasItsBefore
    IdleRecordingStops
    ShutdownReturns
\* The calls of an instance are finite: when they are over nothing happens.
CHECK_DEADLOCK FALSE
