\* Every operation, one action, a queue of one, a restart; every operation returns.
SPECIFICATION FairSpec
CONSTANTS
    a1 = a1
    Actions <- OneAction
    Operations <- Everything
    Capacity = 1
    MaxOperations = 3
    MaxRestarts = 1
INVARIANTS
    TypeOK
    SequencesIncrease
    WriterIsThere
    DisabledSurvivesRestart
    DropsAreReported
    ActionsAreWhole
PROPERTIES
    OperationReturns
    ResumeMarkerFirst
\* Actions and operations of an instance are finite: then nothing happens.
CHECK_DEADLOCK FALSE
