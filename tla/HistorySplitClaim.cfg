\* No action; state writes may fail.
SPECIFICATION Spec
CONSTANTS
    a1 = a1
    Actions <- NoActions
    Operations <- Switching
    Capacity = 2
    MaxOperations = 2
    MaxRestarts = 0
INVARIANTS
    NoSplitBrain
\* Actions and operations of an instance are finite: then nothing happens.
CHECK_DEADLOCK FALSE
