CONSTANTS
    MaxCycles = 3
    MaxRestarts = 1
    MaxEdits = 1
SPECIFICATION Spec
INVARIANT TypeOK
PROPERTY JobsStartOnlyWhenGraylogStopped
CHECK_DEADLOCK FALSE
