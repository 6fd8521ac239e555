CONSTANTS
    MaxCycles = 3
    MaxRestarts = 1
    MaxEdits = 1
SPECIFICATION Spec
PROPERTY StepsInOrder
CHECK_DEADLOCK FALSE
