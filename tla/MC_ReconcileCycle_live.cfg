CONSTANTS
    DesiredStates <- MC_DesiredStatesSmall
    PendingTimeoutPolls = 2
    MaxPolls = 2
    MaxCycles = 2
    MaxEdits = 1
    NodeLists <- MC_NodeListsSmall
SPECIFICATION Spec
PROPERTY CycleCompletes
PROPERTY AbstractCycleSpec
CHECK_DEADLOCK FALSE
