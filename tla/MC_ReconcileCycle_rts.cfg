CONSTANTS
    DesiredStates <- MC_DesiredStates
    PendingTimeoutPolls = 2
    MaxPolls = 2
    MaxCycles = 3
    MaxEdits = 1
    NodeLists <- MC_NodeListsSmall
SPECIFICATION Spec
PROPERTY FailedStatusSurvivesCycleStart
CHECK_DEADLOCK FALSE
