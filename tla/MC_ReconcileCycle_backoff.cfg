CONSTANTS
    DesiredStates <- MC_DesiredStatesGraylog
    PendingTimeoutPolls = 1
    MaxPolls = 1
    MaxCycles = 36
    MaxEdits = 0
    NodeLists <- MC_NodeListsSmall
SPECIFICATION Spec
INVARIANT FailedCycleRequeued
CHECK_DEADLOCK FALSE
