CONSTANTS
    DesiredStates <- MC_DesiredStates
    PendingTimeoutPolls = 2
    MaxPolls = 2
    MaxCycles = 3
    MaxEdits = 1
    NodeLists <- MC_NodeLists
SPECIFICATION Spec
INVARIANT TypeOK
INVARIANT OneConditionPerReason
INVARIANT CycleStatusReflectsLastCycle
INVARIANT PendingResolved
PROPERTY RuntimeMatchesTable
CHECK_DEADLOCK FALSE
