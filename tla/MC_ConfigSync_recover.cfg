CONSTANTS
    AuthProxy = TRUE
    MaxFailures = 1
    MaxCopies = 2
    MaxEdits = 1
    CustomSavedSearches = FALSE
    InitialPolicies <- MC_AllPolicies
SPECIFICATION Spec
PROPERTY
    FailedSyncRecovers
CHECK_DEADLOCK FALSE
