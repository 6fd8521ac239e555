CONSTANTS
    AuthProxy = TRUE
    MaxFailures = 1
    MaxCopies = 2
    MaxEdits = 1
    CustomSavedSearches = TRUE
    InitialPolicies <- MC_AllPolicies
SPECIFICATION Spec
INVARIANTS
    TypeOK
    OnlyCreateNeverOverwrites
    ReferencedIdsResolved
    NoDuplicateObjects
PROPERTY
    ForceUpdateRecovers
CHECK_DEADLOCK FALSE
