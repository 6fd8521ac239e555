CONSTANTS
    Users <- MC_Users
    Passwords <- MC_Passwords
    MaxCycles = 2
    MaxRotations = 2
    MaxFailures = 0
    MaxExits = 0
SPECIFICATION Spec
INVARIANT
    ConfigFollowsSecret
CHECK_DEADLOCK FALSE
