CONSTANTS
    Users <- MC_Users
    Passwords <- MC_Passwords
    MaxCycles = 2
    MaxRotations = 2
    MaxFailures = 1
    MaxExits = 1
SPECIFICATION Spec
INVARIANT
    TypeOK
PROPERTY
    WatcherWritesOnlyItsLine
CHECK_DEADLOCK FALSE
