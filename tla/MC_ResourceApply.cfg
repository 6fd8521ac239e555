CONSTANTS
    Components <- MC_Components
    Resources <- MC_Resources
    Installs <- MC_Installs
    ConfigError <- MC_ConfigError
    Kind <- MC_Kind
    Provisioned <- MC_Provisioned
    BlindUpdated <- MC_BlindUpdated
    HostWaited <- MC_HostWaited
    LabelsCompared <- MC_LabelsCompared
    InstallPlan <- MC_InstallPlan
    UninstallPlan <- MC_UninstallPlan
    Docs <- MC_Docs
    Specs <- MC_Specs
    Vers <- MC_Vers
    Render <- MC_Render
    Touchable <- MC_Touchable
    MaxCycles = 3
    MaxExternal = 1
    MaxEdits = 1
SPECIFICATION Spec
INVARIANTS
    TypeOK
    ConvergedAfterSuccess
    NoChurnOnRepeat
PROPERTIES
    ForeignFieldsKept
\* Every run ends when its bounds on cycles, foreign writes and edits are spent.
CHECK_DEADLOCK FALSE
