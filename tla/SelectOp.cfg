CONSTANTS
    Fds <- MC_Fds
    MaskBytes = 1
    InitMayFail = FALSE
    AllocMayFail = TRUE
    MaxReady = 1
INIT Init
NEXT Next
INVARIANTS
    NoWildAccess
    InitializedSets
    DispatchReportsReady
CHECK_DEADLOCK FALSE
