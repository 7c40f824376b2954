CONSTANTS
    Fds <- MC_Fds
    MaskBytes = 1
    InitMayFail = TRUE
    AllocMayFail = TRUE
    MaxReady = 1
INIT Init
NEXT Next
INVARIANTS
    NoWildAccess


CHECK_DEADLOCK FALSE
