SPECIFICATION Spec
CONSTANTS
    IdleTimeout = 1
    DriveTimeout = 1
    MinGap = 1
    MinGain = 5
    MinPositions = 1
    Ranges = {0, 1, 7}
    Versions = {v1}
    NoUpdate = NoUpdate
    DriveIds = {1, 2}
    SessionIds = {1}
    MaxCrashes = 1
    MaxFails = 1
INVARIANTS
    TypeOK
    SleepRespected
    UpdateNotSuspended
    HeldRowsOpen
