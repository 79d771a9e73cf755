SPECIFICATION Spec
CONSTANTS
    IdleTimeout = 2
    DriveTimeout = 2
    MinGap = 1
    MinGain = 5
    MinPositions = 2
    Ranges = {0, 1, 7}
    Versions = {v1}
    NoUpdate = NoUpdate
    DriveIds = {1, 2}
    SessionIds = {1, 2}
    MaxCrashes = 2
    MaxFails = 0
INVARIANTS
    DriveRowOwned
    ChargeRowHeld
    SyncOnlyWhenParked
    AsleepClosesRows
PROPERTIES
    TripsInOrder
    NoPrematureSplit
